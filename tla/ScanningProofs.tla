---------------------------- MODULE ScanningProofs ----------------------------
(***************************************************************************)
(* Theorems about what looks for signs of attack in a request: the scans   *)
(* of the detectors (ContentScan), for any categories, patterns and        *)
(* contents; the literal prefilter (Prefilter, here Pre), for any syntax   *)
(* trees and texts; the WAF engine (WafEngine, here Waf), for any number   *)
(* of reloads and rules files; and the STIX engine (StixEngine, here       *)
(* Stix), for any number of callers and bundles.                           *)
(***************************************************************************)
EXTENDS MCScanning, MCStixEngine, FiniteSetTheorems, SequenceTheorems, WellFoundedInduction, TLAPS

-----------------------------------------------------------------------------
(* The WAF engine.                                                         *)

Loaders == [pc : {"idle", "adding"}, todo : Seq(Rules)]

\* The automaton knows the literals of every signature unless a reload is under way that
\* will yet rebuild it.
WafInv ==
  /\ file = Unreadable \/ file \in Seq(Rules)
  /\ loader \in [Admins -> Loaders]
  /\ (\A a \in Admins : loader[a] = Waf!Idle) => bodyAC = Waf!PrefilterOf(signatures)
  /\ Waf!QuietScansMissNothing

LEMMA ToSetOf == ASSUME NEW s, NEW i \in DOMAIN s PROVE s[i] \in Waf!ToSet(s)
BY DEF Waf!ToSet

\* A scan under an automaton that knows the literals of all signatures misses nothing.
LEMMA KnowingFinds ==
  ASSUME bodyAC = Waf!PrefilterOf(signatures), NEW body \in Waf!Bodies, NEW path,
         NEW i \in DOMAIN signatures
  PROVE  Waf!Matched(signatures[i], body, path) \ Waf!Reported(signatures[i], body, path) = {}
<1>. DEFINE r == signatures[i]
<1>1. CASE Waf!Skips(r, body)
  <2>1. r \in OnBody /\ requiredLiterals[r] # {} /\ requiredLiterals[r] \cap body \cap bodyAC = {}
    BY <1>1 DEF Waf!Skips
  <2>2. requiredLiterals[r] \subseteq bodyAC
    BY <2>1, ToSetOf DEF Waf!PrefilterOf
  <2>3. r \notin body
    BY <2>1, <2>2 DEF Waf!Bodies
  <2>. QED  BY <1>1, <2>3 DEF Waf!Matched, Waf!Reported
<1>2. CASE ~Waf!Skips(r, body)
  BY <1>2 DEF Waf!Reported
<1>. QED  BY <1>1, <1>2

LEMMA WafInit == Waf!Init => WafInv
BY RulesAssumption DEF Waf!Init, WafInv, Loaders, Waf!Idle, Waf!NoScan, Waf!QuietScansMissNothing, Waf!FilesAssumption

LEMMA WafScans ==
  ASSUME WafInv, NEW body \in Waf!Bodies, NEW path \in SUBSET OnPath, Waf!Scan(body, path)
  PROVE  WafInv'
<1>1. UNCHANGED <<signatures, bodyAC, file, loader>>
  BY DEF Waf!Scan
<1>2. last'.quiet => last'.missed = {}
  <2>1. PICK reached \in SUBSET DOMAIN signatures :
          /\ last'.quiet <=> \A a \in Admins : loader[a] = Waf!Idle
          /\ last'.missed = UNION {Waf!Matched(r, body, path) \ Waf!Reported(r, body, path) :
                                     r \in {signatures[i] : i \in reached}}
    BY DEF Waf!Scan
  <2>2. SUFFICES ASSUME bodyAC = Waf!PrefilterOf(signatures) PROVE last'.missed = {}
    BY <2>1 DEF WafInv
  <2>3. \A r \in {signatures[i] : i \in reached} :
          Waf!Matched(r, body, path) \ Waf!Reported(r, body, path) = {}
    BY <2>2, KnowingFinds
  <2>. QED  BY <2>1, <2>3
<1>. QED  BY <1>1, <1>2 DEF WafInv, Waf!PrefilterOf, Waf!QuietScansMissNothing

LEMMA WafReloads ==
  ASSUME WafInv, NEW a \in Admins, Waf!Reload(a)
  PROVE  WafInv'
<1>1. CASE Waf!ReadRules(a)
  <2>1. UNCHANGED <<signatures, bodyAC, file, last>>
    BY <1>1 DEF Waf!ReadRules
  <2>2. CASE loader' = loader
    BY <2>1, <2>2 DEF WafInv, Waf!PrefilterOf, Waf!QuietScansMissNothing
  <2>3. CASE file # Unreadable /\ loader' = [loader EXCEPT ![a] = [pc |-> "adding", todo |-> file]]
    <3>1. loader' \in [Admins -> Loaders] /\ loader'[a] # Waf!Idle
      BY <2>3 DEF WafInv, Loaders, Waf!Idle
    <3>. QED  BY <2>1, <3>1 DEF WafInv, Waf!QuietScansMissNothing
  <2>. QED  BY <1>1, <2>2, <2>3 DEF Waf!ReadRules
<1>2. CASE Waf!AddRule(a)
  <2>1. UNCHANGED <<bodyAC, file, last>> /\ loader' = [loader EXCEPT ![a].todo = Tail(@)]
    BY <1>2 DEF Waf!AddRule
  <2>2. loader[a] \in Loaders /\ loader[a].pc = "adding" /\ loader[a].todo # <<>>
    BY <1>2 DEF Waf!AddRule, WafInv
  <2>3. Tail(loader[a].todo) \in Seq(Rules)
    BY <2>2 DEF Loaders
  <2>4. loader' \in [Admins -> Loaders] /\ loader'[a].pc = "adding"
    BY <2>1, <2>2, <2>3 DEF WafInv, Loaders
  <2>5. loader'[a] # Waf!Idle
    BY <2>4 DEF Waf!Idle
  <2>. QED  BY <2>1, <2>4, <2>5 DEF WafInv, Waf!QuietScansMissNothing
<1>3. CASE Waf!RebuildBodyPrefilter(a)
  <2>1. /\ UNCHANGED <<signatures, file, last>> /\ loader' = [loader EXCEPT ![a] = Waf!Idle]
        /\ bodyAC' = Waf!PrefilterOf(signatures)
    BY <1>3 DEF Waf!RebuildBodyPrefilter
  <2>2. Waf!Idle \in Loaders
    BY DEF Waf!Idle, Loaders
  <2>3. loader' \in [Admins -> Loaders]
    BY <2>1, <2>2 DEF WafInv
  <2>. QED  BY <2>1, <2>3 DEF WafInv, Waf!PrefilterOf, Waf!QuietScansMissNothing
<1>. QED  BY <1>1, <1>2, <1>3 DEF Waf!Reload

LEMMA WafSteps == WafInv /\ [Waf!Next]_Waf!vars => WafInv'
<1>. SUFFICES ASSUME WafInv, [Waf!Next]_Waf!vars PROVE WafInv'
  OBVIOUS
<1>1. CASE Waf!EditFile
  <2>1. UNCHANGED <<signatures, bodyAC, loader, last>> /\ file' \in Files
    BY <1>1 DEF Waf!EditFile
  <2>2. file' = Unreadable \/ file' \in Seq(Rules)
    BY <2>1, RulesAssumption DEF Waf!FilesAssumption
  <2>. QED  BY <2>1, <2>2 DEF WafInv, Waf!PrefilterOf, Waf!QuietScansMissNothing
<1>2. CASE Waf!Restart
  BY <1>2 DEF Waf!Restart, WafInv, Loaders, Waf!Idle, Waf!NoScan, Waf!QuietScansMissNothing
<1>3. CASE UNCHANGED Waf!vars
  BY <1>3 DEF Waf!vars, WafInv, Waf!PrefilterOf, Waf!QuietScansMissNothing
<1>. QED  BY <1>1, <1>2, <1>3, WafScans, WafReloads DEF Waf!Next

\* A scan that meets no reload finds every signature it reaches and the request matches,
\* however many reloads overlapped before it, whatever they loaded twice and whatever did not
\* compile (LoadEvolvedRules, scanWithDeadline).
THEOREM QuietScansAlwaysFind == Waf!Spec => []QuietScansMissNothing
<1>1. WafInv => QuietScansMissNothing
  BY DEF WafInv, QuietScansMissNothing
<1>. QED  BY <1>1, WafInit, WafSteps, PTL DEF Waf!Spec

-----------------------------------------------------------------------------
(* Sums over finite sets are folds, by a recursive function on the         *)
(* subsets: that there is one, and what it computes, is proved by          *)
(* induction, from the library's theorems on well-founded relations.       *)

One(s) == CHOOSE x \in s : TRUE
SumStep(f, g, s) == IF s = {} THEN 0 ELSE f[One(s)] + g[s \ {One(s)}]
IsSum(f, S, g) == g = [s \in SUBSET S |-> SumStep(f, g, s)]

\* A sum is the value at S of a function that is chosen to satisfy the recursion.
LEMMA SumIs == ASSUME NEW f, NEW S PROVE SumFunctionOnSet(f, S) = (CHOOSE g : IsSum(f, S, g))[S]
BY DEF SumFunctionOnSet, FoldFunctionOnSet, MapThenFoldSet, IsSum, SumStep, One

LEMMA OneIn == ASSUME NEW s, s # {} PROVE One(s) \in s
BY DEF One

\* Induction over the subsets of a finite set: a family F that has a set as soon as it
\* has those strictly inside has them all.
LEMMA SubsetInduction ==
  ASSUME NEW S, IsFiniteSet(S), NEW F,
         \A s \in SUBSET S : (\A r \in SUBSET s : r # s => r \in F) => s \in F
  PROVE  S \in F
<1>. DEFINE B == {s \in SUBSET S : s \notin F}
            R == StrictSubsetOrdering(S)
<1>1. FiniteSubsetsOf(S) = SUBSET S
  BY FS_FiniteSubsetsOfFinite
<1>2. IsWellFoundedOn(R, SUBSET S)
  BY <1>1, FS_StrictSubsetOrderingWellFounded
<1>3. ASSUME B # {} PROVE FALSE
  <2>1. B \subseteq SUBSET S
    OBVIOUS
  <2>2. PICK s \in B : \A r \in B : <<r, s>> \notin R
    <3>. HIDE DEF B, R
    <3>. QED  BY <1>2, <1>3, <2>1, WFMin
  <2>3. \A r \in SUBSET s : r # s => r \in F
    BY <2>2 DEF StrictSubsetOrdering
  <2>. QED  BY <2>2, <2>3
<1>. QED  BY <1>3

\* Induction over the natural numbers.
LEMMA NatSetInduction ==
  ASSUME NEW F, 0 \in F, \A n \in Nat : n \in F => n + 1 \in F
  PROVE  \A n \in Nat : n \in F
<1>. DEFINE B == {n \in Nat : n \notin F}
            R == OpToRel(<, Nat)
<1>1. IsWellFoundedOn(R, Nat)
  BY NatLessThanWellFounded
<1>2. \A m, n \in Nat : m < n => <<m, n>> \in R
  BY DEF OpToRel
<1>3. ASSUME B # {} PROVE FALSE
  <2>1. B \subseteq Nat
    OBVIOUS
  <2>2. PICK n \in B : \A m \in B : <<m, n>> \notin R
    <3>. HIDE DEF B, R
    <3>. QED  BY <1>1, <1>3, <2>1, WFMin
  <2>. HIDE DEF R
  <2>3. n # 0 /\ n \in Nat
    OBVIOUS
  <2>4. n - 1 \in Nat /\ n - 1 < n /\ (n - 1) + 1 = n
    BY <2>3
  <2>5. n - 1 \notin B
    BY <1>2, <2>2, <2>4
  <2>. QED  BY <2>2, <2>4, <2>5
<1>. QED  BY <1>3

\* There is a function that satisfies it: from the sets of up to n elements to those of n + 1.
LEMMA SumExists ==
  ASSUME NEW S, IsFiniteSet(S), NEW f, \A x \in S : f[x] \in Nat
  PROVE  \E g : IsSum(f, S, g)
<1>. DEFINE Small(n) == {s \in SUBSET S : Cardinality(s) <= n}
            Solves(g, n) == g \in [Small(n) -> Nat] /\ \A s \in Small(n) : g[s] = SumStep(f, g, s)
            F == {n \in Nat : \E g : Solves(g, n)}
<1>1. \A s \in SUBSET S : IsFiniteSet(s) /\ Cardinality(s) \in Nat
  BY FS_Subset, FS_CardinalityType
<1>2. \A s \in SUBSET S : s # {} => /\ One(s) \in s /\ f[One(s)] \in Nat
                                     /\ s \ {One(s)} \in SUBSET S
                                     /\ Cardinality(s \ {One(s)}) = Cardinality(s) - 1
  BY <1>1, OneIn, FS_RemoveElement
<1>3. 0 \in F
  <2>1. \A s \in Small(0) : s = {}
    BY <1>1, FS_EmptySet
  <2>2. Solves([s \in Small(0) |-> 0], 0)
    BY <2>1 DEF SumStep
  <2>. HIDE DEF Solves
  <2>. QED  BY <2>2
<1>4. ASSUME NEW n \in Nat, n \in F PROVE n + 1 \in F
  <2>1. PICK g : Solves(g, n)
    BY <1>4
  <2>. DEFINE h == [s \in Small(n + 1) |-> IF s \in Small(n) THEN g[s] ELSE f[One(s)] + g[s \ {One(s)}]]
  <2>2. Small(n) \subseteq Small(n + 1)
    BY <1>1
  <2>3. \A s \in Small(n + 1) : s # {} => s \ {One(s)} \in Small(n)
    BY <1>1, <1>2
  <2>4. {} \in Small(n)
    BY FS_EmptySet
  <2>5. h \in [Small(n + 1) -> Nat]
    <3>1. \A s \in Small(n + 1) : (IF s \in Small(n) THEN g[s] ELSE f[One(s)] + g[s \ {One(s)}]) \in Nat
      <4>. TAKE s \in Small(n + 1)
      <4>1. s \in Small(n) => g[s] \in Nat
        <5>. HIDE DEF Small
        <5>. QED  BY <2>1
      <4>2. s \notin Small(n) => f[One(s)] \in Nat /\ g[s \ {One(s)}] \in Nat
        <5>1. s \notin Small(n) => s # {} /\ s \in SUBSET S
          BY <2>4
        <5>. HIDE DEF Small
        <5>. QED  BY <1>2, <2>1, <2>3, <5>1
      <4>. QED  BY <4>1, <4>2
    <3>. HIDE DEF Small
    <3>. QED  BY <3>1
  <2>6. \A s \in Small(n + 1) : h[s] = SumStep(f, h, s)
    <3>. HIDE DEF Small
    <3>. QED  BY <2>1, <2>2, <2>3, <2>4 DEF SumStep
  <2>7. Solves(h, n + 1)
    BY <2>5, <2>6
  <2>. HIDE DEF Solves, h
  <2>. QED  BY <2>7
<1>5. Cardinality(S) \in F
  <2>. HIDE DEF F
  <2>. QED  BY <1>1, <1>3, <1>4, NatSetInduction
<1>6. Small(Cardinality(S)) = SUBSET S
  BY <1>1, FS_Subset
<1>7. PICK g : Solves(g, Cardinality(S))
  BY <1>5
<1>8. g = [s \in SUBSET S |-> g[s]] /\ \A s \in SUBSET S : g[s] = SumStep(f, g, s)
  <2>. HIDE DEF Small
  <2>. QED  BY <1>6, <1>7
<1>. QED  BY <1>8 DEF IsSum

SumOver(f, S) == CHOOSE g : IsSum(f, S, g)

LEMMA SumOverIs ==
  ASSUME NEW S, IsFiniteSet(S), NEW f, \A x \in S : f[x] \in Nat
  PROVE  /\ SumFunctionOnSet(f, S) = SumOver(f, S)[S]
         /\ \A s \in SUBSET S : SumOver(f, S)[s] = SumStep(f, SumOver(f, S), s)
<1>1. IsSum(f, S, SumOver(f, S))
  BY SumExists DEF SumOver
<1>. HIDE DEF SumOver
<1>2. SumFunctionOnSet(f, S) = SumOver(f, S)[S]
  BY SumIs DEF SumOver
<1>. QED  BY <1>1, <1>2 DEF IsSum

LEMMA SumType ==
  ASSUME NEW S, IsFiniteSet(S), NEW f, \A x \in S : f[x] \in Nat
  PROVE  SumFunctionOnSet(f, S) \in Nat
<1>. DEFINE g == SumOver(f, S)  F == {s \in SUBSET S : g[s] \in Nat}
<1>1. \A s \in SUBSET S : g[s] = SumStep(f, g, s)
  BY SumOverIs
<1>. HIDE DEF g
<1>2. ASSUME NEW s \in SUBSET S, \A r \in SUBSET s : r # s => r \in F PROVE s \in F
  <2>1. CASE s = {}
    <3>1. g[s] = 0
      BY <1>1, <2>1 DEF SumStep
    <3>. QED  BY <2>1, <3>1
  <2>2. CASE s # {}
    <3>1. One(s) \in s /\ f[One(s)] \in Nat /\ g[s \ {One(s)}] \in Nat
      BY <1>2, <2>2, OneIn
    <3>. QED  BY <1>1, <2>2, <3>1 DEF SumStep
  <2>. QED  BY <2>1, <2>2
<1>3. S \in F
  <2>. HIDE DEF F
  <2>. QED  BY <1>2, SubsetInduction
<1>. QED  BY <1>3, SumOverIs DEF g

\* A part of a sum is the sum over the part.
LEMMA SumOfPart ==
  ASSUME NEW S, IsFiniteSet(S), NEW f, \A x \in S : f[x] \in Nat, NEW T \in SUBSET S
  PROVE  SumFunctionOnSet(f, T) = SumOver(f, S)[T]
<1>. DEFINE g == SumOver(f, S)  k == SumOver(f, T)  F == {s \in SUBSET T : g[s] = k[s]}
<1>0. IsFiniteSet(T)
  BY FS_Subset
<1>1. \A s \in SUBSET T : g[s] = SumStep(f, g, s) /\ k[s] = SumStep(f, k, s)
  BY <1>0, SumOverIs
<1>2. SumFunctionOnSet(f, T) = k[T]
  BY <1>0, SumOverIs
<1>. HIDE DEF g, k
<1>3. ASSUME NEW s \in SUBSET T, \A r \in SUBSET s : r # s => r \in F PROVE s \in F
  <2>1. CASE s = {}
    BY <1>1, <2>1 DEF SumStep
  <2>2. CASE s # {}
    <3>1. s \ {One(s)} \in F
      BY <1>3, <2>2, OneIn
    <3>. QED  BY <1>1, <2>2, <3>1 DEF SumStep
  <2>. QED  BY <2>1, <2>2
<1>4. T \in F
  <2>. HIDE DEF F
  <2>. QED  BY <1>0, <1>3, SubsetInduction
<1>. QED  BY <1>2, <1>4 DEF g

\* A sum is any of its numbers and the sum of the others.
LEMMA SumSplits ==
  ASSUME NEW S, IsFiniteSet(S), NEW f, \A x \in S : f[x] \in Nat, NEW T \in SUBSET S, NEW y \in T
  PROVE  SumFunctionOnSet(f, T) = f[y] + SumFunctionOnSet(f, T \ {y})
<1>. DEFINE g == SumOver(f, S)
            F == {s \in SUBSET T : g[s] \in Nat /\ \A x \in s : g[s] = f[x] + g[s \ {x}]}
<1>0. IsFiniteSet(T)
  BY FS_Subset
<1>1. \A s \in SUBSET T : g[s] = SumStep(f, g, s)
  BY SumOverIs
<1>2. \A s \in SUBSET T : SumFunctionOnSet(f, s) = g[s]
  BY SumOfPart
<1>. HIDE DEF g
<1>3. ASSUME NEW s \in SUBSET T, \A r \in SUBSET s : r # s => r \in F PROVE s \in F
  <2>1. CASE s = {}
    <3>1. g[s] = 0
      BY <1>1, <2>1 DEF SumStep
    <3>. QED  BY <2>1, <3>1
  <2>2. CASE s # {}
    <3>. DEFINE q == One(s)
    <3>1. q \in s /\ f[q] \in Nat /\ s \ {q} \in F /\ g[s] = f[q] + g[s \ {q}]
      BY <1>1, <1>3, <2>2, OneIn DEF SumStep
    <3>. HIDE DEF q
    <3>2. ASSUME NEW x \in s, x # q PROVE g[s] = f[x] + g[s \ {x}]
      <4>1. s \ {x} \in F /\ q \in s \ {x} /\ x \in s \ {q} /\ f[x] \in Nat
        BY <1>3, <3>1, <3>2
      <4>. DEFINE r == (s \ {x}) \ {q}
      <4>2. r = (s \ {q}) \ {x} /\ r \in F
        <5>1. r \in SUBSET s /\ r # s
          BY <4>1
        <5>. QED  BY <1>3, <5>1
      <4>3. g[s \ {x}] = f[q] + g[r] /\ g[s \ {q}] = f[x] + g[r] /\ g[r] \in Nat
        <5>1. g[s \ {x}] = f[q] + g[(s \ {x}) \ {q}]
          BY <4>1
        <5>2. g[s \ {q}] = f[x] + g[(s \ {q}) \ {x}]
          BY <3>1, <4>1
        <5>3. g[r] \in Nat
          BY <4>2
        <5>. QED  BY <4>2, <5>1, <5>2, <5>3
      <4>. HIDE DEF r
      <4>. QED  BY <3>1, <4>1, <4>3
    <3>3. g[s] \in Nat
      BY <3>1
    <3>4. \A x \in s : g[s] = f[x] + g[s \ {x}]
      BY <3>1, <3>2
    <3>. QED  BY <3>3, <3>4
  <2>. QED  BY <2>1, <2>2
<1>4. T \in F
  <2>. HIDE DEF F
  <2>. QED  BY <1>0, <1>3, SubsetInduction
<1>5. SumFunctionOnSet(f, T) = g[T] /\ SumFunctionOnSet(f, T \ {y}) = g[T \ {y}]
  BY <1>2
<1>. QED  BY <1>4, <1>5

\* More numbers, or greater ones, have no smaller sum.
LEMMA SumGrows ==
  ASSUME NEW S, IsFiniteSet(S), NEW f, \A x \in S : f[x] \in Nat,
         NEW T \in SUBSET S, NEW h, \A x \in T : h[x] \in Nat /\ h[x] <= f[x]
  PROVE  SumFunctionOnSet(h, T) <= SumFunctionOnSet(f, S)
<1>. DEFINE g == SumOver(f, S)  k == SumOver(h, T)
            F == {s \in SUBSET S : g[s] \in Nat /\ k[s \cap T] \in Nat /\ k[s \cap T] <= g[s]}
<1>0. IsFiniteSet(T)
  BY FS_Subset
<1>1. \A s \in SUBSET S : g[s] = SumStep(f, g, s)
  BY SumOverIs
<1>2. SumFunctionOnSet(f, S) = g[S] /\ SumFunctionOnSet(h, T) = k[T]
  BY <1>0, SumOverIs
<1>3. \A s \in SUBSET T : SumFunctionOnSet(h, s) = k[s]
  BY <1>0, SumOfPart
<1>4. \A s \in SUBSET T, x \in T : x \in s => k[s] = h[x] + k[s \ {x}]
  BY <1>0, <1>3, SumSplits
<1>5. k[{}] = 0
  BY <1>0, SumOverIs DEF SumStep
<1>. HIDE DEF g, k
<1>6. ASSUME NEW s \in SUBSET S, \A r \in SUBSET s : r # s => r \in F PROVE s \in F
  <2>1. CASE s = {}
    <3>1. g[s] = 0 /\ s \cap T = {}
      BY <1>1, <2>1 DEF SumStep
    <3>. QED  BY <1>5, <3>1
  <2>2. CASE s # {}
    <3>. DEFINE q == One(s)
    <3>1. q \in s /\ f[q] \in Nat /\ s \ {q} \in F /\ g[s] = f[q] + g[s \ {q}]
      BY <1>1, <1>6, <2>2, OneIn DEF SumStep
    <3>. HIDE DEF q
    <3>. DEFINE rest == s \ {q}  v == g[rest]  w == k[rest \cap T]
    <3>2. v \in Nat /\ w \in Nat /\ w <= v /\ g[s] = f[q] + v
      BY <3>1
    <3>3. CASE q \in T
      <4>1. k[s \cap T] = h[q] + k[(s \cap T) \ {q}] /\ (s \cap T) \ {q} = rest \cap T
        BY <1>4, <3>1, <3>3
      <4>2. h[q] \in Nat /\ h[q] <= f[q]
        BY <3>3
      <4>3. k[s \cap T] = h[q] + w
        BY <4>1
      <4>. HIDE DEF v, w
      <4>4. g[s] \in Nat /\ k[s \cap T] \in Nat /\ k[s \cap T] <= g[s]
        BY <3>1, <3>2, <4>2, <4>3
      <4>. QED  BY <4>4
    <3>4. CASE q \notin T
      <4>1. s \cap T = rest \cap T
        BY <3>4
      <4>2. k[s \cap T] = w
        BY <4>1
      <4>. HIDE DEF v, w
      <4>3. g[s] \in Nat /\ k[s \cap T] \in Nat /\ k[s \cap T] <= g[s]
        BY <3>1, <3>2, <4>2
      <4>. QED  BY <4>3
    <3>. QED  BY <3>3, <3>4
  <2>. QED  BY <2>1, <2>2
<1>7. S \in F /\ S \cap T = T
  <2>. HIDE DEF F
  <2>. QED  BY <1>6, SubsetInduction
<1>. QED  BY <1>2, <1>7

\* A set of natural numbers that is not empty has a least.
LEMMA MinIn == ASSUME NEW S \in SUBSET Nat, S # {} PROVE Min(S) \in S /\ \A y \in S : Min(S) <= y
<1>. DEFINE R == OpToRel(<, Nat)
<1>1. IsWellFoundedOn(R, Nat)
  BY NatLessThanWellFounded
<1>2. \A m, n \in Nat : m < n => <<m, n>> \in R
  BY DEF OpToRel
<1>. HIDE DEF R
<1>3. PICK x \in S : \A y \in S : <<y, x>> \notin R
  BY <1>1, WFMin
<1>4. ASSUME NEW y \in S PROVE x <= y
  <2>1. y \in Nat /\ x \in Nat /\ ~(y < x)
    BY <1>2, <1>3
  <2>. QED  BY <2>1
<1>. QED  BY <1>4 DEF Min

LEMMA MinOfTwo == ASSUME NEW a \in Nat, NEW b \in Nat PROVE Min({a, b}) = IF a <= b THEN a ELSE b
<1>1. Min({a, b}) \in {a, b} /\ \A y \in {a, b} : Min({a, b}) <= y
  BY MinIn
<1>. DEFINE m == Min({a, b})
<1>2. (m = a \/ m = b) /\ m <= a /\ m <= b
  BY <1>1
<1>. HIDE DEF m
<1>. QED  BY <1>2 DEF m

-----------------------------------------------------------------------------
(* The scan of a detector.                                                 *)

Sum(c, S) == SumFunctionOnSet(content[c], S)

\* Of each category what was found is what the patterns evaluated so far have, so never
\* more than all have, and all of that when the category is over and nothing was cut.
ScanTyped ==
  /\ detector \in Detectors
  /\ content \in [Categories -> [Patterns -> Nat]]
  /\ \A c \in Categories : \A p \in Patterns : content[c][p] > 0 => p \in cand[c]
  /\ waiting \subseteq Categories /\ current \in (Categories \cup {None}) \ waiting
  /\ left \subseteq Patterns
  /\ found \in [Categories -> Nat]
  /\ cut \in BOOLEAN

ScanInv ==
  /\ ScanTyped
  /\ \A c \in waiting : found[c] = 0
  /\ current # None => found[current] + Sum(current, left) = Sum(current, Patterns)
  /\ \A c \in Categories : found[c] <= Sum(c, Patterns)
  /\ ~cut => \A c \in Categories : c \in waiting \/ c = current \/ found[c] = Sum(c, Patterns)
  /\ done => current = None /\ (cut \/ waiting = {})

\* The places of a sequence are finitely many.
LEMMA SeqPlaces == ASSUME NEW T, NEW s \in Seq(T) PROVE IsFiniteSet(DOMAIN s) /\ DOMAIN s \subseteq Nat
<1>. DEFINE n == Len(s)
<1>1. DOMAIN s = 1..n /\ n \in Nat
  OBVIOUS
<1>. HIDE DEF n
<1>2. IsFiniteSet(1..n)
  BY <1>1, FS_Interval
<1>3. 1..n \subseteq Nat
  BY <1>1
<1>. QED  BY <1>1, <1>2, <1>3

LEMMA ExaminedIs ==
  ASSUME detector \in Detectors
  PROVE  \E T : Examined[detector] \in Seq(T) /\ None \notin T
<1>1. CASE detector = "semantic"
  <2>1. Examined[detector] \in Seq(STRING \ {None})
    BY <1>1, ExaminedAssumption
  <2>. QED  BY <2>1
<1>2. CASE detector # "semantic"
  <2>1. Examined[detector] \in Seq(DOMAIN Weights[detector]) /\ detector \in DOMAIN Weights
    BY <1>2, ExaminedAssumption
  <2>2. None \notin DOMAIN Weights[detector]
    <3>1. detector \in {"exploitation", "evasion", "network", "ad", "malware"}
      BY <2>1 DEF Weights
    <3>2. /\ None \notin DOMAIN ExploitationWeights /\ None \notin DOMAIN EvasionWeights
          /\ None \notin DOMAIN NetworkWeights /\ None \notin DOMAIN ADWeights
          /\ None \notin DOMAIN MalwareWeights
      BY DEF None, ExploitationWeights, EvasionWeights, NetworkWeights, ADWeights, MalwareWeights
    <3>. QED  BY <3>1, <3>2 DEF Weights
  <2>. QED  BY <2>1, <2>2
<1>. QED  BY <1>1, <1>2

LEMMA CategoriesAre == ASSUME detector \in Detectors PROVE IsFiniteSet(Categories) /\ None \notin Categories
<1>. DEFINE e == Examined[detector]
<1>1. PICK T : e \in Seq(T) /\ None \notin T
  BY ExaminedIs
<1>2. Categories = {e[i] : i \in DOMAIN e}
  BY DEF Categories, ToSet
<1>3. IsFiniteSet(DOMAIN e)
  BY <1>1, SeqPlaces
<1>4. \A i \in DOMAIN e : e[i] \in T
  BY <1>1
<1>5. e = [i \in DOMAIN e |-> e[i]]
  BY <1>1
<1>. HIDE DEF e
<1>6. e \in Surjection(DOMAIN e, Categories)
  BY <1>2, <1>5 DEF Surjection
<1>. QED  BY <1>1, <1>2, <1>3, <1>4, <1>6, FS_Surjection

\* The category that comes next is one of those that wait.
LEMMA NextWaits == ASSUME detector \in Detectors, waiting \subseteq Categories, waiting # {} PROVE Nexts \subseteq waiting
<1>. DEFINE e == Examined[detector]  J == {j \in DOMAIN e : e[j] \in waiting}
<1>1. PICK T : e \in Seq(T)
  BY ExaminedIs
<1>2. J \subseteq Nat
  BY <1>1, SeqPlaces
<1>3. J # {}
  BY DEF Categories, ToSet
<1>4. Min(J) \in J
  <2>. HIDE DEF J
  <2>. QED  BY <1>2, <1>3, MinIn
<1>. QED  BY <1>4 DEF Nexts

\* The sum over a category's patterns, by pattern.
LEMMA SumTyped ==
  ASSUME content \in [Categories -> [Patterns -> Nat]], NEW c \in Categories, NEW S \in SUBSET Patterns
  PROVE  /\ Sum(c, S) \in Nat
         /\ Sum(c, {}) = 0
         /\ \A p \in S : Sum(c, S) = content[c][p] + Sum(c, S \ {p})
         /\ Full[c] = Sum(c, Patterns)
<1>. DEFINE f == content[c]
<1>1. \A p \in Patterns : f[p] \in Nat
  OBVIOUS
<1>2. IsFiniteSet(S) /\ IsFiniteSet(Patterns)
  BY PatternsAssumption, FS_Subset
<1>3. Full[c] = SumFunctionOnSet(f, DOMAIN f) /\ DOMAIN f = Patterns
  BY DEF Full, SumFunction
<1>. HIDE DEF f
<1>4. SumFunctionOnSet(f, S) \in Nat
  BY <1>1, <1>2, SumType
<1>5. SumFunctionOnSet(f, {}) = 0
  <2>1. IsFiniteSet({})
    BY FS_EmptySet
  <2>2. /\ SumFunctionOnSet(f, {}) = SumOver(f, {})[{}]
        /\ \A s \in SUBSET {} : SumOver(f, {})[s] = SumStep(f, SumOver(f, {}), s)
    BY <2>1, SumOverIs
  <2>. QED  BY <2>2 DEF SumStep
<1>6. ASSUME NEW p \in S PROVE SumFunctionOnSet(f, S) = f[p] + SumFunctionOnSet(f, S \ {p})
  BY <1>1, <1>2, <1>6, SumSplits
<1>. QED  BY <1>3, <1>4, <1>5, <1>6 DEF Sum, f

LEMMA ScanInit == Init => ScanInv
<1>. SUFFICES ASSUME Init PROVE ScanInv
  OBVIOUS
<1>1. content \in [Categories -> [Patterns -> Nat]] /\ detector \in Detectors
  BY PatternsAssumption DEF Init
<1>2. None \notin Categories
  BY <1>1, CategoriesAre
<1>3. \A c \in Categories : Sum(c, Patterns) \in Nat
  BY <1>1, SumTyped
<1>4. \A c \in Categories : \A p \in Patterns : content[c][p] > 0 => p \in cand[c]
  BY <1>1 DEF Init
<1>5. /\ waiting = Categories /\ current = None /\ left = {} /\ cut = FALSE /\ done = FALSE
      /\ found = [c \in Categories |-> 0]
  BY DEF Init
<1>6. ScanTyped
  BY <1>1, <1>2, <1>4, <1>5 DEF ScanTyped
<1>. QED  BY <1>3, <1>5, <1>6 DEF ScanInv

LEMMA ScanSame ==
  ASSUME UNCHANGED <<detector, content>>
  PROVE  Categories' = Categories /\ Full' = Full /\ \A c, S : Sum(c, S)' = Sum(c, S)
BY DEF Categories, Full, Sum

LEMMA BeginStep == ASSUME ScanInv, BeginCategory PROVE ScanInv'
<1>1. PICK c \in Nexts : current' = c /\ waiting' = waiting \ {c}
  BY DEF BeginCategory
<1>2. c \in waiting /\ c \in Categories /\ c # None
  BY <1>1, NextWaits, CategoriesAre DEF BeginCategory, ScanInv, ScanTyped
<1>3. /\ left' = Patterns /\ current = None /\ ~done
      /\ UNCHANGED <<detector, content, cand, found, cut, done>>
  BY DEF BeginCategory
<1>4. Categories' = Categories /\ \A x, S : Sum(x, S)' = Sum(x, S)
  BY <1>3, ScanSame
<1>5. ScanTyped'
  BY <1>1, <1>2, <1>3, <1>4 DEF ScanInv, ScanTyped
<1>6. Sum(c, Patterns) \in Nat
  BY <1>2, SumTyped DEF ScanInv, ScanTyped
<1>7. (current # None => found[current] + Sum(current, left) = Sum(current, Patterns))'
  BY <1>1, <1>2, <1>3, <1>4, <1>6 DEF ScanInv
<1>8. (~cut => \A x \in Categories : x \in waiting \/ x = current \/ found[x] = Sum(x, Patterns))'
  BY <1>1, <1>2, <1>3, <1>4, CategoriesAre DEF ScanInv, ScanTyped
<1>. QED  BY <1>1, <1>3, <1>4, <1>5, <1>7, <1>8 DEF ScanInv

LEMMA EvaluateStep == ASSUME ScanInv, EvaluatePattern PROVE ScanInv'
<1>1. PICK p \in left :
        /\ left' = left \ {p}
        /\ found' = IF p \in cand[current] THEN [found EXCEPT ![current] = @ + content[current][p]]
                    ELSE found
  BY DEF EvaluatePattern
<1>2. current # None /\ UNCHANGED <<detector, content, cand, waiting, current, cut, done>>
  BY DEF EvaluatePattern
<1>3. Categories' = Categories /\ \A x, S : Sum(x, S)' = Sum(x, S)
  BY <1>2, ScanSame
<1>. DEFINE k == content[current][p]  rest == Sum(current, left \ {p})
<1>4. current \in Categories /\ current \notin waiting /\ p \in Patterns /\ k \in Nat /\ found[current] \in Nat
  BY <1>1, <1>2 DEF ScanInv, ScanTyped
<1>5. Sum(current, left) = k + rest /\ rest \in Nat
  BY <1>4, SumTyped DEF ScanInv, ScanTyped
<1>6. k > 0 => p \in cand[current]
  BY <1>4 DEF ScanInv, ScanTyped
<1>. HIDE DEF k, rest
<1>7. found' = [found EXCEPT ![current] = @ + k]
  <2>1. CASE p \in cand[current]
    BY <1>1, <2>1 DEF k
  <2>2. CASE p \notin cand[current]
    <3>1. k = 0
      BY <1>4, <1>6, <2>2
    <3>. QED  BY <1>1, <1>4, <2>2, <3>1 DEF ScanInv, ScanTyped
  <2>. QED  BY <2>1, <2>2
<1>8. found' \in [Categories -> Nat] /\ found'[current] = found[current] + k
      /\ \A c \in Categories : c # current => found'[c] = found[c]
  BY <1>4, <1>7 DEF ScanInv, ScanTyped
<1>9. found[current] + Sum(current, left) = Sum(current, Patterns)
  BY <1>2 DEF ScanInv
<1>10. found'[current] + rest = Sum(current, Patterns)
  BY <1>4, <1>5, <1>8, <1>9
<1>11. found'[current] <= Sum(current, Patterns)
  BY <1>4, <1>5, <1>8, <1>10
<1>12. ScanTyped'
  BY <1>1, <1>2, <1>3, <1>8 DEF ScanInv, ScanTyped
<1>13. (\A c \in waiting : found[c] = 0)'
  BY <1>2, <1>4, <1>8 DEF ScanInv, ScanTyped
<1>14. (current # None => found[current] + Sum(current, left) = Sum(current, Patterns))'
  BY <1>1, <1>2, <1>3, <1>10 DEF rest
<1>15. (\A c \in Categories : found[c] <= Sum(c, Patterns))'
  BY <1>2, <1>3, <1>8, <1>11 DEF ScanInv
<1>16. (~cut => \A c \in Categories : c \in waiting \/ c = current \/ found[c] = Sum(c, Patterns))'
  BY <1>2, <1>3, <1>8 DEF ScanInv
<1>17. (done => current = None /\ (cut \/ waiting = {}))'
  BY <1>2 DEF ScanInv
<1>. QED  BY <1>12, <1>13, <1>14, <1>15, <1>16, <1>17 DEF ScanInv

LEMMA EndStep == ASSUME ScanInv, EndCategory PROVE ScanInv'
<1>1. /\ current # None /\ current' = None /\ left' = {} /\ cut' = (cut \/ left # {})
      /\ UNCHANGED <<detector, content, cand, waiting, found, done>>
  BY DEF EndCategory
<1>2. Categories' = Categories /\ \A x, S : Sum(x, S)' = Sum(x, S)
  BY <1>1, ScanSame
<1>3. None \notin Categories /\ current \in Categories
  BY <1>1, CategoriesAre DEF ScanInv, ScanTyped
<1>4. ScanTyped'
  BY <1>1, <1>2, <1>3 DEF ScanInv, ScanTyped
<1>5. left = {} => found[current] = Sum(current, Patterns)
  <2>1. Sum(current, {}) = 0 /\ found[current] \in Nat
    BY <1>3, SumTyped DEF ScanInv, ScanTyped
  <2>. QED  BY <1>1, <2>1 DEF ScanInv
<1>6. (~cut => \A c \in Categories : c \in waiting \/ c = current \/ found[c] = Sum(c, Patterns))'
  BY <1>1, <1>2, <1>5 DEF ScanInv
<1>. QED  BY <1>1, <1>2, <1>4, <1>6 DEF ScanInv

LEMMA FinishStep == ASSUME ScanInv, Finish PROVE ScanInv'
<1>1. /\ ~done /\ done' = TRUE /\ current = None /\ cut' = (cut \/ waiting # {})
      /\ UNCHANGED <<detector, content, cand, waiting, current, left, found>>
  BY DEF Finish
<1>2. Categories' = Categories /\ \A x, S : Sum(x, S)' = Sum(x, S)
  BY <1>1, ScanSame
<1>3. ScanTyped'
  BY <1>1, <1>2 DEF ScanInv, ScanTyped
<1>. QED  BY <1>1, <1>2, <1>3 DEF ScanInv

LEMMA SameStep ==
  ASSUME ScanInv, UNCHANGED <<detector, content, cand, waiting, current, left, found, cut, done>>
  PROVE  ScanInv'
<1>1. Categories' = Categories /\ \A x, S : Sum(x, S)' = Sum(x, S)
  BY ScanSame
<1>2. ScanTyped'
  BY <1>1 DEF ScanInv, ScanTyped
<1>. QED  BY <1>1, <1>2 DEF ScanInv

LEMMA ScanStep == ScanInv /\ [Next]_vars => ScanInv'
<1>. SUFFICES ASSUME ScanInv, [Next]_vars PROVE ScanInv'
  OBVIOUS
<1>1. CASE BeginCategory
  BY <1>1, BeginStep
<1>2. CASE EvaluatePattern
  BY <1>2, EvaluateStep
<1>3. CASE DeadlinePasses
  BY <1>3, SameStep DEF DeadlinePasses
<1>4. CASE EndCategory
  BY <1>4, EndStep
<1>5. CASE Finish
  BY <1>5, FinishStep
<1>6. CASE Rest \/ UNCHANGED vars
  BY <1>6, SameStep DEF Rest, vars
<1>. QED  BY <1>1, <1>2, <1>3, <1>4, <1>5, <1>6 DEF Next

-----------------------------------------------------------------------------
(* The verdict on what was found.                                          *)

\* The score of fewer matches is no greater.
LEMMA PointsGrow ==
  ASSUME NEW D, IsFiniteSet(D), NEW w \in [D -> Nat], NEW m \in [D -> Nat],
         \A c \in D : m[c] <= w[c],
         NEW weights, \A c \in D : weights[c] \in Nat, NEW limit \in Nat
  PROVE  /\ Points(m, weights, limit) \in Nat /\ Points(w, weights, limit) \in Nat
         /\ Points(m, weights, limit) <= Points(w, weights, limit)
<1>. DEFINE h == [c \in Hit(m) |-> weights[c] * Min({m[c], limit})]
            f == [c \in Hit(w) |-> weights[c] * Min({w[c], limit})]
<1>1. Hit(m) \subseteq Hit(w) /\ Hit(w) \subseteq D
  BY DEF Hit
<1>2. IsFiniteSet(Hit(w)) /\ IsFiniteSet(Hit(m))
  BY <1>1, FS_Subset
<1>3. ASSUME NEW c \in D
      PROVE  /\ weights[c] * Min({m[c], limit}) \in Nat /\ weights[c] * Min({w[c], limit}) \in Nat
             /\ weights[c] * Min({m[c], limit}) <= weights[c] * Min({w[c], limit})
  <2>. DEFINE x == Min({m[c], limit})  y == Min({w[c], limit})  a == weights[c]
  <2>1. x \in Nat /\ y \in Nat /\ x <= y
    <3>1. m[c] \in Nat /\ w[c] \in Nat /\ m[c] <= w[c]
      OBVIOUS
    <3>2. x = IF m[c] <= limit THEN m[c] ELSE limit
      BY <3>1, MinOfTwo
    <3>3. y = IF w[c] <= limit THEN w[c] ELSE limit
      BY <3>1, MinOfTwo
    <3>. HIDE DEF x, y
    <3>. QED  BY <3>1, <3>2, <3>3
  <2>2. a \in Nat
    OBVIOUS
  <2>. HIDE DEF x, y, a
  <2>3. a * x \in Nat /\ a * y \in Nat /\ a * x <= a * y
    <3>1. PICK k \in Nat : y = x + k
      <4>1. y - x \in Nat /\ y = x + (y - x)
        BY <2>1
      <4>. QED  BY <4>1
    <3>2. a * y = a * x + a * k /\ a * x \in Nat /\ a * k \in Nat
      BY <2>1, <2>2, <3>1
    <3>. QED  BY <3>2
  <2>. QED  BY <2>3 DEF x, y, a
<1>4. \A c \in Hit(w) : f[c] \in Nat
  BY <1>1, <1>3
<1>5. \A c \in Hit(m) : h[c] \in Nat /\ h[c] <= f[c]
  BY <1>1, <1>3
<1>6. DOMAIN h = Hit(m) /\ DOMAIN f = Hit(w)
  OBVIOUS
<1>7. Points(m, weights, limit) = SumFunctionOnSet(h, Hit(m)) /\ Points(w, weights, limit) = SumFunctionOnSet(f, Hit(w))
  BY <1>6 DEF Points, SumFunction
<1>. HIDE DEF h, f
<1>8. SumFunctionOnSet(h, Hit(m)) \in Nat /\ SumFunctionOnSet(f, Hit(w)) \in Nat
  BY <1>2, <1>4, <1>5, SumType
<1>9. SumFunctionOnSet(h, Hit(m)) <= SumFunctionOnSet(f, Hit(w))
  BY <1>1, <1>2, <1>4, <1>5, SumGrows
<1>. QED  BY <1>7, <1>8, <1>9

\* The gravest of more severities is no lighter.
LEMMA GravestGrows ==
  ASSUME NEW A \in SUBSET (0..3), NEW B \in SUBSET (0..3), A # {}, A \subseteq B
  PROVE  Max(A) \in 0..3 /\ Max(B) \in 0..3 /\ Max(A) <= Max(B)
<1>1. ASSUME NEW S \in SUBSET (0..3), S # {} PROVE Max(S) \in S /\ \A y \in S : Max(S) >= y
  <2>1. \A y \in S : y \in {0, 1, 2, 3}
    BY <1>1
  <2>2. \E x \in S : \A y \in S : x >= y
    <3>1. CASE 3 \in S
      BY <2>1, <3>1
    <3>2. CASE 3 \notin S /\ 2 \in S
      BY <2>1, <3>2
    <3>3. CASE 3 \notin S /\ 2 \notin S /\ 1 \in S
      BY <2>1, <3>3
    <3>4. CASE 3 \notin S /\ 2 \notin S /\ 1 \notin S
      <4>1. 0 \in S /\ \A y \in S : y = 0
        BY <1>1, <2>1, <3>4
      <4>2. \A y \in S : 0 >= y
        BY <4>1
      <4>. QED  BY <4>1, <4>2
    <3>. QED  BY <3>1, <3>2, <3>3, <3>4
  <2>. QED  BY <2>2 DEF Max
<1>2. Max(A) \in A /\ Max(B) \in B /\ \A y \in B : Max(B) >= y
  BY <1>1
<1>. QED  BY <1>2

LEMMA WeightsAreNumbers ==
  ASSUME NEW x \in DOMAIN Weights, NEW c \in DOMAIN Weights[x]
  PROVE  Weights[x][c] \in Nat
<1>1. x \in {"exploitation", "evasion", "network", "ad", "malware"}
  BY DEF Weights
<1>2. \A k \in DOMAIN ExploitationWeights : ExploitationWeights[k] \in Nat
  BY DEF ExploitationWeights
<1>3. \A k \in DOMAIN EvasionWeights : EvasionWeights[k] \in Nat
  BY DEF EvasionWeights
<1>4. \A k \in DOMAIN NetworkWeights : NetworkWeights[k] \in Nat
  BY DEF NetworkWeights
<1>5. \A k \in DOMAIN ADWeights : ADWeights[k] \in Nat
  BY DEF ADWeights
<1>6. \A k \in DOMAIN MalwareWeights : MalwareWeights[k] \in Nat
  BY DEF MalwareWeights
<1>. QED  BY <1>1, <1>2, <1>3, <1>4, <1>5, <1>6 DEF Weights

LEMMA CategoriesWeighted ==
  ASSUME detector \in Detectors, detector # "semantic"
  PROVE  /\ detector \in DOMAIN Weights /\ Categories \subseteq DOMAIN Weights[detector]
         /\ \A c \in Categories : Weights[detector][c] \in Nat
<1>. DEFINE e == Examined[detector]
<1>1. e \in Seq(DOMAIN Weights[detector]) /\ detector \in DOMAIN Weights
  BY ExaminedAssumption
<1>2. \A i \in DOMAIN e : e[i] \in DOMAIN Weights[detector]
  BY <1>1
<1>3. Categories = {e[i] : i \in DOMAIN e}
  BY DEF Categories, ToSet
<1>. HIDE DEF e
<1>4. Categories \subseteq DOMAIN Weights[detector]
  BY <1>2, <1>3
<1>. QED  BY <1>1, <1>4, WeightsAreNumbers

LEMMA DetectorIs ==
  ASSUME detector \in Detectors
  PROVE  detector \in {"exploitation", "evasion", "network", "ad", "malware", "semantic"}
BY ExaminedAssumption DEF Weights

\* A result with less in it refuses no more.
LEMMA MilderRefusesLess ==
  ASSUME detector \in Detectors, detector # "malware", NEW a, NEW b, a.score \in Nat, b.score \in Nat,
         a.score <= b.score, a.detected => b.detected,
         a.severity \in Nat, b.severity \in Nat, detector = "ad" => a.severity <= b.severity, Refused(a)
  PROVE  Refused(b)
<1>1. Min({a.score, 100}) = IF a.score <= 100 THEN a.score ELSE 100
  BY MinOfTwo
<1>2. Min({b.score, 100}) = IF b.score <= 100 THEN b.score ELSE 100
  BY MinOfTwo
<1>. DEFINE x == Min({a.score, 100})  y == Min({b.score, 100})
<1>3. x \in Nat /\ y \in Nat /\ x <= y
  <2>. HIDE DEF x, y
  <2>. QED  BY <1>1, <1>2 DEF x, y
<1>4. CASE detector # "network" /\ x >= blockThreshold[detector]
  <2>1. blockThreshold[detector] \in Nat
    BY <1>4, DetectorIs DEF blockThreshold
  <2>2. y >= blockThreshold[detector]
    <3>. DEFINE t == blockThreshold[detector]
    <3>1. t \in Nat /\ x >= t
      BY <1>4, <2>1
    <3>. HIDE DEF t, x, y
    <3>2. y >= t
      BY <1>3, <3>1
    <3>. QED  BY <3>2 DEF t
  <2>. QED  BY <1>4, <2>2 DEF Refused
<1>5. CASE detector \in {"ad", "malware"} /\ a.severity >= 2
  BY <1>5 DEF Refused
<1>. QED  BY <1>4, <1>5 DEF Refused

\* What fewer matches give is no worse.
LEMMA FewerIsMilder ==
  ASSUME detector \in Detectors, NEW w \in [Categories -> Nat], NEW m \in [Categories -> Nat],
         \A c \in Categories : m[c] <= w[c]
  PROVE  LET some == Analyze(m)  whole == Analyze(w)
         IN  /\ some.score <= whole.score
             /\ some.detected => whole.detected
             /\ detector # "malware" /\ Refused(some) => Refused(whole)
<1>. DEFINE some == Analyze(m)  whole == Analyze(w)
<1>1. IsFiniteSet(Categories) /\ Hit(m) \subseteq Hit(w) /\ Hit(w) \subseteq Categories
  BY CategoriesAre DEF Hit
<1>2. ASSUME detector # "semantic", NEW limit \in Nat
      PROVE  LET weights == Weights[detector]
             IN  /\ Points(m, weights, limit) \in Nat /\ Points(w, weights, limit) \in Nat
                 /\ Points(m, weights, limit) <= Points(w, weights, limit)
  BY <1>1, <1>2, CategoriesWeighted, PointsGrow
<1>3. detector = "exploitation" => Weights[detector] = ExploitationWeights
  BY DEF Weights
<1>4. detector = "evasion" => Weights[detector] = EvasionWeights
  BY DEF Weights
<1>5. detector = "network" => Weights[detector] = NetworkWeights
  BY DEF Weights
<1>6. detector = "ad" => Weights[detector] = ADWeights
  BY DEF Weights
<1>7. detector = "malware" => Weights[detector] = MalwareWeights
  BY DEF Weights
<1>8. CASE detector = "exploitation"
  <2>1. some = Exploitation(m) /\ whole = Exploitation(w)
    BY <1>8 DEF Analyze
  <2>. DEFINE s == Points(m, ExploitationWeights, 3)  t == Points(w, ExploitationWeights, 3)
  <2>2. s \in Nat /\ t \in Nat /\ s <= t
    BY <1>2, <1>3, <1>8
  <2>. HIDE DEF s, t, some, whole
  <2>3. /\ some.score = s /\ some.severity = 0 /\ some.detected = (Hit(m) # {})
        /\ whole.score = t /\ whole.severity = 0 /\ whole.detected = (Hit(w) # {})
    BY <2>1 DEF Exploitation, Result, s, t
  <2>4. some.score <= whole.score /\ (some.detected => whole.detected)
    BY <1>1, <2>2, <2>3
  <2>5. Refused(some) => Refused(whole)
    BY <1>8, <2>2, <2>3, <2>4, MilderRefusesLess
  <2>. QED  BY <2>4, <2>5 DEF some, whole
<1>9. CASE detector = "evasion"
  <2>1. some = Evasion(m) /\ whole = Evasion(w)
    BY <1>9 DEF Analyze
  <2>. DEFINE s == Points(m, EvasionWeights, 2)  t == Points(w, EvasionWeights, 2)
  <2>2. s \in Nat /\ t \in Nat /\ s <= t
    BY <1>2, <1>4, <1>9
  <2>. HIDE DEF s, t, some, whole
  <2>3. /\ some.score = s /\ some.severity = 0 /\ some.detected = (Hit(m) # {})
        /\ whole.score = t /\ whole.severity = 0 /\ whole.detected = (Hit(w) # {})
    BY <2>1 DEF Evasion, Result, s, t
  <2>4. some.score <= whole.score /\ (some.detected => whole.detected)
    BY <1>1, <2>2, <2>3
  <2>5. Refused(some) => Refused(whole)
    BY <1>9, <2>2, <2>3, <2>4, MilderRefusesLess
  <2>. QED  BY <2>4, <2>5 DEF some, whole
<1>10. CASE detector = "network"
  <2>1. some = NetworkAttack(m) /\ whole = NetworkAttack(w)
    BY <1>10 DEF Analyze
  <2>. DEFINE s == Points(m, NetworkWeights, 2)  t == Points(w, NetworkWeights, 2)
  <2>2. s \in Nat /\ t \in Nat /\ s <= t
    BY <1>2, <1>5, <1>10
  <2>. HIDE DEF s, t, some, whole
  <2>3. /\ some.score = s /\ some.severity = 0 /\ some.detected = (Hit(m) # {})
        /\ whole.score = t /\ whole.severity = 0 /\ whole.detected = (Hit(w) # {})
    BY <2>1 DEF NetworkAttack, Result, s, t
  <2>4. some.score <= whole.score /\ (some.detected => whole.detected)
    BY <1>1, <2>2, <2>3
  <2>5. Refused(some) => Refused(whole)
    BY <1>10, <2>2, <2>3, <2>4, MilderRefusesLess
  <2>. QED  BY <2>4, <2>5 DEF some, whole
<1>11. CASE detector = "ad"
  <2>1. some = ADAttack(m) /\ whole = ADAttack(w)
    BY <1>11 DEF Analyze
  <2>. DEFINE s == Points(m, ADWeights, 2)  t == Points(w, ADWeights, 2)
              A == {0} \cup {ADSeverity[c] : c \in Hit(m)}  B == {0} \cup {ADSeverity[c] : c \in Hit(w)}
  <2>2. s \in Nat /\ t \in Nat /\ s <= t
    BY <1>2, <1>6, <1>11
  <2>3. Max(A) \in 0..3 /\ Max(B) \in 0..3 /\ Max(A) <= Max(B)
    <3>1. \A c \in DOMAIN ADWeights : ADSeverity[c] \in 0..3
      BY DEF ADWeights, ADSeverity
    <3>2. Categories \subseteq DOMAIN ADWeights
      BY <1>6, <1>11, CategoriesWeighted
    <3>3. A \subseteq 0..3 /\ B \subseteq 0..3 /\ A # {} /\ A \subseteq B
      BY <1>1, <3>1, <3>2
    <3>. HIDE DEF A, B
    <3>. QED  BY <3>3, GravestGrows
  <2>. HIDE DEF s, t, some, whole
  <2>4. /\ some.score = s /\ some.severity = Max(A) /\ some.detected = (Hit(m) # {})
        /\ whole.score = t /\ whole.severity = Max(B) /\ whole.detected = (Hit(w) # {})
    BY <2>1 DEF ADAttack, Result, s, t
  <2>. HIDE DEF A, B
  <2>5. some.score <= whole.score /\ (some.detected => whole.detected)
    BY <1>1, <2>2, <2>4
  <2>6. some.severity \in Nat /\ whole.severity \in Nat /\ some.severity <= whole.severity
    BY <2>3, <2>4
  <2>7. Refused(some) => Refused(whole)
    BY <1>11, <2>2, <2>4, <2>5, <2>6, MilderRefusesLess
  <2>. QED  BY <2>5, <2>7 DEF some, whole
<1>12. CASE detector = "malware"
  <2>1. some = MalwareBehavior(m) /\ whole = MalwareBehavior(w)
    BY <1>12 DEF Analyze
  <2>. DEFINE s == Points(m, MalwareWeights, 3)  t == Points(w, MalwareWeights, 3)
  <2>2. s \in Nat /\ t \in Nat /\ s <= t
    BY <1>2, <1>7, <1>12
  <2>. HIDE DEF s, t, some, whole
  <2>3. /\ some.score = s /\ some.detected = (s >= 50)
        /\ whole.score = t /\ whole.detected = (t >= 50)
    BY <2>1 DEF MalwareBehavior, Result, s, t
  <2>4. some.score <= whole.score
    BY <2>2, <2>3
  <2>5. s >= 50 => t >= 50
    BY <2>2
  <2>. QED  BY <1>12, <2>3, <2>4, <2>5 DEF some, whole
<1>13. CASE detector = "semantic"
  <2>1. some = Semantic(m) /\ whole = Semantic(w)
    BY <1>13 DEF Analyze
  <2>. DEFINE j == Cardinality(Hit(m))  k == Cardinality(Hit(w))
  <2>2. j \in Nat /\ k \in Nat /\ j <= k
    <3>1. IsFiniteSet(Hit(w)) /\ IsFiniteSet(Hit(m))
      BY <1>1, FS_Subset
    <3>. QED  BY <1>1, <3>1, FS_Subset, FS_CardinalityType
  <2>. HIDE DEF j, k, some, whole
  <2>3. /\ some.score = 30 * j /\ some.severity = severityFromScore(30 * j)
        /\ whole.score = 30 * k /\ whole.severity = severityFromScore(30 * k)
    BY <2>1 DEF Semantic, Result, j, k
  <2>4. some.detected = (Hit(m) # {}) /\ whole.detected = (Hit(w) # {})
    BY <2>1 DEF Semantic, Result
  <2>5. some.score \in Nat /\ whole.score \in Nat /\ some.score <= whole.score
    BY <2>2, <2>3
  <2>6. some.severity \in Nat /\ whole.severity \in Nat
    BY <2>3 DEF severityFromScore
  <2>7. some.detected => whole.detected
    BY <1>1, <2>4
  <2>8. Refused(some) => Refused(whole)
    BY <1>13, <2>5, <2>6, <2>7, MilderRefusesLess
  <2>. QED  BY <2>5, <2>7, <2>8 DEF some, whole
<1>. QED  BY <1>8, <1>9, <1>10, <1>11, <1>12, <1>13, DetectorIs

LEMMA ScanMisses == ScanInv => ScansOnlyMiss
<1>. SUFFICES ASSUME ScanInv, done
              PROVE  LET some == Analyze(found)  whole == Analyze(Full)
                     IN /\ ~cut => some = whole
                        /\ some.score <= whole.score
                        /\ some.detected => whole.detected
                        /\ detector # "malware" /\ Refused(some) => Refused(whole)
  BY DEF ScansOnlyMiss
<1>1. \A c \in Categories : Full[c] = Sum(c, Patterns) /\ Sum(c, Patterns) \in Nat
  BY SumTyped DEF ScanInv, ScanTyped
<1>2. Full = [c \in Categories |-> Full[c]]
  BY DEF Full
<1>3. Full \in [Categories -> Nat]
  BY <1>1, <1>2
<1>4. \A c \in Categories : found[c] <= Full[c]
  BY <1>1 DEF ScanInv
<1>5. detector \in Detectors /\ found \in [Categories -> Nat] /\ None \notin Categories
  BY CategoriesAre DEF ScanInv, ScanTyped
<1>6. ~cut => found = Full
  <2>1. ~cut => \A c \in Categories : found[c] = Full[c]
    BY <1>1, <1>5 DEF ScanInv
  <2>. QED  BY <1>3, <1>5, <2>1
<1>. HIDE DEF Full
<1>. QED  BY <1>3, <1>4, <1>5, <1>6, FewerIsMilder

\* Whatever the categories, the patterns and the content: a scan that had the time it
\* needed gives the verdict of evaluating every pattern, and one that was cut short only
\* misses (internal/detect, internal/malware).
THEOREM ScansOnlyEverMiss == Spec => []ScansOnlyMiss
<1>. QED  BY ScanInit, ScanStep, ScanMisses, PTL DEF Spec

-----------------------------------------------------------------------------
(* The STIX engine.                                                        *)

\* What is stored at the limit, and below it.
LEMMA StixWith ==
  ASSUME NEW id \in Ids, NEW i \in Stix!Indicator, MaxIndicators \in Nat \ {0}, DOMAIN indicators \subseteq Ids,
         \A d \in DOMAIN indicators : indicators[d] \in Stix!Indicator,
         IsFiniteSet(DOMAIN indicators), Cardinality(DOMAIN indicators) <= MaxIndicators
  PROVE  LET w == Stix!With(id, i)
         IN  /\ DOMAIN indicators \subseteq DOMAIN w /\ DOMAIN w \subseteq Ids
             /\ \A d \in DOMAIN w : w[d] \in Stix!Indicator
             /\ IsFiniteSet(DOMAIN w) /\ Cardinality(DOMAIN w) <= MaxIndicators
<1>. DEFINE D == DOMAIN indicators  n == Cardinality(D)
            w == Stix!With(id, i)
            more == [d \in D \cup {id} |-> IF d = id THEN i ELSE indicators[d]]
<1>1. n \in Nat /\ n <= MaxIndicators
  BY FS_CardinalityType
<1>2. w = IF n >= MaxIndicators THEN indicators ELSE more
  BY DEF Stix!With, Stix!Cardinality, Cardinality, Stix!IsFiniteSet, IsFiniteSet
<1>3. CASE n >= MaxIndicators
  BY <1>2, <1>3
<1>4. CASE ~(n >= MaxIndicators)
  <2>1. IsFiniteSet(D \cup {id}) /\ Cardinality(D \cup {id}) \in Nat /\ Cardinality(D \cup {id}) <= n + 1
    <3>1. IsFiniteSet(D)
      OBVIOUS
    <3>2. /\ IsFiniteSet(D \cup {id})
          /\ Cardinality(D \cup {id}) = IF id \in D THEN Cardinality(D) ELSE Cardinality(D) + 1
      BY <3>1, FS_AddElement
    <3>3. n = Cardinality(D)
      OBVIOUS
    <3>. HIDE DEF D, n
    <3>. QED  BY <1>1, <3>2, <3>3
  <2>2. w = more /\ DOMAIN w = D \cup {id}
    BY <1>2, <1>4
  <2>3. \A d \in DOMAIN w : w[d] \in Stix!Indicator
    BY <2>2
  <2>4. n + 1 <= MaxIndicators
    BY <1>1, <1>4
  <2>5. Cardinality(DOMAIN w) <= MaxIndicators
    <3>. HIDE DEF n, w
    <3>. QED  BY <1>1, <2>1, <2>2, <2>4
  <2>. QED  BY <2>1, <2>2, <2>3, <2>4, <2>5
<1>. QED  BY <1>3, <1>4

\* The limit is never exceeded; what a request matched is finite, and there is an object to store.
CallFits(k) ==
  /\ k.pc = "return" => IsFiniteSet(k.matches)
  /\ k.pc = "store" => k.objects # <<>>

StixInv ==
  /\ Stix!TypeOK
  /\ IsFiniteSet(DOMAIN indicators)
  /\ \A c \in Callers : CallFits(call[c])

LEMMA StixInit == ASSUME Stix!StixAssumption PROVE Stix!Init => StixInv
<1>. SUFFICES ASSUME Stix!Init PROVE StixInv
  OBVIOUS
<1>1. DOMAIN indicators = {} /\ IsFiniteSet({}) /\ Cardinality({}) = 0
  BY FS_EmptySet DEF Stix!Init
<1>2. MaxIndicators \in Nat \ {0} /\ MaxTime \in Nat
  BY DEF Stix!StixAssumption
<1>3. now \in 0..MaxTime /\ stats \in [bundles : Nat, loaded : Nat, hits : Nat] /\ readers \subseteq Callers
  BY <1>2 DEF Stix!Init
<1>4. call \in [Callers -> Stix!CallState] /\ \A c \in Callers : call[c].pc = "idle"
  BY DEF Stix!Init, Stix!CallState, Stix!Idle
<1>5. Stix!Cardinality(DOMAIN indicators) <= MaxIndicators
  BY <1>1, <1>2 DEF Stix!Cardinality, Cardinality
<1>6. brought \in Seq(Stix!Dated) /\ alone \in BOOLEAN
  BY DEF Stix!Init
<1>. QED  BY <1>1, <1>3, <1>4, <1>5, <1>6 DEF StixInv, Stix!TypeOK, CallFits

\* A step keeps the invariant, whatever the others do meanwhile.
LEMMA StixStep ==
  ASSUME Stix!StixAssumption, StixInv, [Stix!Next]_(Stix!vars)
  PROVE  StixInv'
<1>1. /\ now \in 0..MaxTime /\ DOMAIN indicators \subseteq Ids
      /\ \A id \in DOMAIN indicators : indicators[id] \in Stix!Indicator
      /\ Cardinality(DOMAIN indicators) <= MaxIndicators
      /\ stats \in [bundles : Nat, loaded : Nat, hits : Nat]
      /\ readers \subseteq Callers /\ call \in [Callers -> Stix!CallState]
      /\ brought \in Seq(Stix!Dated) /\ alone \in BOOLEAN
  BY DEF StixInv, Stix!TypeOK, Stix!Cardinality, Cardinality
<1>2. MaxIndicators \in Nat \ {0} /\ IOCTTL \in Nat /\ MaxTime \in Nat
  BY DEF Stix!StixAssumption
<1>3. ASSUME NEW c \in Callers, NEW k \in Stix!CallState, call' = [call EXCEPT ![c] = k], CallFits(k)
      PROVE  call' \in [Callers -> Stix!CallState] /\ \A x \in Callers : CallFits(call'[x])
  <2>1. call' \in [Callers -> Stix!CallState]
    BY <1>1, <1>3
  <2>2. \A x \in Callers : call'[x] = IF x = c THEN k ELSE call[x]
    BY <1>1, <1>3
  <2>. QED  BY <1>3, <2>1, <2>2 DEF StixInv
<1>4. ASSUME UNCHANGED indicators, now' \in 0..MaxTime, stats' \in [bundles : Nat, loaded : Nat, hits : Nat],
             readers' \subseteq Callers, call' \in [Callers -> Stix!CallState],
             \A x \in Callers : CallFits(call'[x]), UNCHANGED brought, alone' \in BOOLEAN
      PROVE  StixInv'
  <2>1. Stix!TypeOK'
    BY <1>1, <1>4 DEF Stix!TypeOK, StixInv
  <2>. QED  BY <1>4, <2>1 DEF StixInv
<1>5. ASSUME NEW c \in Callers, NEW bundle \in Stix!Bundle, Stix!ParseBundle(c, bundle) PROVE StixInv'
  <2>. DEFINE k == [pc |-> "add", objects |-> bundle]
  <2>1. bundle \in Seq(Stix!Object)
    BY <1>5 DEF Stix!Bundle
  <2>2. /\ stats' = [stats EXCEPT !.bundles = @ + 1] /\ UNCHANGED <<now, indicators, readers, brought>>
        /\ call' = [call EXCEPT ![c] = k] /\ alone' \in BOOLEAN
    BY <1>1, <1>5 DEF Stix!ParseBundle
  <2>3. k \in Stix!CallState /\ CallFits(k)
    BY <2>1 DEF Stix!CallState, CallFits
  <2>4. stats' \in [bundles : Nat, loaded : Nat, hits : Nat]
    BY <1>1, <2>2
  <2>. HIDE DEF k
  <2>. QED  BY <1>1, <1>3, <1>4, <2>2, <2>3, <2>4
<1>6. ASSUME NEW c \in Callers, Stix!Date(c) PROVE StixInv'
  <2>. DEFINE k == [pc |-> "store", objects |-> call[c].objects, until |-> now + IOCTTL]
  <2>1. /\ call[c].pc = "add" /\ call[c].objects # <<>> /\ UNCHANGED <<now, indicators, stats, readers, brought, alone>>
        /\ call' = [call EXCEPT ![c] = k]
    BY <1>6 DEF Stix!Date
  <2>2. call[c].objects \in Seq(Stix!Object)
    BY <1>1, <2>1 DEF Stix!CallState
  <2>3. now + IOCTTL \in Nat
    BY <1>1, <1>2
  <2>4. k \in Stix!CallState /\ CallFits(k)
    BY <2>1, <2>2, <2>3 DEF Stix!CallState, CallFits
  <2>. HIDE DEF k
  <2>. QED  BY <1>1, <1>3, <1>4, <2>1, <2>4
<1>7. ASSUME NEW c \in Callers, Stix!Store(c) PROVE StixInv'
  <2>. DEFINE q == call[c].objects  o == Head(q)  i == [pattern |-> o.pattern, until |-> call[c].until]
              k == [pc |-> "add", objects |-> Tail(q)]
              w == Stix!With(o.id, i)
  <2>1. /\ call[c].pc = "store" /\ UNCHANGED <<now, readers, alone>> /\ indicators' = w
        /\ brought' = Append(brought, [id |-> o.id, pattern |-> o.pattern, until |-> call[c].until])
        /\ stats' = [stats EXCEPT !.loaded = IF Stix!Cardinality(DOMAIN indicators) < MaxIndicators THEN @ + 1 ELSE @]
        /\ call' = [call EXCEPT ![c] = k]
    BY <1>7 DEF Stix!Store
  <2>2. q \in Seq(Stix!Object) /\ call[c].until \in Nat
    BY <1>1, <2>1 DEF Stix!CallState
  <2>3. q # <<>>
    BY <2>1 DEF StixInv, CallFits
  <2>4. o \in Stix!Object /\ Tail(q) \in Seq(Stix!Object)
    <3>. HIDE DEF q
    <3>. QED  BY <2>2, <2>3
  <2>5. o.id \in Ids /\ i \in Stix!Indicator
    <3>. HIDE DEF o
    <3>. QED  BY <2>2, <2>4 DEF Stix!Object, Stix!Indicator
  <2>11. o.pattern \in StixPatterns \cup {NoPattern}
    <3>. HIDE DEF o
    <3>. QED  BY <2>4 DEF Stix!Object
  <2>6. k \in Stix!CallState /\ CallFits(k)
    <3>. HIDE DEF q
    <3>. QED  BY <2>4 DEF Stix!CallState, CallFits
  <2>7. stats' \in [bundles : Nat, loaded : Nat, hits : Nat]
    BY <1>1, <2>1
  <2>. HIDE DEF k, i, o
  <2>8. /\ DOMAIN indicators \subseteq DOMAIN w /\ DOMAIN w \subseteq Ids
        /\ \A d \in DOMAIN w : w[d] \in Stix!Indicator
        /\ IsFiniteSet(DOMAIN w) /\ Cardinality(DOMAIN w) <= MaxIndicators
    BY <1>1, <1>2, <2>5, StixWith DEF StixInv
  <2>. HIDE DEF w
  <2>9. call' \in [Callers -> Stix!CallState] /\ \A x \in Callers : CallFits(call'[x])
    BY <1>3, <2>1, <2>6
  <2>10. brought' \in Seq(Stix!Dated)
    <3>1. [id |-> o.id, pattern |-> o.pattern, until |-> call[c].until] \in Stix!Dated
      BY <2>2, <2>5, <2>11 DEF Stix!Dated
    <3>. QED  BY <1>1, <2>1, <3>1
  <2>12. Stix!TypeOK'
    BY <1>1, <2>1, <2>7, <2>8, <2>9, <2>10 DEF Stix!TypeOK, Stix!Cardinality, Cardinality
  <2>. QED  BY <2>1, <2>8, <2>9, <2>12 DEF StixInv
<1>8. ASSUME NEW c \in Callers, Stix!EndImport(c) PROVE StixInv'
  <2>1. UNCHANGED <<now, indicators, stats, readers, brought, alone>> /\ call' = [call EXCEPT ![c] = Stix!Idle]
    BY <1>8 DEF Stix!EndImport
  <2>2. Stix!Idle \in Stix!CallState /\ CallFits(Stix!Idle)
    BY DEF Stix!CallState, Stix!Idle, CallFits
  <2>. QED  BY <1>1, <1>3, <1>4, <2>1, <2>2
<1>9. ASSUME NEW c \in Callers, NEW asked \in Stix!Contents, Stix!Match(c, asked) PROVE StixInv'
  <2>. DEFINE k == [pc |-> "scan", content |-> asked]
  <2>1. /\ UNCHANGED <<now, indicators, stats, brought, alone>> /\ readers' = readers \cup {c}
        /\ call' = [call EXCEPT ![c] = k]
    BY <1>9 DEF Stix!Match
  <2>2. k \in Stix!CallState /\ CallFits(k)
    BY DEF Stix!CallState, CallFits
  <2>. HIDE DEF k
  <2>. QED  BY <1>1, <1>3, <1>4, <2>1, <2>2
<1>10. ASSUME NEW c \in Callers, Stix!Scan(c) PROVE StixInv'
  <2>. DEFINE m == Stix!Matching(call[c].content)  k == [pc |-> "return", matches |-> m]
  <2>1. UNCHANGED <<now, indicators, stats, readers, brought, alone>> /\ call' = [call EXCEPT ![c] = k]
    BY <1>10 DEF Stix!Scan
  <2>2. m \subseteq DOMAIN indicators
    BY DEF Stix!Matching
  <2>3. IsFiniteSet(m)
    BY <2>2, FS_Subset DEF StixInv
  <2>. HIDE DEF m
  <2>4. k \in Stix!CallState /\ CallFits(k)
    BY <1>1, <2>2, <2>3 DEF Stix!CallState, CallFits
  <2>. HIDE DEF k
  <2>. QED  BY <1>1, <1>3, <1>4, <2>1, <2>4
<1>11. ASSUME NEW c \in Callers, Stix!Return(c) PROVE StixInv'
  <2>1. /\ call[c].pc = "return" /\ UNCHANGED <<now, indicators, brought, alone>> /\ readers' = readers \ {c}
        /\ stats' = [stats EXCEPT !.hits = @ + Stix!Cardinality(call[c].matches)]
        /\ call' = [call EXCEPT ![c] = Stix!Idle]
    BY <1>11 DEF Stix!Return
  <2>2. Stix!Idle \in Stix!CallState /\ CallFits(Stix!Idle)
    BY DEF Stix!CallState, Stix!Idle, CallFits
  <2>3. Cardinality(call[c].matches) \in Nat
    BY <2>1, FS_CardinalityType DEF StixInv, CallFits
  <2>4. Stix!Cardinality(call[c].matches) = Cardinality(call[c].matches)
    BY DEF Stix!Cardinality, Cardinality
  <2>5. stats' \in [bundles : Nat, loaded : Nat, hits : Nat]
    BY <1>1, <2>1, <2>3, <2>4
  <2>. QED  BY <1>1, <1>3, <1>4, <2>1, <2>2, <2>5
<1>12. ASSUME Stix!Tick PROVE StixInv'
  <2>1. now' \in 0..MaxTime /\ UNCHANGED <<indicators, stats, readers, call, brought, alone>>
    BY <1>1, <1>2, <1>12 DEF Stix!Tick
  <2>. QED  BY <1>1, <1>4, <2>1 DEF StixInv
<1>13. ASSUME UNCHANGED Stix!vars PROVE StixInv'
  BY <1>1, <1>4, <1>13 DEF Stix!vars, StixInv
<1>. QED  BY <1>5, <1>6, <1>7, <1>8, <1>9, <1>10, <1>11, <1>12, <1>13 DEF Stix!Next

\* However the imports interleave and whatever is matched meanwhile, the engine keeps to its
\* limit and every count is one (NewSTIXEngine, addIndicatorFromMap, MatchIndicators).
THEOREM StixTypeCorrect == Stix!Spec => []Stix!TypeOK
<1>1. Stix!Init => StixInv
  BY ImportAssumption, StixInit
<1>2. StixInv /\ [Stix!Next]_(Stix!vars) => StixInv'
  BY ImportAssumption, StixStep
<1>3. StixInv => Stix!TypeOK
  BY DEF StixInv
<1>. QED  BY <1>1, <1>2, <1>3, PTL DEF Stix!Spec

\* What came by before the i-th object; what the engine holds of that object, and of what
\* it was brought.
Came(b, i) == {b[j].id : j \in 1..(i - 1)}
TurnedAway(b, i) == Stix!Cardinality(Came(b, i)) >= MaxIndicators
Held(ind, al, o) == o.id \in DOMAIN ind /\ (al => ind[o.id].until >= o.until)
BroughtOf(b, id, held) ==
  \E i \in DOMAIN b : b[i].id = id /\ held = [pattern |-> b[i].pattern, until |-> b[i].until]

Here(b, ind, al) == \A i \in DOMAIN b : TurnedAway(b, i) \/ Held(ind, al, b[i])
Whole(b, ind) == \A id \in DOMAIN ind : BroughtOf(b, id, ind[id])

LEMMA IndicatorsArriveIs == IndicatorsArrive <=> Here(brought, indicators, alone) /\ Whole(brought, indicators)
BY DEF IndicatorsArrive, Stix!IndicatorsArrive, Here, Whole, TurnedAway, Came, Held, BroughtOf

\* What one more object, in the engine or refused, leaves true.
LEMMA OneMore ==
  ASSUME NEW b \in Seq(Stix!Dated), NEW o \in Stix!Dated, NEW ind, NEW ind2, NEW al \in BOOLEAN,
         MaxIndicators \in Nat,
         \A id \in DOMAIN ind : ind[id] \in Stix!Indicator,
         al => \A i \in DOMAIN b : o.until >= b[i].until,
         Here(b, ind, al), Whole(b, ind),
         \/ Stix!Cardinality(DOMAIN ind) >= MaxIndicators /\ ind2 = ind
         \/ ind2 = [d \in DOMAIN ind \cup {o.id} |->
                      IF d = o.id THEN [pattern |-> o.pattern, until |-> o.until] ELSE ind[d]]
  PROVE  Here(Append(b, o), ind2, al) /\ Whole(Append(b, o), ind2)
<1>. DEFINE n == Len(b)  c == Append(b, o)
            i0 == [pattern |-> o.pattern, until |-> o.until]
            more == [d \in DOMAIN ind \cup {o.id} |-> IF d = o.id THEN i0 ELSE ind[d]]
<1>1. /\ n \in Nat /\ DOMAIN b = 1..n /\ DOMAIN c = 1..(n + 1) /\ c[n + 1] = o
      /\ \A i \in 1..n : c[i] = b[i] /\ b[i] \in Stix!Dated
  OBVIOUS
<1>. HIDE DEF n, c
<1>2. o.until \in Nat /\ \A i \in 1..n : b[i].until \in Nat
  BY <1>1 DEF Stix!Dated
<1>3. \A i \in 1..n : Came(c, i) = Came(b, i)
  <2>1. TAKE i \in 1..n
  <2>2. \A j \in 1..(i - 1) : c[j] = b[j]
    BY <1>1, <2>1
  <2>. QED  BY <2>2 DEF Came
<1>4. Came(c, n + 1) = {b[j].id : j \in 1..n}
  <2>1. (n + 1) - 1 = n
    BY <1>1
  <2>. QED  BY <1>1, <2>1 DEF Came
<1>5. Whole(c, ind)
  <2>1. SUFFICES ASSUME NEW id \in DOMAIN ind PROVE BroughtOf(c, id, ind[id])
    BY DEF Whole
  <2>2. PICK i \in 1..n : b[i].id = id /\ ind[id] = [pattern |-> b[i].pattern, until |-> b[i].until]
    BY <1>1 DEF Whole, BroughtOf
  <2>3. i \in DOMAIN c /\ c[i] = b[i]
    BY <1>1, <2>2
  <2>. QED  BY <2>2, <2>3 DEF BroughtOf
<1>6. CASE Stix!Cardinality(DOMAIN ind) >= MaxIndicators /\ ind2 = ind
  <2>1. TurnedAway(c, n + 1)
    <3>. DEFINE S == {b[j].id : j \in 1..n}
    <3>1. DOMAIN ind \subseteq S
      BY <1>1 DEF Whole, BroughtOf
    <3>2. IsFiniteSet(S)
      <4>1. IsFiniteSet(1..n)
        BY <1>1, FS_Interval
      <4>2. S = {b[j].id : j \in 1..n}
        OBVIOUS
      <4>. HIDE DEF S
      <4>. DEFINE f == [j \in 1..n |-> b[j].id]
      <4>3. f \in Surjection(1..n, S)
        BY <4>2 DEF Surjection
      <4>. QED  BY <4>1, <4>3, FS_Surjection
    <3>. HIDE DEF S
    <3>3. Cardinality(DOMAIN ind) <= Cardinality(S) /\ Cardinality(S) \in Nat /\ Cardinality(DOMAIN ind) \in Nat
      BY <3>1, <3>2, FS_Subset, FS_CardinalityType
    <3>4. Cardinality(DOMAIN ind) >= MaxIndicators
      BY <1>6 DEF Stix!Cardinality, Cardinality
    <3>5. Cardinality(S) >= MaxIndicators
      BY <3>3, <3>4
    <3>6. S = Came(c, n + 1)
      BY <1>4 DEF S
    <3>. QED  BY <3>5, <3>6 DEF TurnedAway, Stix!Cardinality, Cardinality
  <2>2. Here(c, ind, al)
    <3>1. SUFFICES ASSUME NEW i \in 1..(n + 1) PROVE TurnedAway(c, i) \/ Held(ind, al, c[i])
      BY <1>1 DEF Here
    <3>2. CASE i = n + 1
      BY <2>1, <3>2
    <3>3. CASE i \in 1..n
      BY <1>1, <1>3, <3>3 DEF Here, TurnedAway
    <3>. QED  BY <1>1, <3>2, <3>3
  <2>. QED  BY <1>5, <1>6, <2>2 DEF c
<1>7. CASE ind2 = more
  <2>1. /\ DOMAIN ind2 = DOMAIN ind \cup {o.id} /\ ind2[o.id] = i0
        /\ \A d \in DOMAIN ind : d # o.id => ind2[d] = ind[d]
    BY <1>7
  <2>. HIDE DEF more
  <2>2. Held(ind2, al, o)
    BY <1>2, <2>1 DEF Held
  <2>3. Here(c, ind2, al)
    <3>1. SUFFICES ASSUME NEW i \in 1..(n + 1), ~TurnedAway(c, i) PROVE Held(ind2, al, c[i])
      BY <1>1 DEF Here
    <3>2. CASE i = n + 1
      BY <1>1, <2>2, <3>2
    <3>3. CASE i \in 1..n
      <4>1. c[i] = b[i] /\ Held(ind, al, b[i])
        BY <1>1, <1>3, <3>1, <3>3 DEF Here, TurnedAway
      <4>2. al => o.until >= b[i].until
        BY <1>1, <3>3
      <4>. QED  BY <2>1, <4>1, <4>2 DEF Held
    <3>. QED  BY <1>1, <3>2, <3>3
  <2>4. Whole(c, ind2)
    <3>1. SUFFICES ASSUME NEW id \in DOMAIN ind2 PROVE BroughtOf(c, id, ind2[id])
      BY DEF Whole
    <3>2. CASE id = o.id
      <4>1. n + 1 \in DOMAIN c
        BY <1>1
      <4>. QED  BY <1>1, <2>1, <3>2, <4>1 DEF BroughtOf
    <3>3. CASE id # o.id
      BY <1>5, <2>1, <3>3 DEF Whole
    <3>. QED  BY <3>2, <3>3
  <2>. QED  BY <2>3, <2>4 DEF c
<1>. QED  BY <1>6, <1>7

\* No date lies further ahead than the one given now; and as long as imports come one at
\* a time, one that is about to store comes after everything that was brought.
CallDated(k, limit) == k.pc = "store" => k.until <= limit
Latest(k, b) == k.pc = "store" => \A i \in DOMAIN b : k.until >= b[i].until
Adding(k) == k.pc \in {"add", "store"}

DatesInv ==
  /\ \A i \in DOMAIN brought : brought[i].until <= now + IOCTTL
  /\ \A c \in Callers : CallDated(call[c], now + IOCTTL)
  /\ alone => \A c \in Callers : Latest(call[c], brought)
  /\ alone => \A c, d \in Callers : Adding(call[c]) /\ Adding(call[d]) => c = d

ArriveInv ==
  /\ DatesInv
  /\ Here(brought, indicators, alone)
  /\ Whole(brought, indicators)

LEMMA ArriveInit == ASSUME Stix!Init PROVE ArriveInv
<1>1. DOMAIN brought = {} /\ DOMAIN indicators = {} /\ \A c \in Callers : call[c].pc = "idle"
  BY DEF Stix!Init, Stix!Idle
<1>. QED  BY <1>1 DEF ArriveInv, DatesInv, CallDated, Latest, Adding, Here, Whole

LEMMA ArriveStep ==
  ASSUME Stix!StixAssumption, StixInv, ArriveInv, [Stix!Next]_(Stix!vars)
  PROVE  ArriveInv'
<1>1. /\ now \in 0..MaxTime /\ call \in [Callers -> Stix!CallState]
      /\ brought \in Seq(Stix!Dated) /\ alone \in BOOLEAN
      /\ \A id \in DOMAIN indicators : indicators[id] \in Stix!Indicator
  BY DEF StixInv, Stix!TypeOK
<1>2. MaxIndicators \in Nat \ {0} /\ IOCTTL \in Nat /\ MaxTime \in Nat /\ now \in Nat
  BY <1>1 DEF Stix!StixAssumption
<1>3. \A i \in DOMAIN brought : brought[i].until \in Nat
  <2>1. \A i \in DOMAIN brought : brought[i] \in Stix!Dated
    BY <1>1
  <2>. QED  BY <2>1 DEF Stix!Dated
\* A step that brings nothing, and dates nothing.
<1>4. ASSUME UNCHANGED <<brought, indicators>>, now' \in Nat, now' >= now, alone' => alone,
             \A x \in Callers : call'[x].pc = "store" => call'[x] = call[x] \/ call'[x].until = now' + IOCTTL,
             alone' => \A c, d \in Callers : Adding(call'[c]) /\ Adding(call'[d]) => c = d
      PROVE  ArriveInv'
  <2>1. \A i \in DOMAIN brought : brought[i].until <= now' + IOCTTL
    BY <1>2, <1>3, <1>4 DEF ArriveInv, DatesInv
  <2>2. ASSUME NEW x \in Callers, call'[x].pc = "store"
        PROVE  call'[x].until <= now' + IOCTTL /\ (alone' => \A i \in DOMAIN brought : call'[x].until >= brought[i].until)
    <3>1. CASE call'[x] = call[x]
      <4>1. call[x].until \in Nat
        BY <1>1, <2>2, <3>1 DEF Stix!CallState
      <4>2. call[x].until <= now + IOCTTL
        BY <2>2, <3>1 DEF ArriveInv, DatesInv, CallDated
      <4>3. alone' => \A i \in DOMAIN brought : call[x].until >= brought[i].until
        BY <1>4, <2>2, <3>1 DEF ArriveInv, DatesInv, Latest
      <4>. QED  BY <1>2, <1>4, <3>1, <4>1, <4>2, <4>3
    <3>2. CASE call'[x].until = now' + IOCTTL
      BY <1>2, <1>3, <1>4, <2>1, <3>2
    <3>. QED  BY <1>4, <2>2, <3>1, <3>2
  <2>3. DatesInv'
    BY <1>4, <2>1, <2>2 DEF DatesInv, CallDated, Latest
  <2>4. Here(brought, indicators, alone')
    BY <1>4 DEF ArriveInv, Here, Held
  <2>. QED  BY <1>4, <2>3, <2>4 DEF ArriveInv
\* The others keep what they are doing.
<1>5. ASSUME NEW c \in Callers, NEW k, call' = [call EXCEPT ![c] = k], UNCHANGED <<brought, indicators, now, alone>>,
             k.pc = "store" => k.until = now + IOCTTL, Adding(k) => Adding(call[c])
      PROVE  ArriveInv'
  <2>1. \A x \in Callers : call'[x] = IF x = c THEN k ELSE call[x]
    BY <1>1, <1>5
  <2>2. \A x \in Callers : call'[x].pc = "store" => call'[x] = call[x] \/ call'[x].until = now' + IOCTTL
    BY <1>5, <2>1
  <2>3. \A x \in Callers : Adding(call'[x]) => Adding(call[x])
    BY <1>5, <2>1
  <2>4. alone' => \A x, d \in Callers : Adding(call'[x]) /\ Adding(call'[d]) => x = d
    BY <1>5, <2>3 DEF ArriveInv, DatesInv
  <2>5. now' \in Nat /\ now' >= now /\ (alone' => alone)
    BY <1>2, <1>5
  <2>. QED  BY <1>4, <1>5, <2>2, <2>4, <2>5
<1>6. ASSUME NEW c \in Callers, NEW bundle \in Stix!Bundle, Stix!ParseBundle(c, bundle) PROVE ArriveInv'
  <2>1. /\ UNCHANGED <<now, indicators, brought>> /\ alone' = (alone /\ \A d \in Callers : ~Stix!Importing(d))
        /\ call' = [call EXCEPT ![c] = [pc |-> "add", objects |-> bundle]]
    BY <1>6 DEF Stix!ParseBundle
  <2>2. \A x \in Callers : IF x = c THEN call'[x].pc = "add" ELSE call'[x] = call[x]
    BY <1>1, <2>1
  <2>3. \A x \in Callers : call'[x].pc = "store" => call'[x] = call[x]
    BY <2>2
  <2>4. alone' => \A x, d \in Callers : Adding(call'[x]) /\ Adding(call'[d]) => x = d
    BY <2>1, <2>2 DEF Adding, Stix!Importing
  <2>5. now' \in Nat /\ now' >= now
    BY <1>2, <2>1
  <2>6. alone' => alone
    BY <2>1
  <2>. QED  BY <1>4, <2>1, <2>3, <2>4, <2>5, <2>6
<1>7. ASSUME NEW c \in Callers, Stix!Date(c) PROVE ArriveInv'
  <2>. DEFINE k == [pc |-> "store", objects |-> call[c].objects, until |-> now + IOCTTL]
  <2>1. call[c].pc = "add" /\ UNCHANGED <<now, indicators, brought, alone>> /\ call' = [call EXCEPT ![c] = k]
    BY <1>7 DEF Stix!Date
  <2>2. k.until = now + IOCTTL /\ (Adding(k) => Adding(call[c]))
    BY <2>1 DEF Adding
  <2>. HIDE DEF k
  <2>. QED  BY <1>5, <2>1, <2>2
<1>8. ASSUME NEW c \in Callers, Stix!Store(c) PROVE ArriveInv'
  <2>. DEFINE x == Head(call[c].objects)
              o == [id |-> x.id, pattern |-> x.pattern, until |-> call[c].until]
              i == [pattern |-> x.pattern, until |-> call[c].until]
              k == [pc |-> "add", objects |-> Tail(call[c].objects)]
  <2>1. /\ call[c].pc = "store" /\ UNCHANGED <<now, alone>> /\ call' = [call EXCEPT ![c] = k]
        /\ indicators' = Stix!With(x.id, i) /\ brought' = Append(brought, o)
    BY <1>8 DEF Stix!Store
  <2>2. call[c].objects \in Seq(Stix!Object) /\ call[c].objects # <<>> /\ call[c].until \in Nat
    BY <1>1, <2>1 DEF Stix!CallState, StixInv, CallFits
  <2>3. x \in Stix!Object
    BY <2>2
  <2>. HIDE DEF x
  <2>4. o \in Stix!Dated
    BY <2>2, <2>3 DEF Stix!Object, Stix!Dated
  <2>5. o.id = x.id /\ i = [pattern |-> o.pattern, until |-> o.until] /\ o.until = call[c].until
    OBVIOUS
  <2>6. k.pc = "add"
    OBVIOUS
  <2>. HIDE DEF o, k, i
  <2>7. \/ Stix!Cardinality(DOMAIN indicators) >= MaxIndicators /\ indicators' = indicators
        \/ indicators' = [d \in DOMAIN indicators \cup {o.id} |->
                            IF d = o.id THEN [pattern |-> o.pattern, until |-> o.until] ELSE indicators[d]]
    BY <2>1, <2>5 DEF Stix!With
  <2>8. alone => \A j \in DOMAIN brought : o.until >= brought[j].until
    BY <2>1, <2>5 DEF ArriveInv, DatesInv, Latest
  <2>9. Here(brought', indicators', alone) /\ Whole(brought', indicators')
    <3>1. Here(brought, indicators, alone) /\ Whole(brought, indicators) /\ MaxIndicators \in Nat
      BY <1>2 DEF ArriveInv
    <3>2. Here(Append(brought, o), indicators', alone) /\ Whole(Append(brought, o), indicators')
      BY <1>1, <2>4, <2>7, <2>8, <3>1, OneMore
    <3>. QED  BY <2>1, <3>2
  <2>10. \A y \in Callers : call'[y] = IF y = c THEN k ELSE call[y]
    BY <1>1, <2>1
  <2>11. \A j \in DOMAIN brought' : brought'[j] = o \/ (j \in DOMAIN brought /\ brought'[j] = brought[j])
    <3>. DEFINE n == Len(brought)  b == Append(brought, o)
    <3>1. n \in Nat /\ DOMAIN brought = 1..n /\ DOMAIN b = 1..(n + 1) /\ b[n + 1] = o
          /\ \A j \in 1..n : b[j] = brought[j]
      BY <1>1, <2>4
    <3>2. brought' = b
      BY <2>1
    <3>. HIDE DEF n, b
    <3>. QED  BY <3>1, <3>2
  <2>12. \A j \in DOMAIN brought' : brought'[j].until <= now' + IOCTTL
    BY <2>1, <2>5, <2>11 DEF ArriveInv, DatesInv, CallDated
  <2>13. \A y \in Callers : CallDated(call'[y], now' + IOCTTL)
    BY <2>1, <2>6, <2>10 DEF ArriveInv, DatesInv, CallDated
  <2>14. alone' => \A y, d \in Callers : Adding(call'[y]) /\ Adding(call'[d]) => y = d
    <3>1. \A y \in Callers : Adding(call'[y]) => Adding(call[y])
      BY <2>1, <2>10 DEF Adding
    <3>. QED  BY <2>1, <3>1 DEF ArriveInv, DatesInv
  <2>15. alone' => \A y \in Callers : Latest(call'[y], brought')
    <3>1. alone => \A y \in Callers : y # c => call[y].pc # "store"
      BY <2>1 DEF ArriveInv, DatesInv, Adding
    <3>. QED  BY <2>1, <2>6, <2>10, <3>1 DEF Latest
  <2>16. DatesInv'
    BY <2>12, <2>13, <2>14, <2>15 DEF DatesInv
  <2>. QED  BY <2>1, <2>9, <2>16 DEF ArriveInv
<1>9. ASSUME NEW c \in Callers, Stix!EndImport(c) PROVE ArriveInv'
  <2>1. UNCHANGED <<now, indicators, brought, alone>> /\ call' = [call EXCEPT ![c] = Stix!Idle]
    BY <1>9 DEF Stix!EndImport
  <2>. QED  BY <1>5, <2>1 DEF Stix!Idle, Adding
<1>10. ASSUME NEW c \in Callers, NEW asked \in Stix!Contents, Stix!Match(c, asked) PROVE ArriveInv'
  <2>. DEFINE k == [pc |-> "scan", content |-> asked]
  <2>1. UNCHANGED <<now, indicators, brought, alone>> /\ call' = [call EXCEPT ![c] = k]
    BY <1>10 DEF Stix!Match
  <2>2. k.pc = "scan"
    OBVIOUS
  <2>. HIDE DEF k
  <2>. QED  BY <1>5, <2>1, <2>2 DEF Adding
<1>11. ASSUME NEW c \in Callers, Stix!Scan(c) PROVE ArriveInv'
  <2>. DEFINE k == [pc |-> "return", matches |-> Stix!Matching(call[c].content)]
  <2>1. UNCHANGED <<now, indicators, brought, alone>> /\ call' = [call EXCEPT ![c] = k]
    BY <1>11 DEF Stix!Scan
  <2>2. k.pc = "return"
    OBVIOUS
  <2>. HIDE DEF k
  <2>. QED  BY <1>5, <2>1, <2>2 DEF Adding
<1>12. ASSUME NEW c \in Callers, Stix!Return(c) PROVE ArriveInv'
  <2>1. UNCHANGED <<now, indicators, brought, alone>> /\ call' = [call EXCEPT ![c] = Stix!Idle]
    BY <1>12 DEF Stix!Return
  <2>. QED  BY <1>5, <2>1 DEF Stix!Idle, Adding
<1>13. ASSUME Stix!Tick PROVE ArriveInv'
  <2>1. now' = now + 1 /\ UNCHANGED <<indicators, call, brought, alone>>
    BY <1>13 DEF Stix!Tick
  <2>2. now' \in Nat /\ now' >= now
    BY <1>2, <2>1
  <2>. QED  BY <1>4, <2>1, <2>2 DEF ArriveInv, DatesInv
<1>14. ASSUME UNCHANGED Stix!vars PROVE ArriveInv'
  <2>1. UNCHANGED <<now, indicators, call, brought, alone>>
    BY <1>14 DEF Stix!vars
  <2>2. now' \in Nat /\ now' >= now
    BY <1>2, <2>1
  <2>. QED  BY <1>4, <2>1, <2>2 DEF ArriveInv, DatesInv
<1>. QED  BY <1>6, <1>7, <1>8, <1>9, <1>10, <1>11, <1>12, <1>13, <1>14 DEF Stix!Next

\* However many imports interleave: what was brought is in the engine in one piece, unless
\* it was full of other ids before, and with the latest expiry as long as imports come one
\* at a time (ParseBundle, addIndicatorFromMap).
THEOREM IndicatorsAlwaysArrive == Stix!Spec => []IndicatorsArrive
<1>1. Stix!Init => StixInv /\ ArriveInv
  BY ImportAssumption, StixInit, ArriveInit
<1>2. StixInv /\ ArriveInv /\ [Stix!Next]_(Stix!vars) => (StixInv /\ ArriveInv)'
  BY ImportAssumption, StixStep, ArriveStep
<1>3. ArriveInv => IndicatorsArrive
  BY IndicatorsArriveIs DEF ArriveInv
<1>. QED  BY <1>1, <1>2, <1>3, PTL DEF Stix!Spec

-----------------------------------------------------------------------------
(* The prefilter.  What its recursive definitions are: there is a function *)
(* that satisfies the equation of each, so the one that is chosen does.    *)

\* Recursion over a set whose elements have parts, if every set of them has one that has
\* no part in it: what a step makes of an element depends on its parts only.
Parted(T, parts) ==
  /\ \A x \in T : parts[x] \subseteq T
  /\ \A S \in SUBSET T : S # {} => \E x \in S : parts[x] \cap S = {}
Steps(step, T, parts, V) ==
  /\ \A x \in T : \A f \in [T -> V] : step[x][f] \in V
  /\ \A x \in T : \A f, g \in [T -> V] : (\A y \in parts[x] : f[y] = g[y]) => step[x][f] = step[x][g]

LEMMA RecursionOverParts ==
  ASSUME NEW T, NEW parts, NEW V, V # {}, NEW step, Parted(T, parts), Steps(step, T, parts, V)
  PROVE  \E f \in [T -> V] : \A x \in T : f[x] = step[x][f]
<1>0. /\ \A x \in T : parts[x] \subseteq T
      /\ \A S \in SUBSET T : S # {} => \E x \in S : parts[x] \cap S = {}
      /\ \A x \in T : \A f \in [T -> V] : step[x][f] \in V
      /\ \A x \in T : \A f, g \in [T -> V] : (\A y \in parts[x] : f[y] = g[y]) => step[x][f] = step[x][g]
  BY DEF Parted, Steps
<1>. USE <1>0
<1>. PICK v0 : v0 \in V
  OBVIOUS
<1>. DEFINE Closed(D) == D \in SUBSET T /\ \A x \in D : parts[x] \subseteq D
            Solves(f, D) == f \in [T -> V] /\ \A x \in D : f[x] = step[x][f]
            Has(x, v) == \E D \in SUBSET T, f \in [T -> V] : x \in D /\ Closed(D) /\ Solves(f, D) /\ v = f[x]
            H == {x \in T : \E v \in V : Has(x, v)}
            g == [x \in T |-> IF x \in H THEN CHOOSE v \in V : Has(x, v) ELSE v0]
<1>1. ASSUME NEW D, NEW E, NEW f, NEW h, Closed(D), Closed(E), Solves(f, D), Solves(h, E), NEW x \in D \cap E
      PROVE  f[x] = h[x]
  <2>. DEFINE B == {y \in D \cap E : f[y] # h[y]}
  <2>1. ASSUME B # {} PROVE FALSE
    <3>1. B \in SUBSET T
      BY <1>1
    <3>2. PICK y \in B : parts[y] \cap B = {}
      <4>. HIDE DEF B
      <4>. QED  BY <2>1, <3>1
    <3>3. y \in D /\ y \in E /\ y \in T /\ f[y] # h[y] /\ f \in [T -> V] /\ h \in [T -> V]
      BY <1>1
    <3>4. parts[y] \subseteq D \cap E
      BY <1>1, <3>3
    <3>5. \A z \in parts[y] : f[z] = h[z]
      BY <3>2, <3>4
    <3>6. step[y][f] = step[y][h]
      BY <3>3, <3>5
    <3>. QED  BY <1>1, <3>3, <3>6
  <2>. QED  BY <1>1, <2>1
<1>2. ASSUME NEW D, NEW f, Closed(D), Solves(f, D), NEW x \in D
      PROVE  x \in H /\ g[x] = f[x]
  <2>1. x \in T /\ f \in [T -> V] /\ f[x] \in V /\ D \in SUBSET T
    BY <1>2
  <2>2. Has(x, f[x])
    BY <1>2, <2>1
  <2>3. \A v \in V : Has(x, v) => v = f[x]
    <3>. SUFFICES ASSUME NEW v \in V, NEW E \in SUBSET T, NEW h \in [T -> V], x \in E, Closed(E), Solves(h, E), v = h[x]
                  PROVE  v = f[x]
      OBVIOUS
    <3>. HIDE DEF Closed, Solves
    <3>. QED  BY <1>1, <1>2
  <2>. HIDE DEF Has
  <2>4. x \in H
    BY <2>1, <2>2
  <2>. QED  BY <2>1, <2>2, <2>3, <2>4
<1>3. g \in [T -> V]
  <2>. HIDE DEF Has
  <2>. QED  OBVIOUS
<1>4. ASSUME NEW x \in H PROVE parts[x] \subseteq H /\ g[x] = step[x][g]
  <2>1. PICK D \in SUBSET T, f \in [T -> V] : x \in D /\ Closed(D) /\ Solves(f, D)
    OBVIOUS
  <2>2. \A y \in D : y \in H /\ g[y] = f[y]
    <3>. HIDE DEF Closed, Solves, H, g
    <3>. QED  BY <1>2, <2>1
  <2>. HIDE DEF H, g
  <2>3. parts[x] \subseteq D /\ f[x] = step[x][f] /\ x \in T
    BY <2>1
  <2>4. \A y \in parts[x] : g[y] = f[y]
    BY <2>2, <2>3
  <2>5. step[x][g] = step[x][f]
    BY <1>3, <2>3, <2>4
  <2>. QED  BY <2>1, <2>2, <2>3, <2>5
<1>5. ASSUME NEW x \in T, x \notin H, parts[x] \subseteq H PROVE FALSE
  <2>. DEFINE D == H \cup {x}
              f == [y \in T |-> IF y = x THEN step[x][g] ELSE g[y]]
  <2>1. H \subseteq T
    OBVIOUS
  <2>. HIDE DEF H, g
  <2>2. step[x][g] \in V
    BY <1>3
  <2>3. f \in [T -> V]
    BY <1>3, <2>2
  <2>4. \A y \in D : y \in T /\ parts[y] \subseteq H
    BY <1>4, <1>5, <2>1
  <2>5. \A y \in H : f[y] = g[y]
    BY <1>5, <2>1
  <2>6. f[x] = step[x][g]
    OBVIOUS
  <2>. HIDE DEF f
  <2>7. ASSUME NEW y \in D PROVE f[y] = step[y][f]
    <3>1. \A z \in parts[y] : f[z] = g[z]
      BY <2>4, <2>5
    <3>2. step[y][f] = step[y][g]
      BY <1>3, <2>3, <2>4, <3>1
    <3>. QED  BY <1>4, <2>5, <2>6, <3>2
  <2>8. Closed(D) /\ Solves(f, D)
    BY <2>1, <2>3, <2>4, <2>7
  <2>9. x \in H
    <3>. HIDE DEF Closed, Solves
    <3>. QED  BY <1>2, <2>8
  <2>. QED  BY <1>5, <2>9
<1>6. T \subseteq H
  <2>1. ASSUME T \ H # {} PROVE FALSE
    <3>1. PICK x \in T \ H : parts[x] \cap (T \ H) = {}
      <4>1. T \ H \in SUBSET T
        OBVIOUS
      <4>. HIDE DEF H
      <4>. QED  BY <2>1, <4>1
    <3>. HIDE DEF H
    <3>. QED  BY <1>5, <3>1
  <2>. QED  BY <2>1
<1>. HIDE DEF g, H
<1>. QED  BY <1>3, <1>4, <1>6


\* What the assumption says of trees.
LEMMA TreeFacts ==
  ASSUME NEW re \in SyntaxTrees
  PROVE  /\ re.op \in {"literal", "concat", "alternate", "capture", "quest", "any"}
         /\ re.rune \in Seq(Pre!Runes) /\ re.sub \in Seq(SyntaxTrees)
         /\ DOMAIN re.sub = 1..Len(re.sub) /\ Len(re.sub) \in Nat
         /\ re.op \in {"capture", "quest"} => Len(re.sub) = 1
         /\ \A k \in DOMAIN re.sub : re.sub[k] \in SyntaxTrees
<1>1. re.rune \in Seq(Pre!Runes) /\ re.sub \in Seq(SyntaxTrees) /\ re.op \in {"literal", "concat", "alternate", "capture", "quest", "any"}
  BY PrefilterAssumption DEF Pre!TreesAssumption
<1>2. re.op \in {"capture", "quest"} => Len(re.sub) = 1
  BY PrefilterAssumption DEF Pre!TreesAssumption
<1>3. DOMAIN re.sub = 1..Len(re.sub) /\ Len(re.sub) \in Nat /\ re.sub \in [1..Len(re.sub) -> SyntaxTrees]
  BY <1>1, LenProperties
<1>. QED  BY <1>1, <1>2, <1>3

TreeParts == [re \in SyntaxTrees |-> {re.sub[k] : k \in DOMAIN re.sub}]

LEMMA TreesArePartedWell ==
  Parted(SyntaxTrees, TreeParts)
<1>1. \A re \in SyntaxTrees : TreeParts[re] = Pre!ToSet(re.sub)
  BY DEF TreeParts, Pre!ToSet
<1>2. \A re \in SyntaxTrees : TreeParts[re] \subseteq SyntaxTrees
  BY TreeFacts DEF TreeParts
<1>3. \A trees \in SUBSET SyntaxTrees : trees # {} => \E re \in trees : Pre!ToSet(re.sub) \cap trees = {}
  BY PrefilterAssumption DEF Pre!TreesAssumption
<1>4. ASSUME NEW trees \in SUBSET SyntaxTrees, trees # {} PROVE \E re \in trees : TreeParts[re] \cap trees = {}
  <2>1. PICK re \in trees : Pre!ToSet(re.sub) \cap trees = {}
    BY <1>3, <1>4
  <2>. QED  BY <1>1, <2>1
<1>. QED  BY <1>2, <1>4 DEF Parted

LiteralSets == SUBSET Seq(Pre!Runes)
LiteralsStep(re, f) ==
  IF re.op = "literal" THEN {re.rune} \ {<<>>}
  ELSE IF re.op \in {"capture", "alternate"} /\ \A s \in Pre!ToSet(re.sub) : f[s] # {}
    THEN UNION {f[s] : s \in Pre!ToSet(re.sub)}
    ELSE {}
AreLiterals(f) == f = [re \in SyntaxTrees |-> LiteralsStep(re, f)]

LEMMA LiteralsAre == Pre!mandatoryLiteralsOf = CHOOSE f : AreLiterals(f)
BY DEF Pre!mandatoryLiteralsOf, AreLiterals, LiteralsStep

LEMMA LiteralsExist == AreLiterals(Pre!mandatoryLiteralsOf)
<1>. DEFINE V == LiteralSets
            step == [re \in SyntaxTrees |-> [f \in [SyntaxTrees -> V] |-> LiteralsStep(re, f)]]
<1>1. \A re \in SyntaxTrees : Pre!ToSet(re.sub) = TreeParts[re]
  BY DEF TreeParts, Pre!ToSet
<1>2. ASSUME NEW re \in SyntaxTrees, NEW f \in [SyntaxTrees -> V] PROVE step[re][f] \in V
  <2>1. \A s \in Pre!ToSet(re.sub) : f[s] \in V
    BY <1>1, TreesArePartedWell DEF Parted
  <2>3. {re.rune} \ {<<>>} \in V /\ {} \in V /\ UNION {f[s] : s \in Pre!ToSet(re.sub)} \in V
    BY <2>1, TreeFacts DEF LiteralSets
  <2>4. LiteralsStep(re, f) \in V
    BY <2>3 DEF LiteralsStep
  <2>. QED  BY <2>4
<1>3. ASSUME NEW re \in SyntaxTrees, NEW f \in [SyntaxTrees -> V], NEW g \in [SyntaxTrees -> V],
             \A y \in TreeParts[re] : f[y] = g[y]
      PROVE  step[re][f] = step[re][g]
  <2>1. \A s \in Pre!ToSet(re.sub) : f[s] = g[s]
    BY <1>1, <1>3
  <2>3. UNION {f[s] : s \in Pre!ToSet(re.sub)} = UNION {g[s] : s \in Pre!ToSet(re.sub)}
    BY <2>1
  <2>4. LiteralsStep(re, f) = LiteralsStep(re, g)
    BY <2>1, <2>3 DEF LiteralsStep
  <2>. QED  BY <2>4
<1>4. {} \in V
  BY DEF LiteralSets
<1>5. \A re \in SyntaxTrees : \A f \in [SyntaxTrees -> V] : step[re][f] \in V
  BY <1>2
<1>6. \A re \in SyntaxTrees : \A f, g \in [SyntaxTrees -> V] :
        (\A y \in TreeParts[re] : f[y] = g[y]) => step[re][f] = step[re][g]
  BY <1>3
<1>7. \A re \in SyntaxTrees : \A f \in [SyntaxTrees -> V] : step[re][f] = LiteralsStep(re, f)
  OBVIOUS
<1>. HIDE DEF step, V
<1>10. Steps(step, SyntaxTrees, TreeParts, V) /\ V # {}
  BY <1>4, <1>5, <1>6 DEF Steps
<1>8. PICK f \in [SyntaxTrees -> V] : \A re \in SyntaxTrees : f[re] = step[re][f]
  BY <1>10, TreesArePartedWell, RecursionOverParts
<1>9. AreLiterals(f)
  BY <1>7, <1>8 DEF AreLiterals
<1>. QED  BY <1>9, LiteralsAre

\* The slices a tree matches, from those its parts match.
Spanned(t) == [Pre!Slices(Len(t)) -> BOOLEAN]
SpanAt(t, re, f, s) ==
  \/ /\ re.op = "literal"
     /\ s[2] - s[1] = Len(re.rune)
     /\ \A k \in DOMAIN re.rune : Pre!Orbit(t[s[1] + k]) = Pre!Orbit(re.rune[k])
  \/ /\ re.op = "concat"
     /\ \E c \in [0..Len(re.sub) -> s[1]..s[2]] :
          /\ c[0] = s[1] /\ c[Len(re.sub)] = s[2]
          /\ \A k \in DOMAIN re.sub :
               c[k - 1] <= c[k] /\ f[re.sub[k]][<<c[k - 1], c[k]>>]
  \/ re.op = "alternate" /\ \E k \in DOMAIN re.sub : f[re.sub[k]][s]
  \/ re.op = "capture" /\ f[re.sub[1]][s]
  \/ re.op = "quest" /\ (s[1] = s[2] \/ f[re.sub[1]][s])
  \/ re.op = "any" /\ s[2] = s[1] + 1
SpansStep(t, re, f) == [s \in Pre!Slices(Len(t)) |-> SpanAt(t, re, f, s)]
AreSpans(t, f) == f = [re \in SyntaxTrees |-> SpansStep(t, re, f)]

LEMMA SpansAre == ASSUME NEW t PROVE Pre!SpansIn(t) = CHOOSE f : AreSpans(t, f)
BY DEF Pre!SpansIn, AreSpans, SpansStep, SpanAt

LEMMA SpansExist == ASSUME NEW t PROVE AreSpans(t, Pre!SpansIn(t))
<1>. DEFINE V == Spanned(t)
            step == [re \in SyntaxTrees |-> [f \in [SyntaxTrees -> V] |-> SpansStep(t, re, f)]]
<1>1. \A re \in SyntaxTrees : \A f \in [SyntaxTrees -> V] : step[re][f] \in V
  <2>1. \A re \in SyntaxTrees : \A f \in [SyntaxTrees -> V] : SpansStep(t, re, f) \in V
    BY DEF SpansStep, SpanAt, Spanned
  <2>. QED  BY <2>1
<1>2. ASSUME NEW re \in SyntaxTrees, NEW f \in [SyntaxTrees -> V], NEW g \in [SyntaxTrees -> V],
             \A y \in TreeParts[re] : f[y] = g[y]
      PROVE  step[re][f] = step[re][g]
  <2>1. \A k \in DOMAIN re.sub : f[re.sub[k]] = g[re.sub[k]]
    BY <1>2 DEF TreeParts
  <2>2. re.op \in {"capture", "quest"} => f[re.sub[1]] = g[re.sub[1]]
    BY <2>1, TreeFacts
  <2>3. SpansStep(t, re, f) = SpansStep(t, re, g)
    BY <2>1, <2>2 DEF SpansStep, SpanAt
  <2>. QED  BY <2>3
<1>3. [s \in Pre!Slices(Len(t)) |-> FALSE] \in V
  BY DEF Spanned
<1>4. \A re \in SyntaxTrees : \A f, g \in [SyntaxTrees -> V] :
        (\A y \in TreeParts[re] : f[y] = g[y]) => step[re][f] = step[re][g]
  BY <1>2
<1>5. \A re \in SyntaxTrees : \A f \in [SyntaxTrees -> V] : step[re][f] = SpansStep(t, re, f)
  OBVIOUS
<1>. HIDE DEF step, V
<1>8. Steps(step, SyntaxTrees, TreeParts, V) /\ V # {}
  BY <1>1, <1>3, <1>4 DEF Steps
<1>6. PICK f \in [SyntaxTrees -> V] : \A re \in SyntaxTrees : f[re] = step[re][f]
  BY <1>8, TreesArePartedWell, RecursionOverParts
<1>7. AreSpans(t, f)
  BY <1>5, <1>6 DEF AreSpans
<1>. QED  BY <1>7, SpansAre


LEMMA LiteralsOf ==
  \A re \in SyntaxTrees : Pre!mandatoryLiteralsOf[re] = LiteralsStep(re, Pre!mandatoryLiteralsOf)
<1>. DEFINE m == Pre!mandatoryLiteralsOf
<1>1. m = [re \in SyntaxTrees |-> LiteralsStep(re, m)]
  BY LiteralsExist DEF AreLiterals
<1>. HIDE DEF m
<1>2. \A re \in SyntaxTrees : m[re] = LiteralsStep(re, m)
  BY <1>1
<1>. QED  BY <1>2 DEF m

LEMMA SpansOf ==
  ASSUME NEW t
  PROVE  \A re \in SyntaxTrees : \A s \in Pre!Slices(Len(t)) :
           Pre!SpansIn(t)[re][s] = SpanAt(t, re, Pre!SpansIn(t), s)
<1>. DEFINE m == Pre!SpansIn(t)
<1>1. m = [re \in SyntaxTrees |-> SpansStep(t, re, m)]
  BY SpansExist DEF AreSpans
<1>. HIDE DEF m
<1>2. \A re \in SyntaxTrees : m[re] = SpansStep(t, re, m)
  BY <1>1
<1>3. \A re \in SyntaxTrees : \A s \in Pre!Slices(Len(t)) : m[re][s] = SpanAt(t, re, m, s)
  BY <1>2 DEF SpansStep
<1>. QED  BY <1>3 DEF m

\* Between two places of a text is a literal, but for what (?i) does not tell apart.
Holds(t, a, b, l) ==
  /\ l \in Seq(Pre!Runes)
  /\ \E i \in a..b : i + Len(l) <= b /\ \A k \in 1..Len(l) : Pre!Orbit(t[i + k]) = Pre!Orbit(l[k])

LEMMA CaptureHasPart ==
  ASSUME NEW re \in SyntaxTrees, re.op = "capture" PROVE 1 \in DOMAIN re.sub
BY TreeFacts

LEMMA SliceFacts ==
  ASSUME NEW n \in Nat, NEW s \in Pre!Slices(n)
  PROVE  s[1] \in 0..n /\ s[2] \in 0..n /\ s[1] <= s[2] /\ s = <<s[1], s[2]>>
BY DEF Pre!Slices

\* Whatever a tree matches holds one of its literals, if it has any.
LEMMA MatchesHoldLiterals ==
  ASSUME NEW t \in Seq(Pre!Runes), NEW p \in SyntaxTrees, NEW w \in Pre!Slices(Len(t)),
         Pre!SpansIn(t)[p][w], Pre!mandatoryLiteralsOf[p] # {}
  PROVE  \E l \in Pre!mandatoryLiteralsOf[p] : Holds(t, w[1], w[2], l)
<1>. DEFINE m == Pre!mandatoryLiteralsOf
            f == Pre!SpansIn(t)
            Fails(re, s) == f[re][s] /\ m[re] # {} /\ ~(\E l \in m[re] : Holds(t, s[1], s[2], l))
            Bad == {re \in SyntaxTrees : \E s \in Pre!Slices(Len(t)) : Fails(re, s)}
<1>. SUFFICES ASSUME Fails(p, w) PROVE FALSE
  OBVIOUS
<1>0. Len(t) \in Nat
  BY LenProperties
<1>. HIDE DEF m, f
<1>1. \A re \in SyntaxTrees : m[re] = LiteralsStep(re, m) /\ \A s \in Pre!Slices(Len(t)) : f[re][s] = SpanAt(t, re, f, s)
  BY LiteralsOf, SpansOf DEF m, f
<1>2. Bad # {} /\ Bad \in SUBSET SyntaxTrees
  OBVIOUS
<1>3. PICK re \in Bad : TreeParts[re] \cap Bad = {}
  <2>. HIDE DEF Bad
  <2>. QED  BY <1>2, TreesArePartedWell DEF Parted
<1>4. PICK s \in Pre!Slices(Len(t)) : Fails(re, s)
  OBVIOUS
<1>5. re \in SyntaxTrees
  OBVIOUS
<1>6. /\ re.rune \in Seq(Pre!Runes) /\ DOMAIN re.rune = 1..Len(re.rune) /\ Len(re.rune) \in Nat
      /\ DOMAIN re.sub = 1..Len(re.sub) /\ (re.op \in {"capture", "quest"} => Len(re.sub) = 1)
  BY <1>5, TreeFacts, LenProperties
<1>7. \A k \in DOMAIN re.sub : re.sub[k] \in SyntaxTrees /\ re.sub[k] \notin Bad /\ re.sub[k] \in Pre!ToSet(re.sub)
  <2>1. \A k \in DOMAIN re.sub : re.sub[k] \in TreeParts[re]
    BY <1>5 DEF TreeParts
  <2>. HIDE DEF Bad
  <2>. QED  BY <1>3, <1>5, <2>1, TreeFacts DEF Pre!ToSet
<1>8. s[1] \in 0..Len(t) /\ s[2] \in 0..Len(t) /\ s[1] <= s[2]
  BY <1>0, SliceFacts
<1>12. SpanAt(t, re, f, s) /\ m[re] # {}
  BY <1>1, <1>4, <1>5
<1>9. CASE re.op = "literal"
  <2>1. m[re] = {re.rune} \ {<<>>} /\ re.rune \in m[re]
    BY <1>1, <1>4, <1>5, <1>9 DEF LiteralsStep
  <2>2. /\ s[2] - s[1] = Len(re.rune)
        /\ \A k \in 1..Len(re.rune) : Pre!Orbit(t[s[1] + k]) = Pre!Orbit(re.rune[k])
    BY <1>6, <1>9, <1>12 DEF SpanAt
  <2>3. s[1] \in s[1]..s[2] /\ s[1] + Len(re.rune) <= s[2]
    BY <1>6, <1>8, <2>2
  <2>4. Holds(t, s[1], s[2], re.rune)
    BY <1>6, <2>2, <2>3 DEF Holds
  <2>. QED  BY <1>4, <2>1, <2>4
<1>10. CASE re.op \in {"capture", "alternate"}
  <2>1. /\ \A x \in Pre!ToSet(re.sub) : m[x] # {}
        /\ m[re] = UNION {m[x] : x \in Pre!ToSet(re.sub)}
    BY <1>1, <1>4, <1>5, <1>10 DEF LiteralsStep
  <2>2. PICK k \in DOMAIN re.sub : f[re.sub[k]][s]
    <3>1. CASE re.op = "alternate"
      BY <1>12, <3>1 DEF SpanAt
    <3>2. CASE re.op = "capture"
      <4>1. 1 \in DOMAIN re.sub
        BY <1>5, <3>2, CaptureHasPart
      <4>. QED  BY <1>12, <3>2, <4>1 DEF SpanAt
    <3>. QED  BY <1>10, <3>1, <3>2
  <2>3. ~Fails(re.sub[k], s) /\ m[re.sub[k]] # {} /\ m[re.sub[k]] \subseteq m[re]
    BY <1>7, <2>1
  <2>. QED  BY <1>4, <2>2, <2>3
<1>11. CASE re.op \notin {"literal", "capture", "alternate"}
  BY <1>1, <1>4, <1>5, <1>11 DEF LiteralsStep
<1>. QED  BY <1>9, <1>10, <1>11

\* Among finitely many there is a first of the heaviest.
LEMMA FirstHeaviest ==
  ASSUME NEW N \in Nat, NEW S \in SUBSET (1..N), S # {}, NEW w \in [S -> Nat]
  PROVE  \E i \in S : \A j \in S : w[j] < w[i] \/ (w[j] = w[i] /\ i <= j)
<1>. DEFINE Best(i, G) == i \in G /\ \A j \in G : w[j] < w[i] \/ (w[j] = w[i] /\ i <= j)
            To(n) == {i \in S : i <= n}
            F == {n \in Nat : To(n) = {} \/ \E i \in S : Best(i, To(n))}
<1>0. \A i \in S : i \in Nat /\ 1 <= i /\ i <= N
  OBVIOUS
<1>1. 0 \in F
  <2>0. \A i \in S : ~(i <= 0)
    BY <1>0
  <2>1. To(0) = {}
    BY <2>0
  <2>. HIDE DEF To
  <2>. QED  BY <2>1
<1>2. ASSUME NEW n \in Nat, n \in F PROVE n + 1 \in F
  <2>1. CASE n + 1 \notin S
    <3>0. \A i \in S : i <= n + 1 <=> i <= n
      BY <1>0, <2>1
    <3>1. To(n + 1) = To(n)
      BY <3>0
    <3>2. To(n) = {} \/ \E i \in S : Best(i, To(n))
      BY <1>2
    <3>. HIDE DEF To, Best
    <3>. QED  BY <3>1, <3>2
  <2>2. CASE n + 1 \in S
    <3>0. \A i \in S : i <= n + 1 <=> (i <= n \/ i = n + 1)
      BY <1>0
    <3>1. To(n + 1) = To(n) \cup {n + 1}
      BY <2>2, <3>0
    <3>2. CASE To(n) = {}
      <4>1. Best(n + 1, To(n + 1))
        BY <2>2, <3>1, <3>2
      <4>. HIDE DEF To, Best
      <4>. QED  BY <2>2, <4>1
    <3>3. CASE To(n) # {}
      <4>1. PICK i \in S : Best(i, To(n))
        BY <1>2, <3>3
      <4>2. \A j \in S : w[j] \in Nat /\ j \in Nat
        OBVIOUS
      <4>3. i \in To(n) /\ i <= n /\ \A j \in To(n) : w[j] < w[i] \/ (w[j] = w[i] /\ i <= j)
        BY <4>1
      <4>4. CASE w[i] < w[n + 1]
        <5>1. \A j \in To(n) : j \in S /\ w[j] < w[n + 1]
          BY <2>2, <4>2, <4>3, <4>4
        <5>2. Best(n + 1, To(n + 1))
          <6>1. n + 1 <= n + 1
            OBVIOUS
          <6>. HIDE DEF To
          <6>. QED  BY <3>1, <5>1, <6>1
        <5>. HIDE DEF To, Best
        <5>. QED  BY <2>2, <5>2
      <4>5. CASE ~(w[i] < w[n + 1])
        <5>1. w[n + 1] < w[i] \/ (w[n + 1] = w[i] /\ i <= n + 1)
          BY <2>2, <4>2, <4>3, <4>5
        <5>2. Best(i, To(n + 1))
          <6>. HIDE DEF To
          <6>. QED  BY <3>1, <4>3, <5>1
        <5>. HIDE DEF To, Best
        <5>. QED  BY <5>2
      <4>. QED  BY <4>4, <4>5
    <3>. QED  BY <3>2, <3>3
  <2>. QED  BY <2>1, <2>2
<1>. HIDE DEF F
<1>3. N \in F
  BY <1>1, <1>2, NatSetInduction
<1>4. To(N) = S
  BY <1>0
<1>. HIDE DEF To
<1>. QED  BY <1>3, <1>4 DEF F

LEMMA ShortestLength ==
  ASSUME NEW lits \in LiteralSets, lits # {} PROVE Pre!minLiteralLen(lits) \in Nat
<1>1. \A l \in lits : Len(l) \in Nat
  BY LenProperties DEF LiteralSets
<1>2. {Len(l) : l \in lits} \in SUBSET Nat /\ {Len(l) : l \in lits} # {}
  BY <1>1
<1>3. \E m \in {Len(l) : l \in lits} : \A y \in {Len(l) : l \in lits} : m <= y
  BY <1>2, MinIn
<1>4. \E m \in {Len(l) : l \in lits} : \A l \in lits : m <= Len(l)
  BY <1>3
<1>. QED  BY <1>2, <1>4 DEF Pre!minLiteralLen

\* The parts of a pattern that follow one another.
PartsOf(re) == IF re.op = "concat" THEN re.sub ELSE <<re>>

LEMMA PartsAreTrees ==
  ASSUME NEW re \in SyntaxTrees
  PROVE  /\ DOMAIN PartsOf(re) = 1..Len(PartsOf(re)) /\ Len(PartsOf(re)) \in Nat
         /\ \A i \in DOMAIN PartsOf(re) : PartsOf(re)[i] \in SyntaxTrees
<1>1. CASE re.op = "concat"
  BY <1>1, TreeFacts DEF PartsOf
<1>2. CASE re.op # "concat"
  BY <1>2 DEF PartsOf
<1>. QED  BY <1>1, <1>2

LEMMA LiteralsTyped == \A re \in SyntaxTrees : Pre!mandatoryLiteralsOf[re] \in LiteralSets
<1>. DEFINE m == Pre!mandatoryLiteralsOf
            Bad == {re \in SyntaxTrees : m[re] \notin LiteralSets}
<1>. HIDE DEF m
<1>1. \A re \in SyntaxTrees : m[re] = LiteralsStep(re, m)
  BY LiteralsOf DEF m
<1>2. ASSUME Bad # {} PROVE FALSE
  <2>1. Bad \in SUBSET SyntaxTrees
    OBVIOUS
  <2>2. PICK re \in Bad : TreeParts[re] \cap Bad = {}
    <3>. HIDE DEF Bad
    <3>. QED  BY <1>2, <2>1, TreesArePartedWell DEF Parted
  <2>3. \A s \in Pre!ToSet(re.sub) : m[s] \in LiteralSets
    <3>1. Pre!ToSet(re.sub) = TreeParts[re] /\ TreeParts[re] \subseteq SyntaxTrees
      BY TreesArePartedWell DEF TreeParts, Parted, Pre!ToSet
    <3>. QED  BY <2>2, <3>1
  <2>4. {re.rune} \ {<<>>} \in LiteralSets /\ {} \in LiteralSets /\ UNION {m[s] : s \in Pre!ToSet(re.sub)} \in LiteralSets
    BY <2>3, TreeFacts DEF LiteralSets
  <2>5. LiteralsStep(re, m) \in LiteralSets
    BY <2>4 DEF LiteralsStep
  <2>. QED  BY <1>1, <2>5
<1>. QED  BY <1>2 DEF m

\* What a pattern requires are the literals of one of its parts, all of them ASCII.
LEMMA RequiredIs ==
  ASSUME NEW re \in SyntaxTrees, Pre!Required(re) # {}
  PROVE  \E i \in DOMAIN PartsOf(re) :
           /\ Pre!Required(re) = Pre!mandatoryLiteralsOf[PartsOf(re)[i]]
           /\ Pre!mandatoryLiteralsOf[PartsOf(re)[i]] # {}
           /\ Pre!allASCII(Pre!mandatoryLiteralsOf[PartsOf(re)[i]])
<1>. DEFINE subs  == PartsOf(re)
            lits(i) == Pre!mandatoryLiteralsOf[subs[i]]
            usable == {i \in DOMAIN subs : lits(i) # {} /\ Pre!allASCII(lits(i))}
            Best(i) == \A j \in usable :
                 \/ Pre!minLiteralLen(lits(j)) < Pre!minLiteralLen(lits(i))
                 \/ Pre!minLiteralLen(lits(j)) = Pre!minLiteralLen(lits(i)) /\ i <= j
            best  == CHOOSE i \in usable : Best(i)
<1>1. Pre!Required(re) = IF usable = {} \/ Pre!minLiteralLen(lits(best)) < MinUsefulLiteralLen THEN {} ELSE lits(best)
  BY DEF Pre!Required, PartsOf
<1>2. usable # {} /\ Pre!Required(re) = lits(best)
  <2>. HIDE DEF usable, best
  <2>. QED  BY <1>1
<1>3. DOMAIN subs = 1..Len(subs) /\ Len(subs) \in Nat
  BY PartsAreTrees
<1>4. \A i \in usable : lits(i) \in LiteralSets /\ lits(i) # {}
  BY PartsAreTrees, LiteralsTyped
<1>5. \E i \in usable : Best(i)
  <2>. DEFINE w == [i \in usable |-> Pre!minLiteralLen(lits(i))]
  <2>1. w \in [usable -> Nat]
    <3>. HIDE DEF usable
    <3>. QED  BY <1>4, ShortestLength
  <2>2. usable \in SUBSET (1..Len(subs))
    BY <1>3
  <2>3. \E i \in usable : \A j \in usable : w[j] < w[i] \/ (w[j] = w[i] /\ i <= j)
    <3>. HIDE DEF usable, w, subs
    <3>. QED  BY <1>2, <1>3, <2>1, <2>2, FirstHeaviest
  <2>. HIDE DEF usable
  <2>. QED  BY <2>3
<1>6. best \in usable
  <2>. HIDE DEF usable, Best
  <2>. QED  BY <1>5
<1>. HIDE DEF best
<1>. QED  BY <1>2, <1>6

\* A text that a pattern matches holds one of the literals the pattern requires.
LEMMA MatchesHoldRequired ==
  ASSUME NEW t \in Seq(Pre!Runes), NEW re \in SyntaxTrees, Pre!Required(re) # {}, Pre!Matches(re, t)
  PROVE  \E l \in Pre!Required(re) : Pre!ToSet(l) \subseteq Pre!Ascii /\ Holds(t, 0, Len(t), l)
<1>1. PICK i \in DOMAIN PartsOf(re) :
        /\ Pre!Required(re) = Pre!mandatoryLiteralsOf[PartsOf(re)[i]]
        /\ Pre!mandatoryLiteralsOf[PartsOf(re)[i]] # {}
        /\ Pre!allASCII(Pre!mandatoryLiteralsOf[PartsOf(re)[i]])
  BY RequiredIs
<1>2. PICK s \in Pre!Slices(Len(t)) : Pre!SpansIn(t)[re][s]
  BY DEF Pre!Matches
<1>3. Len(t) \in Nat
  BY LenProperties
<1>4. s[1] \in 0..Len(t) /\ s[2] \in 0..Len(t) /\ s[1] <= s[2]
  BY <1>3, SliceFacts
<1>5. PartsOf(re)[i] \in SyntaxTrees
  BY PartsAreTrees
<1>6. \E w \in Pre!Slices(Len(t)) : Pre!SpansIn(t)[PartsOf(re)[i]][w]
  <2>1. CASE re.op # "concat"
    <3>1. PartsOf(re) = <<re>>
      BY <2>1 DEF PartsOf
    <3>2. i = 1 /\ PartsOf(re)[i] = re
      BY <3>1
    <3>. QED  BY <1>2, <3>2
  <2>2. CASE re.op = "concat"
    <3>1. PartsOf(re) = re.sub
      BY <2>2 DEF PartsOf
    <3>2. SpanAt(t, re, Pre!SpansIn(t), s)
      BY <1>2, SpansOf
    <3>3. PICK c \in [0..Len(re.sub) -> s[1]..s[2]] :
            \A k \in DOMAIN re.sub : c[k - 1] <= c[k] /\ Pre!SpansIn(t)[re.sub[k]][<<c[k - 1], c[k]>>]
      BY <2>2, <3>2 DEF SpanAt
    <3>4. i \in 1..Len(re.sub) /\ Len(re.sub) \in Nat
      BY <3>1, TreeFacts
    <3>5. c[i - 1] \in s[1]..s[2] /\ c[i] \in s[1]..s[2]
      BY <3>4
    <3>6. c[i - 1] \in 0..Len(t) /\ c[i] \in 0..Len(t) /\ c[i - 1] <= c[i]
      <4>1. c[i - 1] <= c[i]
        BY <3>1, <3>3
      <4>. QED  BY <1>3, <1>4, <3>5, <4>1
    <3>7. <<c[i - 1], c[i]>> \in Pre!Slices(Len(t))
      BY <3>6 DEF Pre!Slices
    <3>. QED  BY <3>1, <3>3, <3>7
  <2>. QED  BY <2>1, <2>2
<1>7. PICK w \in Pre!Slices(Len(t)) : Pre!SpansIn(t)[PartsOf(re)[i]][w]
  BY <1>6
<1>8. PICK l \in Pre!mandatoryLiteralsOf[PartsOf(re)[i]] : Holds(t, w[1], w[2], l)
  BY <1>1, <1>5, <1>7, MatchesHoldLiterals
<1>9. w[1] \in 0..Len(t) /\ w[2] \in 0..Len(t) /\ w[1] <= w[2]
  BY <1>3, SliceFacts
<1>10. Holds(t, 0, Len(t), l)
  <2>1. PICK j \in w[1]..w[2] : j + Len(l) <= w[2] /\ \A k \in 1..Len(l) : Pre!Orbit(t[j + k]) = Pre!Orbit(l[k])
    BY <1>8 DEF Holds
  <2>2. l \in Seq(Pre!Runes) /\ Len(l) \in Nat
    BY <1>8, LenProperties DEF Holds
  <2>3. j \in 0..Len(t) /\ j + Len(l) <= Len(t)
    BY <1>3, <1>9, <2>1, <2>2
  <2>. QED  BY <2>1, <2>2, <2>3 DEF Holds
<1>11. Pre!ToSet(l) \subseteq Pre!Ascii
  BY <1>1, <1>8 DEF Pre!allASCII
<1>. QED  BY <1>1, <1>8, <1>10, <1>11

\* The search of the folded text finds what (?i) takes for an ASCII letter.
LEMMA FoldedRunes ==
  ASSUME NEW c \in Pre!Runes, NEW d \in Pre!Ascii, Pre!Orbit(c) = Pre!Orbit(d)
  PROVE  Pre!AsciiLower(IF c = "longs" THEN "s" ELSE c) = Pre!AsciiLower(d)
BY DEF Pre!Runes, Pre!Ascii, Pre!Orbit, Pre!AsciiLower

LEMMA SearchFinds ==
  ASSUME NEW t \in Seq(Pre!Runes), NEW lits, NEW l \in lits, Pre!ToSet(l) \subseteq Pre!Ascii, Holds(t, 0, Len(t), l)
  PROVE  l \in Pre!IterOverlapping(lits, Pre!FoldForASCIISearch(t))
<1>. DEFINE g == Pre!FoldForASCIISearch(t)
<1>1. Len(t) \in Nat /\ DOMAIN t = 1..Len(t) /\ \A k \in 1..Len(t) : t[k] \in Pre!Runes
  BY LenProperties
<1>2. Len(l) \in Nat /\ DOMAIN l = 1..Len(l) /\ \A k \in 1..Len(l) : l[k] \in Pre!Ascii
  <2>1. l \in Seq(Pre!Runes)
    BY DEF Holds
  <2>2. Len(l) \in Nat /\ DOMAIN l = 1..Len(l)
    BY <2>1, LenProperties
  <2>. QED  BY <2>2 DEF Pre!ToSet
<1>3. PICK i \in 0..Len(t) : i + Len(l) <= Len(t) /\ \A k \in 1..Len(l) : Pre!Orbit(t[i + k]) = Pre!Orbit(l[k])
  BY DEF Holds
<1>4. g = [k \in 1..Len(t) |-> IF t[k] = "longs" THEN "s" ELSE t[k]]
  BY <1>1 DEF Pre!FoldForASCIISearch
<1>5. Len(g) = Len(t)
  BY <1>1, <1>4
<1>6. ASSUME NEW k \in DOMAIN l PROVE Pre!AsciiLower(g[i + k]) = Pre!AsciiLower(l[k])
  <2>1. k \in 1..Len(l) /\ i + k \in 1..Len(t)
    BY <1>1, <1>2, <1>3
  <2>2. g[i + k] = IF t[i + k] = "longs" THEN "s" ELSE t[i + k]
    BY <1>4, <2>1
  <2>3. t[i + k] \in Pre!Runes /\ l[k] \in Pre!Ascii /\ Pre!Orbit(t[i + k]) = Pre!Orbit(l[k])
    BY <1>1, <1>2, <1>3, <2>1
  <2>. QED  BY <2>2, <2>3, FoldedRunes
<1>7. i \in 0..(Len(g) - Len(l))
  BY <1>1, <1>2, <1>3, <1>5
<1>. HIDE DEF g
<1>8. \E j \in 0..(Len(g) - Len(l)) : \A k \in DOMAIN l : Pre!AsciiLower(g[j + k]) = Pre!AsciiLower(l[k])
  BY <1>6, <1>7
<1>. QED  BY <1>8 DEF Pre!IterOverlapping, g

\* The patterns of the categories one after the other, and where those of each begin.
AllPatterns == Seq(SyntaxTrees \cup {NoRegex})
UpToStep(groups, k, f) == IF k = 0 THEN <<>> ELSE f[k - 1] \o groups[CategoryNames[k]]
AreUpTo(groups, f) == f = [k \in 0..Len(CategoryNames) |-> UpToStep(groups, k, f)]
UpTo(groups) == CHOOSE f : AreUpTo(groups, f)
At(name) == CHOOSE k \in DOMAIN CategoryNames : CategoryNames[k] = name
Need(all) == [i \in DOMAIN all |-> IF all[i] = NoRegex THEN {} ELSE Pre!Required(all[i])]

LEMMA CategoriesOf ==
  /\ Len(CategoryNames) \in Nat /\ DOMAIN CategoryNames = 1..Len(CategoryNames)
  /\ \A k \in 1..Len(CategoryNames) : CategoryNames[k] \in Pre!ToSet(CategoryNames)
  /\ \A name \in Pre!ToSet(CategoryNames) : At(name) \in 1..Len(CategoryNames) /\ CategoryNames[At(name)] = name
<1>1. CategoryNames \in Seq(Pre!ToSet(CategoryNames))
  BY PrefilterAssumption DEF Pre!TreesAssumption
<1>2. Len(CategoryNames) \in Nat /\ DOMAIN CategoryNames = 1..Len(CategoryNames)
  BY <1>1, LenProperties
<1>3. \A name \in Pre!ToSet(CategoryNames) : \E k \in DOMAIN CategoryNames : CategoryNames[k] = name
  BY DEF Pre!ToSet
<1>. QED  BY <1>2, <1>3 DEF At, Pre!ToSet

LEMMA GroupsTyped ==
  ASSUME NEW groups \in PatternMaps
  PROVE  groups \in [Pre!ToSet(CategoryNames) -> AllPatterns]
BY PrefilterAssumption DEF Pre!TreesAssumption, AllPatterns

LEMMA UpToExist == ASSUME NEW groups \in PatternMaps PROVE AreUpTo(groups, UpTo(groups))
<1>. DEFINE N == Len(CategoryNames)
            step == [k \in 0..N |-> [f \in [0..N -> AllPatterns] |-> UpToStep(groups, k, f)]]
            parts == [k \in 0..N |-> IF k = 0 THEN {} ELSE {k - 1}]
<1>0. N \in Nat /\ \A k \in 1..N : groups[CategoryNames[k]] \in AllPatterns
  BY CategoriesOf, GroupsTyped
<1>. HIDE DEF N
<1>1. ASSUME NEW k \in 0..N, NEW f \in [0..N -> AllPatterns] PROVE UpToStep(groups, k, f) \in AllPatterns
  <2>1. CASE k = 0
    BY <2>1 DEF UpToStep, AllPatterns
  <2>2. CASE k # 0
    <3>1. k \in 1..N /\ k - 1 \in 0..N
      BY <1>0, <2>2
    <3>2. f[k - 1] \in AllPatterns /\ groups[CategoryNames[k]] \in AllPatterns
      BY <1>0, <3>1
    <3>3. f[k - 1] \o groups[CategoryNames[k]] \in AllPatterns
      BY <3>2, ConcatProperties DEF AllPatterns
    <3>. QED  BY <2>2, <3>3 DEF UpToStep
  <2>. QED  BY <2>1, <2>2
<1>2. \A k \in 0..N : \A f, g \in [0..N -> AllPatterns] :
        (\A y \in parts[k] : f[y] = g[y]) => UpToStep(groups, k, f) = UpToStep(groups, k, g)
  BY DEF UpToStep
<1>3. \A k \in 0..N : \A f \in [0..N -> AllPatterns] : step[k][f] = UpToStep(groups, k, f)
  OBVIOUS
<1>4. \A k \in 0..N : parts[k] \subseteq 0..N
  BY <1>0
<1>5. ASSUME NEW S \in SUBSET (0..N), S # {} PROVE \E k \in S : parts[k] \cap S = {}
  <2>1. S \in SUBSET Nat
    BY <1>0
  <2>2. PICK k \in S : \A j \in S : k <= j
    BY <1>5, <2>1, MinIn
  <2>3. k - 1 \notin S
    BY <2>1, <2>2
  <2>. QED  BY <2>3
<1>. HIDE DEF step, parts
<1>6. Parted(0..N, parts)
  BY <1>4, <1>5 DEF Parted
<1>7. AllPatterns # {}
  <2>1. <<>> \in AllPatterns
    BY DEF AllPatterns
  <2>. QED  BY <2>1
<1>8. Steps(step, 0..N, parts, AllPatterns)
  BY <1>1, <1>2, <1>3 DEF Steps
<1>9. PICK f \in [0..N -> AllPatterns] : \A k \in 0..N : f[k] = step[k][f]
  <2>. DEFINE K == 0..N
  <2>1. Parted(K, parts) /\ Steps(step, K, parts, AllPatterns)
    BY <1>6, <1>8
  <2>. HIDE DEF K
  <2>2. \E f \in [K -> AllPatterns] : \A k \in K : f[k] = step[k][f]
    BY <1>7, <2>1, RecursionOverParts
  <2>. QED  BY <2>2 DEF K
<1>10. AreUpTo(groups, f)
  BY <1>3, <1>9 DEF AreUpTo, N
<1>. QED  BY <1>10 DEF UpTo

LEMMA UpToGrows ==
  ASSUME NEW groups \in PatternMaps
  PROVE  /\ UpTo(groups)[0] = <<>>
         /\ \A k \in 1..Len(CategoryNames) : UpTo(groups)[k] = UpTo(groups)[k - 1] \o groups[CategoryNames[k]]
         /\ \A k \in 0..Len(CategoryNames) : UpTo(groups)[k] \in AllPatterns
<1>. DEFINE N == Len(CategoryNames)
            u == UpTo(groups)
            Bad == {k \in 0..N : u[k] \notin AllPatterns}
<1>0. N \in Nat /\ \A k \in 1..N : groups[CategoryNames[k]] \in AllPatterns
  BY CategoriesOf, GroupsTyped
<1>1. u = [k \in 0..N |-> UpToStep(groups, k, u)]
  BY UpToExist DEF AreUpTo
<1>. HIDE DEF u, N
<1>2. \A k \in 0..N : u[k] = UpToStep(groups, k, u)
  BY <1>1
<1>3. u[0] = <<>>
  BY <1>0, <1>2 DEF UpToStep
<1>4. ASSUME NEW k \in 1..N PROVE u[k] = u[k - 1] \o groups[CategoryNames[k]]
  <2>1. k \in 0..N /\ k # 0
    BY <1>0
  <2>. QED  BY <1>2, <2>1 DEF UpToStep
<1>5. ASSUME Bad # {} PROVE FALSE
  <2>1. Bad \in SUBSET Nat
    BY <1>0
  <2>2. PICK k \in Bad : \A j \in Bad : k <= j
    <3>. HIDE DEF Bad
    <3>. QED  BY <1>5, <2>1, MinIn
  <2>3. k # 0
    <3>1. <<>> \in AllPatterns
      BY DEF AllPatterns
    <3>. QED  BY <1>3, <3>1
  <2>4. k \in 1..N /\ k - 1 \in 0..N /\ ~(k <= k - 1)
    BY <1>0, <2>3
  <2>5. k - 1 \notin Bad
    <3>. HIDE DEF Bad
    <3>. QED  BY <2>2, <2>4
  <2>6. u[k - 1] \in AllPatterns /\ groups[CategoryNames[k]] \in AllPatterns
    BY <1>0, <2>4, <2>5
  <2>7. u[k - 1] \o groups[CategoryNames[k]] \in AllPatterns
    BY <2>6, ConcatProperties DEF AllPatterns
  <2>. QED  BY <1>4, <2>4, <2>7
<1>. QED  BY <1>3, <1>4, <1>5 DEF u, N

\* The patterns of a category stand behind those of the categories before it.
LEMMA UpToKeeps ==
  ASSUME NEW groups \in PatternMaps, NEW k \in 1..Len(CategoryNames)
  PROVE  /\ Len(UpTo(groups)[k - 1]) \in Nat /\ Len(groups[CategoryNames[k]]) \in Nat
         /\ Len(UpTo(groups)[k - 1]) + Len(groups[CategoryNames[k]]) <= Len(UpTo(groups)[Len(CategoryNames)])
         /\ \A i \in 1..Len(groups[CategoryNames[k]]) :
              UpTo(groups)[Len(CategoryNames)][Len(UpTo(groups)[k - 1]) + i] = groups[CategoryNames[k]][i]
<1>. DEFINE N == Len(CategoryNames)
            u == UpTo(groups)
            own == groups[CategoryNames[k]]
            b == Len(u[k - 1])
            Good(n) == b + Len(own) <= Len(u[n]) /\ \A i \in 1..Len(own) : u[n][b + i] = own[i]
            F == {d \in Nat : k + d <= N => Good(k + d)}
<1>0. N \in Nat /\ k \in 1..N /\ k - 1 \in 0..N /\ k \in Nat
  BY CategoriesOf
<1>1. /\ \A n \in 1..N : u[n] = u[n - 1] \o groups[CategoryNames[n]]
      /\ \A n \in 0..N : u[n] \in AllPatterns
      /\ \A n \in 1..N : groups[CategoryNames[n]] \in AllPatterns
  BY UpToGrows, CategoriesOf, GroupsTyped
<1>. HIDE DEF N, u
<1>2. u[k - 1] \in AllPatterns /\ own \in AllPatterns /\ u[k] = u[k - 1] \o own
  BY <1>0, <1>1
<1>. HIDE DEF own
<1>3. b \in Nat /\ Len(own) \in Nat
  BY <1>2, LenProperties DEF AllPatterns
<1>4. Len(u[k]) = b + Len(own) /\ \A i \in 1..b + Len(own) : u[k][i] = IF i <= b THEN u[k - 1][i] ELSE own[i - b]
  BY <1>2, ConcatProperties DEF AllPatterns
<1>. HIDE DEF b
<1>5. Good(k)
  <2>1. ASSUME NEW i \in 1..Len(own) PROVE u[k][b + i] = own[i]
    <3>1. b + i \in 1..b + Len(own) /\ ~(b + i <= b) /\ (b + i) - b = i
      BY <1>3
    <3>. QED  BY <1>4, <3>1
  <2>. QED  BY <1>3, <1>4, <2>1
<1>6. ASSUME NEW n \in 1..N, n - 1 \in 0..N, Good(n - 1) PROVE Good(n)
  <2>. DEFINE more == groups[CategoryNames[n]]
  <2>1. u[n - 1] \in AllPatterns /\ more \in AllPatterns /\ u[n] = u[n - 1] \o more
    BY <1>1, <1>6
  <2>. HIDE DEF more
  <2>2. Len(u[n - 1]) \in Nat /\ Len(more) \in Nat
    BY <2>1, LenProperties DEF AllPatterns
  <2>3. Len(u[n]) = Len(u[n - 1]) + Len(more)
        /\ \A i \in 1..Len(u[n - 1]) + Len(more) : u[n][i] = IF i <= Len(u[n - 1]) THEN u[n - 1][i] ELSE more[i - Len(u[n - 1])]
    BY <2>1, ConcatProperties DEF AllPatterns
  <2>4. ASSUME NEW i \in 1..Len(own) PROVE u[n][b + i] = own[i]
    <3>1. b + i <= Len(u[n - 1])
      BY <1>3, <1>6, <2>2
    <3>2. b + i \in 1..Len(u[n - 1]) + Len(more)
      BY <1>3, <2>2, <3>1
    <3>. QED  BY <1>6, <2>3, <3>1, <3>2
  <2>5. b + Len(own) <= Len(u[n])
    BY <1>3, <1>6, <2>2, <2>3
  <2>. QED  BY <2>4, <2>5
<1>. HIDE DEF Good
<1>7. 0 \in F
  <2>1. k + 0 = k
    BY <1>0
  <2>. QED  BY <1>5, <2>1
<1>8. ASSUME NEW d \in Nat, d \in F PROVE d + 1 \in F
  <2>. SUFFICES ASSUME k + (d + 1) <= N PROVE Good(k + (d + 1))
    OBVIOUS
  <2>1. k + d <= N /\ k + (d + 1) \in 1..N /\ (k + (d + 1)) - 1 = k + d /\ k + d \in 0..N
    BY <1>0
  <2>2. Good(k + d)
    BY <1>8, <2>1
  <2>. QED  BY <1>6, <2>1, <2>2
<1>. HIDE DEF F
<1>9. N - k \in F
  <2>1. N - k \in Nat
    BY <1>0
  <2>. QED  BY <1>7, <1>8, <2>1, NatSetInduction
<1>10. Good(N)
  <2>1. k + (N - k) = N /\ N <= N
    BY <1>0
  <2>. QED  BY <1>9, <2>1 DEF F
<1>11. b + Len(own) <= Len(u[N]) /\ \A i \in 1..Len(own) : u[N][b + i] = own[i]
  BY <1>10 DEF Good
<1>. QED  BY <1>3, <1>11 DEF b, own, u, N

LitsOf(all) == UNION {Need(all)[i] : i \in DOMAIN all}

GroupsMean(groups, all) ==
  /\ Pre!NewGroups(groups).litToPatterns = [l \in LitsOf(all) |-> {i \in DOMAIN all : l \in Need(all)[i]}]
  /\ Pre!NewGroups(groups).alwaysEval = [i \in DOMAIN all |-> Need(all)[i] = {}]
  /\ Pre!NewGroups(groups).spans = [name \in Pre!ToSet(CategoryNames) |->
       [start |-> Len(UpTo(groups)[At(name) - 1]), count |-> Len(groups[name])]]

LEMMA GroupsAre == ASSUME NEW groups PROVE GroupsMean(groups, UpTo(groups)[Len(CategoryNames)])
BY DEF GroupsMean, Pre!NewGroups, UpTo, AreUpTo, UpToStep, At, Need, LitsOf

\* The flag of a pattern that matches is up.
UpAt(f, n, j) == Len(f) = n /\ DOMAIN f = 1..n /\ f[j]

LEMMA MatchIsFlagged ==
  ASSUME NEW groups \in PatternMaps, NEW all \in AllPatterns, all = UpTo(groups)[Len(CategoryNames)],
         NEW t \in Seq(Pre!Runes), NEW j \in DOMAIN all, all[j] # NoRegex, Pre!Matches(all[j], t),
         Pre!CandidatesOf(Pre!NewGroups(groups), t) # Pre!Nil
  PROVE  UpAt(Pre!CandidatesOf(Pre!NewGroups(groups), t), Len(all), j)
<1>. DEFINE g == Pre!NewGroups(groups)
            flagged == Pre!CandidatesOf(g, t)
            hit == UNION {g.litToPatterns[l] : l \in Pre!IterOverlapping(DOMAIN g.litToPatterns, Pre!FoldForASCIISearch(t))}
<1>1. flagged = [i \in DOMAIN g.alwaysEval |-> g.alwaysEval[i] \/ i \in hit]
  BY DEF Pre!CandidatesOf
<1>2. /\ g.litToPatterns = [l \in LitsOf(all) |-> {i \in DOMAIN all : l \in Need(all)[i]}]
      /\ g.alwaysEval = [i \in DOMAIN all |-> Need(all)[i] = {}]
  <2>1. GroupsMean(groups, all)
    BY GroupsAre
  <2>. QED  BY <2>1 DEF GroupsMean
<1>. HIDE DEF g, flagged
<1>3. DOMAIN all = 1..Len(all) /\ Len(all) \in Nat /\ all[j] \in SyntaxTrees
  <2>1. DOMAIN all = 1..Len(all) /\ Len(all) \in Nat
    BY LenProperties DEF AllPatterns
  <2>2. all[j] \in SyntaxTrees \cup {NoRegex}
    BY <2>1, ElementOfSeq DEF AllPatterns
  <2>. QED  BY <2>1, <2>2
<1>4. Need(all)[j] = Pre!Required(all[j])
  BY DEF Need
<1>5. ASSUME Need(all)[j] # {} PROVE j \in hit
  <2>1. PICK l \in Need(all)[j] : Pre!ToSet(l) \subseteq Pre!Ascii /\ Holds(t, 0, Len(t), l)
    BY <1>3, <1>4, <1>5, MatchesHoldRequired
  <2>2. l \in LitsOf(all) /\ j \in g.litToPatterns[l]
    BY <1>2, <2>1 DEF LitsOf
  <2>3. l \in DOMAIN g.litToPatterns
    BY <1>2, <2>2
  <2>4. l \in Pre!IterOverlapping(DOMAIN g.litToPatterns, Pre!FoldForASCIISearch(t))
    BY <2>1, <2>3, SearchFinds
  <2>. QED  BY <2>2, <2>4
<1>. HIDE DEF hit
<1>6. DOMAIN g.alwaysEval = 1..Len(all) /\ (Need(all)[j] = {} => g.alwaysEval[j])
  BY <1>2, <1>3
<1>7. flagged = [i \in 1..Len(all) |-> g.alwaysEval[i] \/ i \in hit]
  BY <1>1, <1>6
<1>8. Len(flagged) = Len(all) /\ DOMAIN flagged = 1..Len(all)
  BY <1>3, <1>7
<1>9. flagged[j] = (g.alwaysEval[j] \/ j \in hit)
  BY <1>3, <1>7
<1>. QED  BY <1>5, <1>6, <1>8, <1>9 DEF UpAt, flagged, g

LEMMA MatchIsEvaluated ==
  ASSUME NEW groups \in PatternMaps, NEW t \in Seq(Pre!Runes), NEW name \in Pre!ToSet(CategoryNames),
         NEW i \in DOMAIN groups[name], groups[name][i] # NoRegex, Pre!Matches(groups[name][i], t)
  PROVE  Pre!Evaluates(Pre!Slice(Pre!NewGroups(groups), Pre!CandidatesOf(Pre!NewGroups(groups), t), name), Len(groups[name]), i)
<1>. DEFINE flagged == Pre!CandidatesOf(Pre!NewGroups(groups), t)
            own == groups[name]
            all == UpTo(groups)[Len(CategoryNames)]
            b == Len(UpTo(groups)[At(name) - 1])
            sp == Pre!NewGroups(groups).spans[name]
            slice == Pre!Slice(Pre!NewGroups(groups), flagged, name)
<1>1. sp = [start |-> b, count |-> Len(own)]
  <2>1. GroupsMean(groups, all)
    BY GroupsAre
  <2>. HIDE DEF all
  <2>. QED  BY <2>1 DEF GroupsMean
<1>2. slice = IF flagged = Pre!Nil \/ sp.count = 0 \/ sp.start + sp.count > Len(flagged) THEN Pre!Nil
              ELSE SubSeq(flagged, sp.start + 1, sp.start + sp.count)
  BY DEF Pre!Slice
<1>3. own \in AllPatterns /\ all \in AllPatterns
  <2>1. own \in AllPatterns
    BY GroupsTyped
  <2>2. \A k \in 0..Len(CategoryNames) : UpTo(groups)[k] \in AllPatterns
    BY UpToGrows
  <2>3. Len(CategoryNames) \in 0..Len(CategoryNames)
    BY CategoriesOf
  <2>. QED  BY <2>1, <2>2, <2>3
<1>4. b \in Nat /\ Len(own) \in Nat /\ b + Len(own) <= Len(all) /\ \A k \in 1..Len(own) : all[b + k] = own[k]
  <2>1. At(name) \in 1..Len(CategoryNames) /\ CategoryNames[At(name)] = name
    BY CategoriesOf
  <2>2. PICK k \in 1..Len(CategoryNames) : k = At(name) /\ CategoryNames[k] = name
    BY <2>1
  <2>3. /\ Len(UpTo(groups)[k - 1]) \in Nat /\ Len(groups[CategoryNames[k]]) \in Nat
        /\ Len(UpTo(groups)[k - 1]) + Len(groups[CategoryNames[k]]) <= Len(UpTo(groups)[Len(CategoryNames)])
        /\ \A n \in 1..Len(groups[CategoryNames[k]]) :
             UpTo(groups)[Len(CategoryNames)][Len(UpTo(groups)[k - 1]) + n] = groups[CategoryNames[k]][n]
    BY UpToKeeps
  <2>4. /\ b = Len(UpTo(groups)[k - 1]) /\ own = groups[CategoryNames[k]]
        /\ all = UpTo(groups)[Len(CategoryNames)]
    BY <2>2
  <2>. HIDE DEF b, own, all
  <2>. QED  BY <2>3, <2>4
<1>5. DOMAIN own = 1..Len(own) /\ DOMAIN all = 1..Len(all) /\ Len(all) \in Nat
  BY <1>3, LenProperties DEF AllPatterns
<1>6. own[i] # NoRegex /\ Pre!Matches(own[i], t) /\ i \in DOMAIN own
  OBVIOUS
<1>11. all = UpTo(groups)[Len(CategoryNames)] /\ flagged = Pre!CandidatesOf(Pre!NewGroups(groups), t)
  OBVIOUS
<1>. HIDE DEF flagged, own, all, b, sp, slice
<1>7. CASE slice = Pre!Nil
  BY <1>7 DEF Pre!Evaluates, slice, flagged
<1>8. CASE slice # Pre!Nil
  <2>1. flagged # Pre!Nil /\ slice = SubSeq(flagged, b + 1, b + Len(own))
    BY <1>1, <1>2, <1>8
  <2>2. i \in 1..Len(own) /\ b + i \in 1..Len(all) /\ all[b + i] = own[i]
    BY <1>4, <1>5, <1>6
  <2>3. Len(flagged) = Len(all) /\ DOMAIN flagged = 1..Len(all) /\ flagged[b + i]
    <3>1. PICK j \in DOMAIN all : j = b + i
      BY <1>5, <2>2
    <3>2. all[j] # NoRegex /\ Pre!Matches(all[j], t)
      BY <1>6, <2>2, <3>1
    <3>3. Pre!CandidatesOf(Pre!NewGroups(groups), t) # Pre!Nil
      BY <1>11, <2>1
    <3>4. UpAt(Pre!CandidatesOf(Pre!NewGroups(groups), t), Len(all), j)
      BY <1>3, <1>11, <3>2, <3>3, MatchIsFlagged
    <3>. QED  BY <1>11, <3>1, <3>4 DEF UpAt
  <2>4. slice[i] = flagged[b + i]
    <3>. DEFINE V == {flagged[k] : k \in 1..Len(all)}
    <3>1. \A k \in (b + 1)..(b + Len(own)) : flagged[k] \in V
      BY <1>4, <1>5
    <3>. HIDE DEF V
    <3>2. b + 1 \in Int /\ b + Len(own) \in Int /\ (b + Len(own)) - (b + 1) + 1 = Len(own) /\ (b + 1) + i - 1 = b + i
      BY <1>4, <2>2
    <3>3. \A k \in 1..(b + Len(own)) - (b + 1) + 1 : slice[k] = flagged[(b + 1) + k - 1]
      BY <2>1, <3>1, <3>2, SubSeqProperties
    <3>4. slice[i] = flagged[(b + 1) + i - 1]
      BY <2>2, <3>2, <3>3
    <3>. QED  BY <3>2, <3>4
  <2>. QED  BY <2>3, <2>4 DEF Pre!Evaluates, slice, flagged
<1>. QED  BY <1>7, <1>8

\* What a behaviour of the prefilter has asked about, and what it was answered.
PreInv ==
  part = "prefilter" =>
    /\ patterns \in PatternMaps
    /\ \/ text = <<>> /\ flags = Pre!Nil
       \/ text \in Texts /\ flags = Pre!CandidatesOf(Pre!NewGroups(patterns), text)

LEMMA PreInit == ScanningInit => PreInv
BY DEF ScanningInit, PreInv, Pre!Init, Pre!Nil

LEMMA PreStep == PreInv /\ [ScanningNext]_<<part, vars, preVars, wafVars>> => PreInv'
<1>. SUFFICES ASSUME PreInv, [ScanningNext]_<<part, vars, preVars, wafVars>> PROVE PreInv'
  OBVIOUS
<1>1. CASE UNCHANGED <<part, preVars>>
  BY <1>1 DEF PreInv, preVars
<1>2. CASE part = "prefilter" /\ Pre!Next /\ UNCHANGED part
  BY <1>2 DEF PreInv, Pre!Next, Pre!Scan, Pre!NextText, Pre!Nil
<1>. QED  BY <1>1, <1>2 DEF ScanningNext

LEMMA PreMeans == PreInv => SkippedCannotMatch
<1>. SUFFICES ASSUME PreInv, part = "prefilter",
                     NEW name \in Pre!ToSet(CategoryNames), NEW i \in DOMAIN patterns[name],
                     patterns[name][i] # NoRegex, Pre!Matches(patterns[name][i], text)
              PROVE  Pre!Evaluates(Pre!Slice(Pre!NewGroups(patterns), flags, name), Len(patterns[name]), i)
  BY DEF SkippedCannotMatch, Pre!SkippedCannotMatch
<1>1. CASE flags = Pre!Nil
  BY <1>1 DEF Pre!Slice, Pre!Evaluates
<1>2. CASE text \in Texts /\ flags = Pre!CandidatesOf(Pre!NewGroups(patterns), text)
  <2>1. text \in Seq(Pre!Runes) /\ patterns \in PatternMaps
    BY <1>2, PrefilterAssumption DEF PreInv, Pre!TreesAssumption
  <2>. QED  BY <1>2, <2>1, MatchIsEvaluated
<1>. QED  BY <1>1, <1>2 DEF PreInv

\* A pattern the prefilter skips cannot match, for whatever patterns in whatever
\* categories and whatever text: of what is matched between two places every part of the
\* pattern matches a slice, the slice of the part the literals were taken from holds one
\* of them, and the search of the folded text does not miss it
\* (internal/literalextract).
THEOREM SkippedNeverMatch == ScanningSpec => []SkippedCannotMatch
<1>. QED  BY PreInit, PreStep, PreMeans, PTL DEF ScanningSpec
===============================================================================
