---------------------------- MODULE BehaviorProofs ----------------------------
(***************************************************************************)
(* An alert of the behavioral detector is about what its address did, as   *)
(* MCClients instantiates the detector: for any number of goroutines and   *)
(* addresses, whatever is asked and answered, and every threshold and      *)
(* window DetectorAssumption allows.  The lemmas on sequences, and on what *)
(* is newer than a cutoff, are those of the detectors' tables.             *)
(***************************************************************************)
EXTENDS ClientsProofs

-----------------------------------------------------------------------------
(* The behavioral detector: counting events.                               *)

\* Numbers moved by the same amount are as many.
LEMMA ShiftedCount ==
  ASSUME NEW S, IsFiniteSet(S), S \subseteq Int, NEW d \in Int, NEW T, T = {i + d : i \in S}
  PROVE  IsFiniteSet(T) /\ Cardinality(T) = Cardinality(S)
<1>. DEFINE f == [i \in S |-> i + d]
<1>1. f \in [S -> T]
  OBVIOUS
<1>2. \A i, j \in S : f[i] = f[j] => i = j
  <2>1. \A i, j \in S : i \in Int /\ j \in Int
    OBVIOUS
  <2>. QED  BY <2>1
<1>3. \A u \in T : \E i \in S : f[i] = u
  OBVIOUS
<1>4. f \in Bijection(S, T)
  <2>. HIDE DEF f
  <2>. QED  BY <1>1, <1>2, <1>3 DEF Bijection, Injection, Surjection, IsInjective
<1>5. ExistsBijection(S, T)
  BY <1>4 DEF ExistsBijection
<1>. QED  BY <1>5, FS_Bijection

Count(s, E) == Cardinality({i \in DOMAIN s : s[i] \in E})
Upto(s, n, E) == Cardinality({i \in 1..n : s[i] \in E})

LEMMA CountType ==
  ASSUME NEW T, NEW s \in Seq(T), NEW E
  PROVE  Count(s, E) \in Nat /\ IsFiniteSet({i \in DOMAIN s : s[i] \in E})
<1>1. IsFiniteSet(DOMAIN s) /\ {i \in DOMAIN s : s[i] \in E} \subseteq DOMAIN s
  BY SeqPlaces
<1>2. IsFiniteSet({i \in DOMAIN s : s[i] \in E})
  BY <1>1, FS_Subset
<1>. QED  BY <1>2, FS_CardinalityType DEF Count

LEMMA UptoType ==
  ASSUME NEW s, NEW n \in Nat, NEW E
  PROVE  Upto(s, n, E) \in Nat /\ IsFiniteSet({i \in 1..n : s[i] \in E})
<1>1. IsFiniteSet(1..n) /\ {i \in 1..n : s[i] \in E} \subseteq 1..n
  BY FS_Interval
<1>2. IsFiniteSet({i \in 1..n : s[i] \in E})
  BY <1>1, FS_Subset
<1>. QED  BY <1>2, FS_CardinalityType DEF Upto

LEMMA CountAppend ==
  ASSUME NEW T, NEW s \in Seq(T), NEW e \in T, NEW E
  PROVE  Count(Append(s, e), E) = Count(s, E) + IF e \in E THEN 1 ELSE 0
<1>. DEFINE k == Append(s, e)  n == Len(s) + 1
            A == {i \in DOMAIN s : s[i] \in E}  B == {i \in DOMAIN k : k[i] \in E}
<1>1. /\ DOMAIN k = DOMAIN s \cup {n} /\ n \notin DOMAIN s
      /\ \A i \in DOMAIN s : k[i] = s[i]
      /\ k[n] = e
  BY OneMore
<1>2. IsFiniteSet(A) /\ Cardinality(A) \in Nat
  BY CountType DEF Count
<1>. HIDE DEF k, n
<1>3. n \notin A
  BY <1>1
<1>4. CASE e \in E
  <2>1. B = A \cup {n}
    BY <1>1, <1>4
  <2>. HIDE DEF A, B
  <2>2. Cardinality(B) = Cardinality(A) + 1
    BY <1>2, <1>3, <2>1, FS_AddElement
  <2>. QED  BY <1>4, <2>2 DEF Count, A, B, k
<1>5. CASE e \notin E
  <2>1. B = A
    BY <1>1, <1>5
  <2>2. Count(s, E) = Cardinality(A) /\ Count(k, E) = Cardinality(B)
    BY DEF Count
  <2>. HIDE DEF A, B
  <2>. QED  BY <1>2, <1>5, <2>1, <2>2 DEF k
<1>. QED  BY <1>4, <1>5

\* What is counted up to a place, and behind it.
LEMMA UptoSplit ==
  ASSUME NEW s, NEW m \in Nat, NEW n \in Nat, m <= n, NEW E
  PROVE  Upto(s, n, E) = Upto(s, m, E) + Cardinality({i \in (m + 1)..n : s[i] \in E})
<1>. DEFINE A == {i \in 1..m : s[i] \in E}  B == {i \in (m + 1)..n : s[i] \in E}
            C == {i \in 1..n : s[i] \in E}
<1>1. C = A \cup B /\ A \cap B = {} /\ B \subseteq C
  OBVIOUS
<1>2. IsFiniteSet(A) /\ IsFiniteSet(C)
  BY UptoType
<1>. HIDE DEF A, B, C
<1>3. IsFiniteSet(B)
  BY <1>1, <1>2, FS_Subset
<1>4. Cardinality(A \cup B) = Cardinality(A) + Cardinality(B) - Cardinality(A \cap B)
  BY <1>2, <1>3, FS_Union
<1>5. Cardinality(A \cap B) = 0 /\ Cardinality(A) \in Nat /\ Cardinality(B) \in Nat
  BY <1>1, <1>2, <1>3, FS_EmptySet, FS_CardinalityType
<1>6. Cardinality(C) = Cardinality(A) + Cardinality(B)
  BY <1>1, <1>4, <1>5
<1>. QED  BY <1>6 DEF Upto, A, B, C

\* A part of a list counts what is at its places.
IsPart(v, s, m, n) ==
  /\ m \in Nat /\ n \in Nat /\ m <= n
  /\ DOMAIN v = 1..(n - m) /\ \A i \in 1..(n - m) : v[i] = s[m + i]
LEMMA PartUpto ==
  ASSUME NEW s, NEW m, NEW n, NEW v, IsPart(v, s, m, n), NEW E
  PROVE  Upto(s, m, E) + Count(v, E) = Upto(s, n, E)
<1>. USE DEF IsPart
<1>. DEFINE A == {i \in DOMAIN v : v[i] \in E}  B == {i \in (m + 1)..n : s[i] \in E}
<1>1. n - m \in Nat /\ A \subseteq 1..(n - m)
  OBVIOUS
<1>2. IsFiniteSet(A)
  <2>1. IsFiniteSet(1..(n - m))
    BY <1>1, FS_Interval
  <2>. HIDE DEF A
  <2>. QED  BY <1>1, <2>1, FS_Subset
<1>3. A \subseteq Int
  OBVIOUS
<1>4. B = {i + m : i \in A}
  <2>1. ASSUME NEW j \in B PROVE j \in {i + m : i \in A}
    <3>1. j - m \in 1..(n - m) /\ m + (j - m) = j /\ (j - m) + m = j
      OBVIOUS
    <3>2. v[j - m] = s[j]
      BY <3>1
    <3>3. j - m \in A
      BY <3>1, <3>2
    <3>. HIDE DEF A
    <3>. QED  BY <3>1, <3>3
  <2>2. ASSUME NEW i \in A PROVE i + m \in B
    <3>1. i \in 1..(n - m) /\ v[i] = s[m + i] /\ m + i = i + m /\ i + m \in (m + 1)..n
      OBVIOUS
    <3>2. s[i + m] \in E
      BY <3>1
    <3>. QED  BY <3>1, <3>2
  <2>. HIDE DEF A, B
  <2>. QED  BY <2>1, <2>2
<1>5. Cardinality(B) = Cardinality(A)
  <2>1. m \in Int
    OBVIOUS
  <2>. HIDE DEF A, B
  <2>. QED  BY <1>2, <1>3, <1>4, <2>1, ShiftedCount
<1>6. Count(v, E) = Cardinality(B)
  BY <1>5 DEF Count
<1>7. Count(v, E) \in Nat
  <2>. HIDE DEF A
  <2>. QED  BY <1>2, FS_CardinalityType DEF Count, A
<1>. HIDE DEF A, B
<1>. QED  BY <1>6, UptoSplit DEF B

\* Written once more, one more of its kind is there at most, also if the place is new.
Writes(s, q, m, e) ==
  /\ m \in Nat /\ 1..m \subseteq DOMAIN s
  /\ q[m + 1] = e /\ \A i \in DOMAIN s : i # m + 1 => q[i] = s[i]
LEMMA UptoWrite ==
  ASSUME NEW s, NEW q, NEW m, NEW e, Writes(s, q, m, e), NEW n \in Nat, 1..n \subseteq DOMAIN s, NEW E
  PROVE  /\ Upto(q, n, E) <= Upto(s, n, E) + IF e \in E THEN 1 ELSE 0
         /\ Upto(q, m + 1, E) = Upto(s, m, E) + IF e \in E THEN 1 ELSE 0
<1>. USE DEF Writes
<1>. DEFINE A == {i \in 1..n : s[i] \in E}  B == {i \in 1..n : q[i] \in E}
            C == {i \in 1..m : s[i] \in E}  D == {i \in 1..(m + 1) : q[i] \in E}
<1>1. IsFiniteSet(A) /\ IsFiniteSet(C) /\ Cardinality(A) \in Nat /\ Cardinality(C) \in Nat
  <2>1. IsFiniteSet(A) /\ IsFiniteSet(C)
    BY UptoType
  <2>. HIDE DEF A, C
  <2>. QED  BY <2>1, FS_CardinalityType
<1>2. \A i \in 1..n : i # m + 1 => q[i] = s[i]
  OBVIOUS
<1>3. \A i \in 1..m : q[i] = s[i] /\ i # m + 1
  OBVIOUS
<1>4. IsFiniteSet(A \cup {m + 1}) /\ Cardinality(A \cup {m + 1}) <= Cardinality(A) + 1
  <2>. HIDE DEF A
  <2>1. m + 1 \in A => A \cup {m + 1} = A
    OBVIOUS
  <2>2. m + 1 \notin A => IsFiniteSet(A \cup {m + 1}) /\ Cardinality(A \cup {m + 1}) = Cardinality(A) + 1
    BY <1>1, FS_AddElement
  <2>. QED  BY <1>1, <2>1, <2>2
<1>5. CASE e \in E
  <2>1. B \subseteq A \cup {m + 1}
    BY <1>2
  <2>2. D = C \cup {m + 1} /\ m + 1 \notin C
    <3>1. 1..(m + 1) = (1..m) \cup {m + 1} /\ m + 1 \notin 1..m
      OBVIOUS
    <3>. QED  BY <1>3, <1>5, <3>1
  <2>. HIDE DEF A, B, C, D
  <2>3. Cardinality(B) <= Cardinality(A \cup {m + 1})
    BY <1>4, <2>1, FS_Subset
  <2>4. IsFiniteSet(B) /\ Cardinality(B) \in Nat /\ Cardinality(A \cup {m + 1}) \in Nat
    BY <1>4, <2>1, FS_Subset, FS_CardinalityType
  <2>5. Cardinality(D) = Cardinality(C) + 1
    BY <1>1, <2>2, FS_AddElement
  <2>6. Cardinality(B) <= Cardinality(A) + 1
    BY <1>1, <1>4, <2>3, <2>4
  <2>. QED  BY <1>5, <2>5, <2>6 DEF Upto, A, B, C, D
<1>6. CASE e \notin E
  <2>1. B \subseteq A
    BY <1>2, <1>6
  <2>2. D = C
    <3>1. 1..(m + 1) = (1..m) \cup {m + 1}
      OBVIOUS
    <3>. QED  BY <1>3, <1>6, <3>1
  <2>. HIDE DEF A, B, C, D
  <2>3. Cardinality(B) <= Cardinality(A)
    BY <1>1, <2>1, FS_Subset
  <2>. QED  BY <1>1, <1>6, <2>2, <2>3, FS_Subset, FS_CardinalityType DEF Upto, A, B, C, D
<1>. QED  BY <1>5, <1>6

-----------------------------------------------------------------------------
(* What the cleanup keeps of a list.                                       *)

Happened(l) == {l[i] : i \in DOMAIN l}

LEMMA HappenedAppend ==
  ASSUME NEW T, NEW l \in Seq(T), NEW e \in T
  PROVE  Happened(Append(l, e)) = Happened(l) \cup {e}
<1>. DEFINE k == Append(l, e)
<1>1. /\ DOMAIN k = DOMAIN l \cup {Len(l) + 1}
      /\ \A i \in DOMAIN l : k[i] = l[i]
      /\ k[Len(l) + 1] = e
  BY OneMore
<1>. HIDE DEF k
<1>. QED  BY <1>1 DEF Happened, k

LEMMA NewerSame == ASSUME NEW s, NEW cutoff PROVE Behavior!Newer(s, cutoff) = Tables!Newer(s, cutoff)
BY DEF Behavior!Newer, Tables!Newer

\* It adds nothing, of whatever kind.
LEMMA NewerFewer ==
  ASSUME NEW T, NEW s \in Seq(T), NEW cutoff
  PROVE  LET k == Behavior!Newer(s, cutoff)
         IN  /\ k \in Seq(T) /\ Len(k) <= Len(s) /\ Happened(k) \subseteq Happened(s)
             /\ \A E : Count(k, E) <= Count(s, E)
<1>. DEFINE New(l) == Tables!Newer(l, cutoff)
            Fewer(l) == /\ New(l) \in Seq(T) /\ Len(New(l)) <= Len(l) /\ Happened(New(l)) \subseteq Happened(l)
                        /\ \A E : Count(New(l), E) <= Count(l, E)
            F == {l \in Seq(T) : Fewer(l)}
<1>1. <<>> \in F
  <2>1. New(<<>>) = <<>> /\ <<>> \in Seq(T)
    BY NewerEmpty
  <2>2. \A E : Count(<<>>, E) \in Nat
    BY <2>1, CountType
  <2>3. \A E : Count(<<>>, E) <= Count(<<>>, E)
    BY <2>2
  <2>4. Len(<<>>) <= Len(<<>>)
    OBVIOUS
  <2>. HIDE DEF New
  <2>. QED  BY <2>1, <2>3, <2>4
<1>2. ASSUME NEW l \in Seq(T), NEW e \in T, l \in F PROVE Append(l, e) \in F
  <2>. DEFINE k == New(l)  m == Append(l, e)
  <2>1. New(m) = IF e.at > cutoff THEN Append(k, e) ELSE k
    BY NewerAppend
  <2>2. m \in Seq(T) /\ Len(m) = Len(l) + 1 /\ Len(l) \in Nat
    OBVIOUS
  <2>3. Happened(m) = Happened(l) \cup {e} /\ \A E : Count(m, E) = Count(l, E) + IF e \in E THEN 1 ELSE 0
    BY HappenedAppend, CountAppend
  <2>4. k \in Seq(T) /\ Len(k) <= Len(l) /\ Happened(k) \subseteq Happened(l)
    BY <1>2
  <2>5. \A E : Count(k, E) <= Count(l, E)
    BY <1>2
  <2>6. \A E : Count(k, E) \in Nat /\ Count(l, E) \in Nat
    BY <2>4, CountType
  <2>. HIDE DEF New, k, m
  <2>7. CASE e.at > cutoff
    <3>. DEFINE a == Append(k, e)
    <3>1. a \in Seq(T) /\ Len(a) = Len(k) + 1 /\ Len(k) \in Nat
      BY <2>4
    <3>2. Happened(a) = Happened(k) \cup {e} /\ \A E : Count(a, E) = Count(k, E) + IF e \in E THEN 1 ELSE 0
      BY <2>4, HappenedAppend, CountAppend
    <3>3. New(m) = a
      BY <2>1, <2>7
    <3>. HIDE DEF a
    <3>4. ASSUME NEW E PROVE Count(a, E) <= Count(m, E)
      BY <2>3, <2>5, <2>6, <3>2
    <3>5. Len(a) <= Len(m) /\ Happened(a) \subseteq Happened(m)
      BY <2>2, <2>3, <2>4, <3>1, <3>2
    <3>6. Fewer(m)
      BY <3>1, <3>3, <3>4, <3>5
    <3>. QED  BY <2>2, <3>6 DEF m
  <2>8. CASE ~(e.at > cutoff)
    <3>1. New(m) = k
      BY <2>1, <2>8
    <3>2. ASSUME NEW E PROVE Count(k, E) <= Count(m, E)
      BY <2>3, <2>5, <2>6
    <3>3. Len(k) \in Nat
      BY <2>4
    <3>4. Len(k) <= Len(m) /\ Happened(k) \subseteq Happened(m)
      BY <2>2, <2>3, <2>4, <3>3
    <3>5. Fewer(m)
      BY <2>4, <3>1, <3>2, <3>4
    <3>. QED  BY <2>2, <3>5 DEF m
  <2>. QED  BY <2>7, <2>8
<1>3. s \in F
  <2>. HIDE DEF F
  <2>. QED  BY <1>1, <1>2, SeqSetInduction
<1>. QED  BY <1>3, NewerSame

Sorted(s) == \A i, j \in DOMAIN s : i <= j => s[i].at <= s[j].at
Dates(T) == \A e \in T : e.at \in Int

\* Of a list in the order of time it keeps the end.
LEMMA NewerEnd ==
  ASSUME NEW T, Dates(T), NEW s \in Seq(T), NEW cutoff \in Int, Sorted(s)
  PROVE  LET k == Behavior!Newer(s, cutoff)  d == Len(s) - Len(k)
         IN  /\ d \in Nat
             /\ \A i \in 1..Len(k) : k[i] = s[d + i]
             /\ \A i \in 1..d : s[i].at <= cutoff
<1>. DEFINE New(l) == Tables!Newer(l, cutoff)
            Ends(l) == LET k == New(l)  d == Len(l) - Len(k)
                       IN  /\ d \in Nat
                           /\ \A i \in 1..Len(k) : k[i] = l[d + i]
                           /\ \A i \in 1..d : l[i].at <= cutoff
            F == {l \in Seq(T) : Sorted(l) => Ends(l)}
<1>1. <<>> \in F
  <2>1. New(<<>>) = <<>> /\ <<>> \in Seq(T)
    BY NewerEmpty
  <2>. HIDE DEF New
  <2>2. Ends(<<>>)
    BY <2>1
  <2>. HIDE DEF Ends
  <2>. QED  BY <2>1, <2>2
<1>2. ASSUME NEW l \in Seq(T), NEW e \in T, l \in F PROVE Append(l, e) \in F
  <2>. DEFINE k == New(l)  m == Append(l, e)  n == Len(l)
  <2>1. /\ m \in Seq(T) /\ Len(m) = n + 1 /\ n \in Nat /\ m[n + 1] = e
        /\ DOMAIN l = 1..n /\ DOMAIN m = 1..(n + 1)
        /\ \A i \in 1..n : m[i] = l[i] /\ l[i] \in T
    BY OneMore
  <2>2. SUFFICES ASSUME Sorted(m) PROVE Ends(m)
    <3>. HIDE DEF Ends, m
    <3>. QED  BY <2>1, <2>2 DEF m
  <2>3. New(m) = IF e.at > cutoff THEN Append(k, e) ELSE k
    BY NewerAppend
  <2>4. Sorted(l)
    <3>. HIDE DEF m, n
    <3>. QED  BY <2>1, <2>2 DEF Sorted
  <2>5. Ends(l)
    <3>. HIDE DEF Ends
    <3>. QED  BY <1>2, <2>4
  <2>6. k \in Seq(T)
    BY NewerType
  <2>7. CASE e.at > cutoff
    <3>. DEFINE a == Append(k, e)
    <3>1. /\ Len(a) = Len(k) + 1 /\ Len(k) \in Nat /\ a[Len(k) + 1] = e
          /\ \A i \in 1..Len(k) : a[i] = k[i]
      BY <2>6
    <3>2. New(m) = a
      BY <2>3, <2>7
    <3>. HIDE DEF a, k, m, n, New
    <3>3. n - Len(k) \in Nat /\ (n + 1) - Len(a) = n - Len(k)
      BY <2>1, <2>5, <3>1 DEF k, n
    <3>4. \A i \in 1..Len(k) : k[i] = l[n - Len(k) + i]
      BY <2>5 DEF k, n
    <3>5. \A i \in 1..(n - Len(k)) : l[i].at <= cutoff
      BY <2>5 DEF k, n
    <3>6. ASSUME NEW i \in 1..Len(a) PROVE a[i] = m[n - Len(k) + i]
      <4>1. CASE i <= Len(k)
        <5>1. i \in 1..Len(k) /\ n - Len(k) + i \in 1..n
          BY <2>1, <3>1, <3>3, <4>1
        <5>. QED  BY <2>1, <3>1, <3>4, <5>1
      <4>2. CASE ~(i <= Len(k))
        <5>1. i = Len(k) + 1 /\ n - Len(k) + i = n + 1
          BY <2>1, <3>1, <3>3, <4>2
        <5>. QED  BY <2>1, <3>1, <5>1
      <4>. QED  BY <4>1, <4>2
    <3>7. ASSUME NEW i \in 1..(n - Len(k)) PROVE m[i].at <= cutoff
      <4>1. i \in 1..n
        BY <2>1, <3>1, <3>3
      <4>. QED  BY <2>1, <3>5, <4>1
    <3>. QED  BY <2>1, <3>2, <3>3, <3>6, <3>7
  <2>8. CASE ~(e.at > cutoff)
    <3>1. ASSUME NEW i \in DOMAIN m PROVE ~(m[i].at > cutoff) /\ m[i].at <= cutoff
      <4>1. i <= n + 1 /\ n + 1 \in DOMAIN m /\ i \in 1..(n + 1)
        BY <2>1
      <4>2. m[i].at <= e.at
        <5>. HIDE DEF m, n
        <5>. QED  BY <2>1, <2>2, <4>1 DEF Sorted
      <4>3. m[i] \in T /\ e \in T
        <5>. HIDE DEF m, n
        <5>. QED  BY <2>1
      <4>4. m[i].at \in Int /\ e.at \in Int
        BY <4>3 DEF Dates
      <4>. HIDE DEF m, n
      <4>. QED  BY <2>8, <4>2, <4>4
    <3>2. New(m) = <<>>
      <4>. HIDE DEF m, n
      <4>. QED  BY <2>1, <3>1, NewerNone
    <3>. HIDE DEF m, n, New
    <3>. QED  BY <2>1, <3>1, <3>2
  <2>. QED  BY <2>7, <2>8
<1>3. s \in F
  <2>. HIDE DEF F
  <2>. QED  BY <1>1, <1>2, SeqSetInduction
<1>4. Ends(s)
  <2>. HIDE DEF Ends
  <2>. QED  BY <1>3
<1>. QED  BY <1>4, NewerSame

\* Of some numbers up to a limit one is the greatest.
LEMMA GreatestExists ==
  ASSUME NEW n \in Nat, NEW S, S \subseteq 1..n, S # {}
  PROVE  \E m \in S : \A i \in S : i <= m
<1>. DEFINE F == {k \in Nat : \A R \in SUBSET (1..k) : R # {} => \E m \in R : \A i \in R : i <= m}
<1>1. 0 \in F
  <2>1. 1..0 = {}
    OBVIOUS
  <2>2. \A R \in SUBSET (1..0) : R = {}
    BY <2>1
  <2>. QED  BY <2>2
<1>2. ASSUME NEW k \in Nat, k \in F PROVE k + 1 \in F
  <2>1. ASSUME NEW R \in SUBSET (1..(k + 1)), R # {} PROVE \E m \in R : \A i \in R : i <= m
    <3>1. CASE k + 1 \in R
      BY <3>1
    <3>2. CASE k + 1 \notin R
      <4>1. R \in SUBSET (1..k)
        BY <3>2
      <4>. QED  BY <1>2, <2>1, <4>1
    <3>. QED  BY <3>1, <3>2
  <2>. QED  BY <2>1
<1>3. n \in F
  <2>. HIDE DEF F
  <2>. QED  BY <1>1, <1>2, NatSetInduction
<1>. QED  BY <1>3

-----------------------------------------------------------------------------
(* The behavioral detector: the invariant.                                 *)

SessionNames == {r.session : r \in Answers} \ {None}
Happenings == [at : Nat, path : Behavior!Paths, status : Behavior!Statuses, session : SessionNames \cup {None}]
Sessions == [id : SessionNames, at : Nat]
Profiles ==
  {p \in [slots : Seq(Happenings), from : Nat, to : Nat, sessions : SUBSET Sessions, lastSeen : Nat] :
     p.from <= p.to /\ p.to <= Len(p.slots)}

Serves(t, ip) == Behavior!Serving(t, ip)
Sweeps(ip) == cleaner.pc # "idle" /\ cleaner.ip = ip
Filters(ip) == cleaner.pc = "filter" /\ cleaner.ip = ip

Analyzing == {"append", "record", "detect", "errors", "alert"}
AnalysisTyped(r) ==
  \/ r = Behavior!Idle
  \/ /\ r.pc \in Analyzing /\ r.ip \in Visitors /\ r.id \in DOMAIN heap /\ r.event \in Happenings
     /\ r.pc = "record" => /\ r.header.from \in Nat /\ r.header.to \in Nat
                           /\ r.header.from <= r.header.to /\ r.header.to <= Len(heap[r.id].slots)
     /\ r.pc = "errors" => r.total \in Nat

CleanerTyped ==
  \/ cleaner = Behavior!Idle
  \/ cleaner.pc = "delete" /\ cleaner.ip \in Visitors
  \/ /\ cleaner.pc = "filter" /\ cleaner.ip \in Visitors /\ cleaner.id \in DOMAIN heap
     /\ cleaner.from \in Nat /\ cleaner.kept \in Seq(Happenings)
     /\ cleaner.from + Len(cleaner.kept) <= Len(heap[cleaner.id].slots)

BehaviorTyped ==
  /\ now \in Nat /\ night \in BOOLEAN
  /\ profiles \in [Visitors -> Nat \cup {None}]
  /\ heap \in Seq(Profiles)
  /\ events \in [Visitors -> Seq(Happenings)]
  /\ single \in [Visitors -> BOOLEAN] /\ swept \in [Visitors -> BOOLEAN]
  /\ req = [t \in Threads |-> req[t]] /\ \A t \in Threads : AnalysisTyped(req[t])
  /\ CleanerTyped
  /\ \A ip \in Visitors : profiles[ip] # None => profiles[ip] \in DOMAIN heap

\* A profile is one address's: the one whose it is in the table, whose request has
\* it, or whose it is that the cleanup filters.
HoldsProfile(ip, i) ==
  \/ profiles[ip] = i
  \/ \E t \in Threads : Serves(t, ip) /\ req[t].id = i
  \/ Filters(ip) /\ cleaner.id = i
ProfilesOwned ==
  \A ip, jp \in Visitors : \A i \in DOMAIN heap : HoldsProfile(ip, i) /\ HoldsProfile(jp, i) => ip = jp

\* What happened of an address is in the order of time.
Dated(l) ==
  /\ \A i \in DOMAIN l : l[i].at <= now
  /\ \A i, j \in DOMAIN l : i <= j => l[i].at <= l[j].at

\* Whatever a profile says, happened.
SessionsTrue(ss, l) ==
  /\ \A s \in ss : \E i \in DOMAIN l : l[i].session = s.id /\ l[i].at = s.at
  /\ \A s, u \in ss : s.id = u.id => s = u
Genuine(ip) ==
  LET l == events[ip]
  IN  /\ \A i \in DOMAIN heap : HoldsProfile(ip, i) =>
           /\ \A j \in DOMAIN heap[i].slots : heap[i].slots[j] \in Happened(l)
           /\ SessionsTrue(heap[i].sessions, l)
      /\ \A t \in Threads : Serves(t, ip) => req[t].event \in Happened(l)
      /\ Filters(ip) => \A j \in DOMAIN cleaner.kept : cleaner.kept[j] \in Happened(l)

\* Of any kind of event, a slice shows no more than happened, with those counted
\* apart that are not in it yet; but for the address whose requests a cleanup met.
Unwritten(ip, E) == {t \in Threads : Serves(t, ip) /\ req[t].pc \in {"append", "record"} /\ req[t].event \in E}
NoMore(ip, E) ==
  LET most == Count(events[ip], E) - Cardinality(Unwritten(ip, E))
  IN  /\ 0 <= most
      /\ \A i \in DOMAIN heap : HoldsProfile(ip, i) => Upto(heap[i].slots, heap[i].to, E) <= most
      /\ \A t \in Threads : Serves(t, ip) /\ req[t].pc = "record" =>
           Upto(heap[req[t].id].slots, req[t].header.to, E) <= most
      /\ Filters(ip) => Upto(heap[cleaner.id].slots, cleaner.from, E) + Count(cleaner.kept, E) <= most
Kinds == SUBSET Happenings
Tallied(ip) ==
  ~swept[ip] =>
    /\ \A E \in Kinds : NoMore(ip, E)
    /\ Sweeps(ip) => \A t \in Threads : ~Serves(t, ip)

Warned(ip) == \A t \in Threads : Serves(t, ip) /\ req[t].pc = "alert" => Behavior!Earned(ip, req[t].alert.name)

\* What at a time the profile of an address says whose requests come one by one.
Gone(l, x) == \A i \in DOMAIN l : l[i].at <= x - LongWindow
Shows(p, l, x) ==
  LET n == p.to - p.from  d == Len(l) - n
  IN  /\ n <= MaxTrackedEvents /\ n <= Len(l)
      /\ \A i \in 1..n : p.slots[p.from + i] = l[d + i]
      /\ n = MaxTrackedEvents \/ \A i \in 1..d : l[i].at <= x - LongWindow
LastOf(l, s) ==
  /\ \E i \in DOMAIN l : l[i].session = s.id /\ l[i].at = s.at
  /\ \A i \in DOMAIN l : l[i].session = s.id => l[i].at <= s.at
Recalls(p, l, x) ==
  /\ \A s \in p.sessions : LastOf(l, s)
  /\ \A i \in DOMAIN l : l[i].session # None /\ l[i].at >= x - SessionWindow =>
       \E s \in p.sessions : s.id = l[i].session
InStep(p, l, x) == Shows(p, l, x) /\ Recalls(p, l, x)
SeenLast(p, l) == l # <<>> /\ p.lastSeen = l[Len(l)].at

Rests(ip) ==
  LET l == events[ip]  p == heap[profiles[ip]]
  IN  IF profiles[ip] = None THEN Gone(l, now) ELSE InStep(p, l, now) /\ SeenLast(p, l)

Works(r) ==
  LET l == events[r.ip]  p == heap[r.id]
  IN  /\ profiles[r.ip] = r.id
      /\ l # <<>> /\ l[Len(l)] = r.event
      /\ IF r.pc \in {"append", "record"} THEN InStep(p, Before(l), now) ELSE InStep(p, l, now) /\ SeenLast(p, l)
      /\ r.pc = "record" => r.header = [from |-> p.from, to |-> p.to]
      /\ r.pc = "errors" =>
           /\ Behavior!First(Behavior!EarlierAlerts(Behavior!Latest(l), Behavior!Named(l), r.event))
                = Behavior!NoAlert
           /\ r.total = Behavior!countEvents(Behavior!Latest(l), MediumWindow, Behavior!Statuses, Behavior!Paths)
      /\ r.pc = "alert" => r.alert = Behavior!Called(r.ip, r.event)

Cleans(ip) ==
  LET p == heap[profiles[ip]]
  IN  /\ \A t \in Threads : ~Serves(t, ip)
      /\ profiles[ip] # None
      /\ cleaner.pc = "delete" => Gone(events[ip], now)
      /\ cleaner.pc = "filter" =>
           /\ cleaner.id = profiles[ip] /\ cleaner.from = p.from
           /\ cleaner.kept = Behavior!Newer(SubSeq(p.slots, p.from + 1, p.to), now - LongWindow)

Alone(ip) ==
  single[ip] =>
    /\ \A t, u \in Threads : Serves(t, ip) /\ Serves(u, ip) => t = u
    /\ (\A t \in Threads : ~Serves(t, ip)) => Rests(ip)
    /\ \A t \in Threads : Serves(t, ip) => Works(req[t])
    /\ Sweeps(ip) => Cleans(ip)

OfAddress(ip) == Dated(events[ip]) /\ Genuine(ip) /\ Tallied(ip) /\ Warned(ip) /\ Alone(ip)

BehaviorInv == BehaviorTyped /\ ProfilesOwned /\ \A ip \in Visitors : OfAddress(ip)

\* What the constants' assumption says.
LEMMA BehaviorConstants ==
  /\ CredentialStuffingThreshold \in Nat \ {0} /\ APIEnumerationThreshold \in Nat \ {0}
  /\ ScrapingThreshold \in Nat \ {0} /\ SuspiciousSessionThreshold \in Nat \ {0}
  /\ TemporalAnomalyThreshold \in Nat \ {0} /\ ErrorRateThreshold \in Nat \ {0}
  /\ MaxTrackedEvents \in Nat \ {0} /\ LongWindow \in Nat \ {0}
  /\ ShortWindow \in 0..(LongWindow - 1) /\ MediumWindow \in 0..(LongWindow - 1)
  /\ SessionWindow \in 0..(LongWindow - 1)
  /\ None \notin Nat /\ None \notin Visitors /\ None \notin Behavior!Names /\ IsFiniteSet(Threads)
  /\ \A r \in Answers : r.status \in Behavior!Statuses
<1>. USE BehaviorAssumption
<1>1. IsFiniteSet(Threads)
  BY DEF Behavior!DetectorAssumption, Behavior!IsFiniteSet, IsFiniteSet
<1>2. \A r \in Answers : r.status \in Behavior!Statuses
  BY DEF Behavior!DetectorAssumption, Behavior!Statuses
<1>. QED  BY <1>1, <1>2 DEF Behavior!DetectorAssumption

\* A step of one address's request, or of the cleanup at one address: it writes profiles
\* of that address, or new ones.
StepAt(c) ==
  /\ UNCHANGED <<now, night>>
  /\ \A u \in Threads : req'[u] = req[u] \/ \A d \in Visitors : d # c => ~Serves(u, d) /\ ~Serves(u, d)'
  /\ cleaner' = cleaner \/ \A d \in Visitors : d # c => ~Sweeps(d) /\ ~Sweeps(d)'
  /\ \A d \in Visitors : d # c =>
       profiles'[d] = profiles[d] /\ events'[d] = events[d] /\ single'[d] = single[d] /\ swept'[d] = swept[d]
  /\ heap' \in Seq(Profiles)
  /\ \A i \in DOMAIN heap : i \in DOMAIN heap' /\ (HoldsProfile(c, i) \/ heap'[i] = heap[i])
  /\ \A i \in DOMAIN heap' : HoldsProfile(c, i)' => HoldsProfile(c, i) \/ i \notin DOMAIN heap

\* What is in the table, or in hand, is in the heap.
LEMMA ProfileIsThere ==
  ASSUME BehaviorTyped, NEW d \in Visitors, NEW i, i # None, HoldsProfile(d, i)
  PROVE  i \in DOMAIN heap
<1>1. CASE profiles[d] = i
  BY <1>1 DEF BehaviorTyped
<1>2. CASE \E t \in Threads : Serves(t, d) /\ req[t].id = i
  <2>1. PICK t \in Threads : Serves(t, d) /\ req[t].id = i
    BY <1>2
  <2>2. AnalysisTyped(req[t]) /\ req[t] # Behavior!Idle
    BY <2>1 DEF BehaviorTyped, Serves, Behavior!Serving, Behavior!Idle
  <2>. QED  BY <2>1, <2>2 DEF AnalysisTyped
<1>3. CASE Filters(d) /\ cleaner.id = i
  <2>1. CleanerTyped /\ cleaner.pc = "filter" /\ cleaner # Behavior!Idle
    BY <1>3 DEF BehaviorTyped, Filters, Behavior!Idle
  <2>. QED  BY <1>3, <2>1 DEF CleanerTyped
<1>. QED  BY <1>1, <1>2, <1>3 DEF HoldsProfile

\* What a step at one address leaves of another's.
LEMMA AsideOf ==
  ASSUME BehaviorInv, NEW c \in Visitors, StepAt(c), NEW d \in Visitors, d # c
  PROVE  /\ \A u \in Threads : (Serves(u, d)' <=> Serves(u, d)) /\ (Serves(u, d) => req'[u] = req[u])
         /\ Sweeps(d)' <=> Sweeps(d)
         /\ Sweeps(d) => cleaner' = cleaner
         /\ Filters(d)' <=> Filters(d)
         /\ \A i : HoldsProfile(d, i)' <=> HoldsProfile(d, i)
         /\ \A i \in DOMAIN heap' : HoldsProfile(d, i)' => i \in DOMAIN heap
         /\ \A i \in DOMAIN heap : HoldsProfile(d, i) => i \in DOMAIN heap' /\ heap'[i] = heap[i]
<1>1. \A u \in Threads : (Serves(u, d)' <=> Serves(u, d)) /\ (Serves(u, d) => req'[u] = req[u])
  BY DEF StepAt, Serves, Behavior!Serving
<1>2. (Sweeps(d)' <=> Sweeps(d)) /\ (Sweeps(d) => cleaner' = cleaner)
  BY DEF StepAt, Sweeps
<1>3. Filters(d)' <=> Filters(d)
  BY <1>2 DEF Filters, Sweeps
<1>4. Filters(d) => cleaner' = cleaner
  BY <1>2 DEF Filters, Sweeps
<1>5. ASSUME NEW i PROVE HoldsProfile(d, i)' <=> HoldsProfile(d, i)
  <2>1. profiles'[d] = profiles[d]
    BY DEF StepAt
  <2>2. (\E t \in Threads : Serves(t, d)' /\ req'[t].id = i) <=> (\E t \in Threads : Serves(t, d) /\ req[t].id = i)
    BY <1>1
  <2>. QED  BY <1>3, <1>4, <2>1, <2>2 DEF HoldsProfile
<1>6. ASSUME NEW i \in DOMAIN heap', HoldsProfile(d, i)' PROVE i \in DOMAIN heap
  <2>1. i \in Nat
    BY DEF StepAt
  <2>2. i # None
    BY <2>1, BehaviorConstants
  <2>. QED  BY <1>5, <1>6, <2>2, ProfileIsThere DEF BehaviorInv
<1>7. ASSUME NEW i \in DOMAIN heap, HoldsProfile(d, i) PROVE i \in DOMAIN heap' /\ heap'[i] = heap[i]
  <2>1. ~HoldsProfile(c, i)
    BY <1>7 DEF BehaviorInv, ProfilesOwned
  <2>. QED  BY <2>1 DEF StepAt
<1>. QED  BY <1>1, <1>2, <1>3, <1>5, <1>6, <1>7

LEMMA ProfilesStayOwned ==
  ASSUME BehaviorInv, NEW c \in Visitors, StepAt(c)
  PROVE  ProfilesOwned'
<1>1. SUFFICES ASSUME NEW d \in Visitors, NEW f \in Visitors, NEW i \in DOMAIN heap',
                      HoldsProfile(d, i)', HoldsProfile(f, i)', d # f
               PROVE  FALSE
  BY DEF ProfilesOwned
<1>2. ASSUME NEW g \in Visitors, g # c, HoldsProfile(g, i)' PROVE HoldsProfile(g, i) /\ i \in DOMAIN heap
  BY <1>2, AsideOf
<1>3. ASSUME HoldsProfile(c, i)', i \in DOMAIN heap PROVE HoldsProfile(c, i)
  BY <1>3 DEF StepAt
<1>4. \A g, h \in Visitors : HoldsProfile(g, i) /\ HoldsProfile(h, i) /\ i \in DOMAIN heap => g = h
  BY DEF BehaviorInv, ProfilesOwned
<1>. QED  BY <1>1, <1>2, <1>3, <1>4

\* What an address calls for is told by the clock and its events alone.
CalledBy(l, e) ==
  Behavior!First(Append(Behavior!EarlierAlerts(Behavior!Latest(l), Behavior!Named(l), e),
    Behavior!detectErrorRate(Behavior!errorsOf(Behavior!Latest(l)),
      Behavior!countEvents(Behavior!Latest(l), MediumWindow, Behavior!Statuses, Behavior!Paths))))

LEMMA CallsByEvents == ASSUME NEW ip, NEW e PROVE Behavior!Called(ip, e) = CalledBy(events[ip], e)
BY DEF Behavior!Called, CalledBy

LEMMA SameTimeSameCalls ==
  ASSUME UNCHANGED <<now, night>>
  PROVE  /\ \A l, w, x, y : Behavior!countEvents(l, w, x, y)' = Behavior!countEvents(l, w, x, y)
         /\ \A l, ss, e : Behavior!EarlierAlerts(l, ss, e)' = Behavior!EarlierAlerts(l, ss, e)
         /\ \A l, e : CalledBy(l, e)' = CalledBy(l, e)
<1>1. \A l, w : Behavior!Since(l, w)' = Behavior!Since(l, w)
  BY DEF Behavior!Since
<1>2. \A l, w, x, y : Behavior!countEvents(l, w, x, y)' = Behavior!countEvents(l, w, x, y)
  BY <1>1 DEF Behavior!countEvents
<1>3. \A l, w, y : Behavior!uniquePaths(l, w, y)' = Behavior!uniquePaths(l, w, y)
  BY <1>1 DEF Behavior!uniquePaths
<1>4. \A l, e : Behavior!detectCredentialStuffing(l, e)' = Behavior!detectCredentialStuffing(l, e)
  BY <1>2 DEF Behavior!detectCredentialStuffing
<1>5. \A l : Behavior!detectAPIEnumeration(l)' = Behavior!detectAPIEnumeration(l)
  BY <1>3 DEF Behavior!detectAPIEnumeration
<1>6. \A l : Behavior!detectScraping(l)' = Behavior!detectScraping(l)
  BY <1>2, <1>3 DEF Behavior!detectScraping
<1>7. \A l : Behavior!detectTemporalAnomaly(l)' = Behavior!detectTemporalAnomaly(l)
  BY <1>2 DEF Behavior!detectTemporalAnomaly
<1>8. \A ss : Behavior!detectSessionAnomaly(ss)' = Behavior!detectSessionAnomaly(ss)
  BY DEF Behavior!detectSessionAnomaly
<1>9. \A l, ss, e : Behavior!EarlierAlerts(l, ss, e)' = Behavior!EarlierAlerts(l, ss, e)
  BY <1>4, <1>5, <1>6, <1>7, <1>8 DEF Behavior!EarlierAlerts
<1>10. \A l : Behavior!errorsOf(l)' = Behavior!errorsOf(l)
  BY <1>2 DEF Behavior!errorsOf
<1>11. \A l, e : CalledBy(l, e)' = CalledBy(l, e)
  BY <1>2, <1>9, <1>10 DEF CalledBy
<1>. QED  BY <1>2, <1>9, <1>11

\* The others are left as they are.
LEMMA AddressesStay ==
  ASSUME BehaviorInv, NEW c \in Visitors, StepAt(c)
  PROVE  \A d \in Visitors : d # c => OfAddress(d)'
<1>. SUFFICES ASSUME NEW d \in Visitors, d # c PROVE OfAddress(d)'
  OBVIOUS
<1>1. OfAddress(d) /\ BehaviorTyped
  BY DEF BehaviorInv
<1>2. /\ \A u \in Threads : (Serves(u, d)' <=> Serves(u, d)) /\ (Serves(u, d) => req'[u] = req[u])
      /\ Sweeps(d)' <=> Sweeps(d)
      /\ Sweeps(d) => cleaner' = cleaner
      /\ Filters(d)' <=> Filters(d)
  BY AsideOf
<1>3. \A i \in DOMAIN heap' : HoldsProfile(d, i)' => i \in DOMAIN heap /\ HoldsProfile(d, i) /\ heap'[i] = heap[i]
  BY AsideOf
<1>4. /\ profiles'[d] = profiles[d] /\ events'[d] = events[d] /\ single'[d] = single[d] /\ swept'[d] = swept[d]
      /\ now' = now /\ night' = night
  BY DEF StepAt
<1>5. \A i \in DOMAIN heap : HoldsProfile(d, i) => i \in DOMAIN heap' /\ heap'[i] = heap[i]
  BY AsideOf
<1>6. Filters(d) => Sweeps(d)
  BY DEF Filters, Sweeps
<1>7. \A u \in Threads : Serves(u, d) => req[u].id \in DOMAIN heap /\ heap'[req[u].id] = heap[req[u].id]
  <2>1. ASSUME NEW u \in Threads, Serves(u, d) PROVE req[u].id \in DOMAIN heap /\ HoldsProfile(d, req[u].id)
    <3>1. AnalysisTyped(req[u]) /\ req[u] # Behavior!Idle
      BY <1>1, <2>1 DEF BehaviorTyped, Serves, Behavior!Serving, Behavior!Idle
    <3>. QED  BY <2>1, <3>1 DEF AnalysisTyped, HoldsProfile
  <2>. QED  BY <1>5, <2>1
<1>8. Filters(d) => cleaner.id \in DOMAIN heap /\ heap'[cleaner.id] = heap[cleaner.id]
  <2>1. ASSUME Filters(d) PROVE cleaner.id \in DOMAIN heap /\ HoldsProfile(d, cleaner.id)
    <3>1. CleanerTyped /\ cleaner # Behavior!Idle /\ cleaner.pc = "filter"
      BY <1>1, <2>1 DEF BehaviorTyped, Filters, Behavior!Idle
    <3>. QED  BY <2>1, <3>1 DEF CleanerTyped, HoldsProfile
  <2>. QED  BY <1>5, <2>1
<1>9. Dated(events[d])'
  BY <1>1, <1>4 DEF OfAddress, Dated
<1>10. Genuine(d)'
  BY <1>1, <1>2, <1>3, <1>4, <1>6 DEF OfAddress, Genuine
<1>11. Tallied(d)'
  <2>1. ASSUME NEW E, NoMore(d, E) PROVE NoMore(d, E)'
    <3>1. Unwritten(d, E)' = Unwritten(d, E)
      BY <1>2 DEF Unwritten
    <3>. QED  BY <1>2, <1>3, <1>4, <1>6, <1>7, <1>8, <2>1, <3>1 DEF NoMore
  <2>2. swept'[d] = swept[d] /\ (Sweeps(d)' <=> Sweeps(d))
    BY <1>2, <1>4
  <2>3. Tallied(d)
    BY <1>1 DEF OfAddress
  <2>4. Kinds' = Kinds
    BY DEF Kinds, Happenings, SessionNames
  <2>. QED  BY <1>2, <2>1, <2>2, <2>3, <2>4 DEF Tallied
<1>12. Warned(d)'
  <2>1. ASSUME NEW n PROVE Behavior!Earned(d, n)' <=> Behavior!Earned(d, n)
    BY <1>4 DEF Behavior!Earned, Behavior!countEvents, Behavior!uniquePaths, Behavior!Since, Behavior!errorsOf
  <2>. QED  BY <1>1, <1>2, <2>1 DEF OfAddress, Warned
<1>13. Alone(d)'
  <2>1. Rests(d)' <=> Rests(d)
    <3>1. profiles[d] # None => heap'[profiles[d]] = heap[profiles[d]]
      BY <1>1, <1>5 DEF BehaviorTyped, HoldsProfile
    <3>. QED  BY <1>4, <3>1 DEF Rests
  <2>2. ASSUME NEW u \in Threads, Serves(u, d) PROVE Works(req[u])' <=> Works(req[u])
    <3>. DEFINE r == req[u]  p == heap[r.id]  l == events[d]
    <3>1. req'[u] = req[u] /\ r.ip = d /\ heap'[r.id] = p /\ profiles'[r.ip] = profiles[r.ip] /\ events'[r.ip] = l
      BY <1>2, <1>4, <1>7, <2>2 DEF Serves, Behavior!Serving
    <3>2. Behavior!Called(r.ip, r.event)' = Behavior!Called(r.ip, r.event)
      <4>1. Behavior!Called(r.ip, r.event)' = CalledBy(events[req[u].ip], req[u].event)'
        BY DEF Behavior!Called, CalledBy
      <4>. QED  BY <1>4, <3>1, <4>1, CallsByEvents, SameTimeSameCalls
    <3>. DEFINE NoneEarlier(v) == Behavior!First(Behavior!EarlierAlerts(Behavior!Latest(events[v.ip]), Behavior!Named(events[v.ip]), v.event))
                              = Behavior!NoAlert
                AllOf(v) == Behavior!countEvents(Behavior!Latest(events[v.ip]), MediumWindow, Behavior!Statuses, Behavior!Paths)
    <3>3. (NoneEarlier(req[u])' <=> NoneEarlier(req[u])) /\ AllOf(req[u])' = AllOf(req[u])
      BY <1>4, <3>1, SameTimeSameCalls
    <3>. QED  BY <1>4, <3>1, <3>2, <3>3 DEF Works
  <2>3. ASSUME Sweeps(d), Cleans(d) PROVE Cleans(d)'
    <3>. DEFINE i == profiles[d]  p == heap[i]
    <3>1. cleaner' = cleaner /\ profiles'[d] = i /\ events'[d] = events[d] /\ now' = now
      BY <1>2, <1>4, <2>3
    <3>2. i # None /\ heap'[i] = p
      <4>1. i # None
        BY <2>3 DEF Cleans
      <4>. QED  BY <1>1, <1>5, <4>1 DEF BehaviorTyped, HoldsProfile
    <3>3. (\A u \in Threads : ~Serves(u, d)) => \A u \in Threads : ~Serves(u, d)'
      BY <1>2
    <3>4. Gone(events[d], now)' <=> Gone(events[d], now)
      BY <3>1
    <3>. QED  BY <2>3, <3>1, <3>2, <3>3, <3>4 DEF Cleans
  <2>. QED  BY <1>1, <1>2, <1>4, <2>1, <2>2, <2>3 DEF OfAddress, Alone
<1>. QED  BY <1>9, <1>10, <1>11, <1>12, <1>13 DEF OfAddress

-----------------------------------------------------------------------------
(* The behavioral detector: what an analysis sees, and what it makes of it. *)

\* A set of numbers that is not empty has a least one.
LEMMA LeastExists ==
  ASSUME NEW S, S \subseteq Nat, S # {}
  PROVE  \E m \in S : \A i \in S : m <= i
<1>. DEFINE R == OpToRel(<, Nat)
<1>1. IsWellFoundedOn(R, Nat)
  BY NatLessThanWellFounded
<1>2. \A m, n \in Nat : m < n => <<m, n>> \in R
  BY DEF OpToRel
<1>. HIDE DEF R
<1>3. PICK m \in S : \A i \in S : <<i, m>> \notin R
  BY <1>1, WFMin
<1>4. ASSUME NEW i \in S PROVE m <= i
  <2>1. ~(i < m)
    BY <1>2, <1>3
  <2>. QED  BY <2>1
<1>. QED  BY <1>4

LEMMA MinIs ==
  ASSUME NEW S, S \subseteq Int, NEW m \in S, \A i \in S : m <= i
  PROVE  Behavior!Min(S) = m
<1>1. \A k \in S : (\A i \in S : k <= i) => k = m
  OBVIOUS
<1>. QED  BY <1>1 DEF Behavior!Min

\* The first alert is one that is raised.
LEMMA FirstOf ==
  ASSUME NEW found, DOMAIN found \subseteq Nat
  PROVE  Behavior!First(found) = Behavior!NoAlert \/ \E k \in DOMAIN found : Behavior!First(found) = found[k]
<1>. DEFINE A == {i \in DOMAIN found : found[i] # Behavior!NoAlert}
<1>1. CASE A = {}
  BY <1>1 DEF Behavior!First
<1>2. CASE A # {}
  <2>1. PICK m \in A : \A i \in A : m <= i
    <3>1. A \subseteq Nat
      OBVIOUS
    <3>. HIDE DEF A
    <3>. QED  BY <1>2, <3>1, LeastExists
  <2>2. Behavior!Min(A) = m
    <3>1. A \subseteq Int
      OBVIOUS
    <3>. HIDE DEF A
    <3>. QED  BY <2>1, <3>1, MinIs
  <2>3. Behavior!First(found) = found[Behavior!Min(A)]
    BY <1>2 DEF Behavior!First
  <2>. QED  BY <2>2, <2>3
<1>. QED  BY <1>1, <1>2

LEMMA FirstAppend ==
  ASSUME NEW T, NEW found \in Seq(T), NEW a \in T
  PROVE  Behavior!First(Append(found, a))
           = IF Behavior!First(found) # Behavior!NoAlert THEN Behavior!First(found) ELSE a
<1>. DEFINE k == Append(found, a)  n == Len(found) + 1
            A == {i \in DOMAIN found : found[i] # Behavior!NoAlert}  B == {i \in DOMAIN k : k[i] # Behavior!NoAlert}
<1>1. /\ DOMAIN k = DOMAIN found \cup {n} /\ n \notin DOMAIN found
      /\ DOMAIN found = 1..Len(found) /\ Len(found) \in Nat
      /\ \A i \in DOMAIN found : k[i] = found[i]
      /\ k[n] = a
  BY OneMore
<1>. HIDE DEF k
<1>2. \A i \in DOMAIN found : i < n
  BY <1>1
<1>3. CASE A = {}
  <2>1. Behavior!First(found) = Behavior!NoAlert
    BY <1>3 DEF Behavior!First
  <2>2. CASE a = Behavior!NoAlert
    <3>1. B = {}
      BY <1>1, <1>3, <2>2
    <3>. QED  BY <2>1, <2>2, <3>1 DEF Behavior!First, k
  <2>3. CASE a # Behavior!NoAlert
    <3>1. B = {n}
      BY <1>1, <1>3, <2>3
    <3>2. Behavior!Min(B) = n
      <4>1. B \subseteq Int /\ n \in B /\ \A i \in B : n <= i
        BY <1>1, <3>1
      <4>. HIDE DEF B
      <4>. QED  BY <4>1, MinIs
    <3>3. Behavior!First(k) = k[Behavior!Min(B)]
      BY <3>1 DEF Behavior!First
    <3>. QED  BY <1>1, <2>1, <3>1, <3>2, <3>3 DEF k
  <2>. QED  BY <2>2, <2>3
<1>4. CASE A # {}
  <2>1. PICK m \in A : \A i \in A : m <= i
    <3>1. A \subseteq Nat
      BY <1>1
    <3>. HIDE DEF A
    <3>. QED  BY <1>4, <3>1, LeastExists
  <2>2. A \subseteq Int /\ B \subseteq Int /\ B \subseteq A \cup {n} /\ m \in B /\ m < n
    BY <1>1, <1>2
  <2>3. Behavior!Min(A) = m /\ Behavior!Min(B) = m
    <3>1. \A i \in B : m <= i
      BY <2>1, <2>2
    <3>. HIDE DEF A, B
    <3>. QED  BY <2>1, <2>2, <3>1, MinIs
  <2>4. Behavior!First(found) = found[m] /\ Behavior!First(k) = k[m]
    <3>1. B # {}
      BY <2>2
    <3>. QED  BY <1>4, <2>3, <3>1 DEF Behavior!First
  <2>5. found[m] # Behavior!NoAlert /\ k[m] = found[m]
    BY <1>1
  <2>. QED  BY <2>4, <2>5 DEF k
<1>. QED  BY <1>3, <1>4

\* Counting events of a kind.
Kind(w, x, y) == {h \in Happenings : h.at >= now - w /\ h.status \in x /\ h.path \in y}

LEMMA CountIs ==
  ASSUME NEW l \in Seq(Happenings), NEW w, NEW x, NEW y
  PROVE  Behavior!countEvents(l, w, x, y) = Count(l, Kind(w, x, y)) /\ Kind(w, x, y) \in Kinds
<1>1. {i \in Behavior!Since(l, w) : l[i].status \in x /\ l[i].path \in y} = {i \in DOMAIN l : l[i] \in Kind(w, x, y)}
  <2>1. \A i \in DOMAIN l : l[i] \in Happenings
    OBVIOUS
  <2>. QED  BY <2>1 DEF Behavior!Since, Kind
<1>. QED  BY <1>1 DEF Behavior!countEvents, Behavior!Cardinality, Cardinality, Count, Kinds, Kind

\* What a view shows of an address, and what it shows if no cleanup is near.
Watches(ip, v) ==
  /\ v \in Seq(Happenings)
  /\ Happened(v) \subseteq Happened(events[ip])
  /\ ~swept[ip] => \A E \in Kinds : Count(v, E) <= Count(events[ip], E)
PlainView(p, v) == v = [i \in 1..(p.to - p.from) |-> p.slots[p.from + i]]

LEMMA ServesTyped ==
  ASSUME BehaviorInv, NEW t \in Threads, NEW ip \in Visitors, Serves(t, ip)
  PROVE  LET r == req[t]  p == heap[r.id]
         IN  /\ r.ip = ip /\ r # Behavior!Idle /\ r.pc \in Analyzing /\ r.event \in Happenings
             /\ r.id \in DOMAIN heap /\ HoldsProfile(ip, r.id) /\ p \in Profiles
             /\ p.from \in Nat /\ p.to \in Nat /\ p.from <= p.to /\ p.to <= Len(p.slots)
             /\ p.slots \in Seq(Happenings) /\ p.sessions \subseteq Sessions
             /\ events[ip] \in Seq(Happenings)
<1>1. BehaviorTyped
  BY DEF BehaviorInv
<1>2. req[t].ip = ip /\ req[t] # Behavior!Idle
  BY DEF Serves, Behavior!Serving, Behavior!Idle
<1>3. AnalysisTyped(req[t]) /\ heap \in Seq(Profiles)
  BY <1>1 DEF BehaviorTyped
<1>4. req[t].pc \in Analyzing /\ req[t].event \in Happenings /\ req[t].id \in DOMAIN heap
  BY <1>2, <1>3 DEF AnalysisTyped
<1>5. HoldsProfile(ip, req[t].id)
  BY DEF HoldsProfile
<1>6. heap[req[t].id] \in Profiles
  BY <1>3, <1>4
<1>7. events[ip] \in Seq(Happenings)
  BY <1>1 DEF BehaviorTyped
<1>. QED  BY <1>2, <1>4, <1>5, <1>6, <1>7 DEF Profiles

LEMMA ViewsSee ==
  ASSUME BehaviorInv, NEW t \in Threads, NEW ip \in Visitors, Serves(t, ip), NEW v \in Behavior!Views(req[t].id)
  PROVE  Watches(ip, v) /\ (~Filters(ip) => PlainView(heap[req[t].id], v))
<1>. DEFINE id == req[t].id  p == heap[id]  n == p.to - p.from
            moves == cleaner.pc = "filter" /\ cleaner.id = id
            moved == {i \in (p.from + 1)..p.to : moves /\ i - cleaner.from \in DOMAIN cleaner.kept}
<1>1. /\ id \in DOMAIN heap /\ HoldsProfile(ip, id)
      /\ p.from \in Nat /\ p.to \in Nat /\ p.from <= p.to /\ p.to <= Len(p.slots)
      /\ p.slots \in Seq(Happenings) /\ events[ip] \in Seq(Happenings)
  BY ServesTyped
<1>2. PICK new \in SUBSET moved :
        v = [i \in 1..n |-> IF i + p.from \in new THEN cleaner.kept[i + p.from - cleaner.from]
                                                  ELSE p.slots[i + p.from]]
  BY DEF Behavior!Views
<1>3. Genuine(ip) /\ Tallied(ip) /\ CleanerTyped /\ ProfilesOwned
  BY DEF BehaviorInv, OfAddress, BehaviorTyped
<1>4. moves => Filters(ip)
  <2>1. ASSUME moves PROVE Filters(ip)
    <3>1. cleaner.ip \in Visitors /\ HoldsProfile(cleaner.ip, id)
      BY <1>3, <2>1 DEF CleanerTyped, HoldsProfile, Filters, Behavior!Idle
    <3>. QED  BY <1>1, <1>3, <2>1, <3>1 DEF ProfilesOwned, Filters
  <2>. QED  BY <2>1
<1>5. \A j \in DOMAIN p.slots : p.slots[j] \in Happened(events[ip])
  BY <1>1, <1>3 DEF Genuine
<1>6. Filters(ip) => \A j \in DOMAIN cleaner.kept : cleaner.kept[j] \in Happened(events[ip])
  BY <1>3 DEF Genuine
<1>7. Happened(events[ip]) \subseteq Happenings
  BY <1>1 DEF Happened
<1>8. n \in Nat /\ \A i \in 1..n : i + p.from \in DOMAIN p.slots /\ i + p.from = p.from + i
  <2>1. DOMAIN p.slots = 1..Len(p.slots) /\ Len(p.slots) \in Nat
    BY <1>1
  <2>. DEFINE a == p.from  b == p.to  k == Len(p.slots)
  <2>2. a \in Nat /\ b \in Nat /\ a <= b /\ b <= k /\ k \in Nat /\ DOMAIN p.slots = 1..k
    BY <1>1, <2>1
  <2>. HIDE DEF a, b, k, p
  <2>. QED  BY <2>2 DEF a, b
<1>9. \A i \in new : Filters(ip) /\ i - cleaner.from \in DOMAIN cleaner.kept
  <2>. HIDE DEF p, id
  <2>1. \A i \in moved : moves /\ i - cleaner.from \in DOMAIN cleaner.kept
    OBVIOUS
  <2>. HIDE DEF moves, moved
  <2>. QED  BY <1>4, <2>1
<1>. HIDE DEF n, p, id, moves, moved
<1>10. Filters(ip) => cleaner.from \in Nat
  BY <1>3 DEF CleanerTyped, Filters, Behavior!Idle
<1>11. DOMAIN v = 1..n /\ \A i \in 1..n : v[i] \in Happened(events[ip])
  <2>1. ASSUME NEW i \in 1..n PROVE v[i] \in Happened(events[ip])
    <3>1. CASE i + p.from \in new
      <4>. DEFINE j == i + p.from
      <4>1. j \in new /\ v[i] = cleaner.kept[j - cleaner.from]
        BY <1>1, <1>2, <1>9, <1>10, <3>1
      <4>. HIDE DEF j
      <4>2. Filters(ip) /\ j - cleaner.from \in DOMAIN cleaner.kept
        BY <1>9, <4>1
      <4>. QED  BY <1>6, <4>1, <4>2
    <3>2. CASE i + p.from \notin new
      <4>1. v[i] = p.slots[i + p.from]
        BY <1>2, <3>2
      <4>. QED  BY <1>5, <1>8, <4>1
    <3>. QED  BY <3>1, <3>2
  <2>. QED  BY <1>2, <2>1
<1>12. v \in Seq(Happenings) /\ Happened(v) \subseteq Happened(events[ip])
  <2>1. v = [i \in 1..n |-> v[i]] /\ \A i \in 1..n : v[i] \in Happenings
    BY <1>2, <1>7, <1>11
  <2>2. v \in [1..n -> Happenings]
    BY <2>1
  <2>. QED  BY <1>8, <1>11, <2>2 DEF Happened
<1>13. ASSUME ~Filters(ip) PROVE v = [i \in 1..n |-> p.slots[p.from + i]]
  <2>1. new = {}
    BY <1>9, <1>13
  <2>2. \A i \in 1..n : v[i] = p.slots[p.from + i]
    BY <1>2, <1>8, <2>1
  <2>. QED  BY <1>2, <2>2
<1>14. ASSUME ~swept[ip], NEW E \in Kinds PROVE Count(v, E) <= Count(events[ip], E)
  <2>1. ~Filters(ip) /\ NoMore(ip, E)
    BY <1>3, <1>14 DEF Tallied, Filters, Sweeps
  <2>2. Upto(p.slots, p.to, E) <= Count(events[ip], E) - Cardinality(Unwritten(ip, E))
    BY <1>1, <2>1 DEF NoMore, p
  <2>3. Cardinality(Unwritten(ip, E)) \in Nat
    <3>1. Unwritten(ip, E) \subseteq Threads
      BY DEF Unwritten
    <3>2. IsFiniteSet(Unwritten(ip, E))
      BY <3>1, BehaviorConstants, FS_Subset
    <3>. QED  BY <3>2, FS_CardinalityType
  <2>4. Upto(p.slots, p.from, E) + Count(v, E) = Upto(p.slots, p.to, E)
    <3>1. DOMAIN v = 1..(p.to - p.from) /\ \A i \in 1..(p.to - p.from) : v[i] = p.slots[p.from + i]
      BY <1>8, <1>13, <2>1 DEF n
    <3>. DEFINE s == p.slots  a == p.from  b == p.to
    <3>2. IsPart(v, s, a, b)
      BY <1>1, <3>1 DEF IsPart
    <3>. HIDE DEF s, a, b
    <3>3. Upto(s, a, E) + Count(v, E) = Upto(s, b, E)
      BY <3>2, PartUpto
    <3>. QED  BY <3>3 DEF s, a, b
  <2>5. Upto(p.slots, p.from, E) \in Nat /\ Upto(p.slots, p.to, E) \in Nat /\ Count(v, E) \in Nat
        /\ Count(events[ip], E) \in Nat
    BY <1>1, <1>12, UptoType, CountType
  <2>. QED  BY <2>2, <2>3, <2>4, <2>5
<1>. QED  BY <1>12, <1>13, <1>14 DEF Watches, PlainView, n, p, id

-----------------------------------------------------------------------------
(* The behavioral detector: an alert is earned.                            *)

\* The values of a function on a finite set are finitely many.
LEMMA FiniteImage ==
  ASSUME NEW S, IsFiniteSet(S), NEW f, NEW T, T = {f[i] : i \in S}
  PROVE  IsFiniteSet(T)
<1>. DEFINE g == [i \in S |-> f[i]]
<1>1. g \in [S -> T] /\ \A u \in T : \E i \in S : g[i] = u
  OBVIOUS
<1>2. g \in Surjection(S, T)
  <2>. HIDE DEF g
  <2>. QED  BY <1>1 DEF Surjection
<1>. QED  BY <1>2, FS_Surjection

LEMMA PathsFewer ==
  ASSUME NEW v \in Seq(Happenings), NEW l \in Seq(Happenings), Happened(v) \subseteq Happened(l), NEW w, NEW y
  PROVE  /\ Behavior!uniquePaths(v, w, y) \in Nat /\ Behavior!uniquePaths(l, w, y) \in Nat
         /\ Behavior!uniquePaths(v, w, y) <= Behavior!uniquePaths(l, w, y)
<1>. DEFINE P(s) == {s[i].path : i \in Behavior!Since(s, w)}  X == P(v) \cap y  Y == P(l) \cap y
<1>1. P(v) \subseteq P(l)
  <2>1. ASSUME NEW i \in Behavior!Since(v, w) PROVE \E j \in Behavior!Since(l, w) : v[i] = l[j]
    BY DEF Happened, Behavior!Since
  <2>. QED  BY <2>1
<1>2. IsFiniteSet(P(l))
  <2>. DEFINE S == Behavior!Since(l, w)  f == [i \in DOMAIN l |-> l[i].path]
  <2>1. IsFiniteSet(S)
    <3>1. S \subseteq DOMAIN l
      BY DEF Behavior!Since
    <3>. QED  BY <3>1, SeqPlaces, FS_Subset
  <2>2. P(l) = {f[i] : i \in S}
    BY DEF Behavior!Since
  <2>. HIDE DEF P, f, S
  <2>. QED  BY <2>1, <2>2, FiniteImage
<1>3. X \subseteq Y /\ Y \subseteq P(l)
  BY <1>1
<1>4. Behavior!uniquePaths(v, w, y) = Cardinality(X) /\ Behavior!uniquePaths(l, w, y) = Cardinality(Y)
  BY DEF Behavior!uniquePaths, Behavior!Cardinality, Cardinality
<1>. HIDE DEF P, X, Y
<1>5. IsFiniteSet(Y) /\ IsFiniteSet(X) /\ Cardinality(X) <= Cardinality(Y)
  BY <1>2, <1>3, FS_Subset
<1>. QED  BY <1>4, <1>5, FS_CardinalityType

\* The sessions of a profile that are active are sessions the address named.
LEMMA SessionsFewer ==
  ASSUME now \in Nat, SessionWindow \in Nat,
         NEW l \in Seq(Happenings), NEW ss, ss \subseteq Sessions, SessionsTrue(ss, l)
  PROVE  LET A == {s \in ss : now - s.at <= SessionWindow}
             N == {l[i].session : i \in Behavior!Since(l, SessionWindow)} \ {None}
         IN  Behavior!Cardinality(A) \in Nat /\ Behavior!Cardinality(N) \in Nat /\ Behavior!Cardinality(A) <= Behavior!Cardinality(N)
<1>. DEFINE A == {s \in ss : now - s.at <= SessionWindow}
            S == Behavior!Since(l, SessionWindow)  M == {l[i].session : i \in S}  N == M \ {None}
            f == [s \in A |-> s.id]
<1>1. \A s \in A : s.id \in N
  <2>1. ASSUME NEW s \in A PROVE s.id \in N
    <3>1. PICK i \in DOMAIN l : l[i].session = s.id /\ l[i].at = s.at
      BY DEF SessionsTrue
    <3>2. s.at \in Nat /\ s.id # None
      BY DEF Sessions, SessionNames
    <3>3. i \in S
      BY <3>1, <3>2 DEF Behavior!Since
    <3>. HIDE DEF S, A
    <3>. QED  BY <3>1, <3>2, <3>3
  <2>. QED  BY <2>1
<1>2. \A s, u \in A : s.id = u.id => s = u
  BY DEF SessionsTrue
<1>3. IsFiniteSet(N)
  <2>. DEFINE g == [i \in DOMAIN l |-> l[i].session]
  <2>1. IsFiniteSet(S)
    <3>1. S \subseteq DOMAIN l
      BY DEF Behavior!Since
    <3>. QED  BY <3>1, SeqPlaces, FS_Subset
  <2>2. M = {g[i] : i \in S}
    BY DEF Behavior!Since
  <2>3. N \subseteq M
    OBVIOUS
  <2>. HIDE DEF M, N, g, S
  <2>4. IsFiniteSet(M)
    BY <2>1, <2>2, FiniteImage
  <2>. QED  BY <2>3, <2>4, FS_Subset
<1>4. f \in Injection(A, N)
  <2>. HIDE DEF A, N
  <2>1. f \in [A -> N]
    BY <1>1
  <2>2. \A s, u \in A : f[s] = f[u] => s = u
    BY <1>2
  <2>. HIDE DEF f
  <2>. QED  BY <2>1, <2>2 DEF Injection, IsInjective
<1>5. Cardinality(A) \in Nat /\ Cardinality(N) \in Nat /\ Cardinality(A) <= Cardinality(N)
  <2>. HIDE DEF A, N, f
  <2>1. IsFiniteSet(A) /\ Cardinality(A) <= Cardinality(N)
    BY <1>3, <1>4, FS_Injection
  <2>. QED  BY <1>3, <2>1, FS_CardinalityType
<1>. QED  BY <1>5 DEF Behavior!Cardinality, Cardinality

LEMMA SeenCounts ==
  ASSUME NEW ip, NEW v, Watches(ip, v), events[ip] \in Seq(Happenings), NEW E \in Kinds, NEW n \in Nat \ {0}, Count(v, E) >= n
  PROVE  Count(events[ip], E) >= IF swept[ip] THEN 1 ELSE n
<1>. DEFINE l == events[ip]
<1>1. v \in Seq(Happenings) /\ Happened(v) \subseteq Happened(l)
  BY DEF Watches
<1>2. Count(v, E) \in Nat /\ Count(l, E) \in Nat /\ IsFiniteSet({i \in DOMAIN l : l[i] \in E})
  BY <1>1, CountType
<1>3. CASE ~swept[ip]
  <2>1. Count(v, E) <= Count(l, E)
    BY <1>3 DEF Watches
  <2>. QED  BY <1>2, <1>3, <2>1
<1>4. CASE swept[ip]
  <2>. DEFINE A == {i \in DOMAIN v : v[i] \in E}  B == {i \in DOMAIN l : l[i] \in E}
  <2>1. A # {}
    <3>1. A = {} => Count(v, E) = 0
      BY FS_EmptySet DEF Count
    <3>. QED  BY <3>1
  <2>2. PICK i \in DOMAIN v : v[i] \in E
    BY <2>1
  <2>3. v[i] \in Happened(l)
    BY <1>1, <2>2 DEF Happened
  <2>4. B # {}
    BY <2>2, <2>3 DEF Happened
  <2>5. Count(l, E) # 0
    <3>. HIDE DEF l
    <3>1. Count(l, E) = Cardinality(B)
      BY DEF Count
    <3>. HIDE DEF B
    <3>. QED  BY <1>2, <2>4, <3>1, FS_EmptySet DEF B
  <2>. QED  BY <1>2, <1>4, <2>5
<1>. QED  BY <1>3, <1>4

\* What each detector has counted when it raises its alert.
LEMMA AlertsNamed ==
  ASSUME NEW name \in Behavior!Names, NEW score
  PROVE  Behavior!Alert(name, score) # Behavior!NoAlert /\ Behavior!Alert(name, score).name = name
BY BehaviorConstants DEF Behavior!Alert, Behavior!NoAlert

Raised(a, v, ss, e) ==
  \/ a.name = "CredentialStuffing" /\ Behavior!countEvents(v, MediumWindow, {"denied"}, LoginPaths) >= CredentialStuffingThreshold
  \/ a.name = "APIEnumeration" /\ Behavior!uniquePaths(v, ShortWindow, ApiPaths) >= APIEnumerationThreshold
  \/ /\ a.name = "Scraping"
     /\ Behavior!countEvents(v, ShortWindow, Behavior!Statuses, Behavior!Paths) >= ScrapingThreshold
     /\ Behavior!uniquePaths(v, ShortWindow, Behavior!Paths) >= APIEnumerationThreshold
  \/ /\ a.name = "SessionAnomaly"
     /\ Behavior!Cardinality({s \in ss : now - s.at <= SessionWindow}) >= SuspiciousSessionThreshold
  \/ /\ a.name = "TemporalAnomaly" /\ night
     /\ Behavior!countEvents(v, ShortWindow, Behavior!Statuses, Behavior!Paths) >= TemporalAnomalyThreshold

LEMMA EarlierRaised ==
  ASSUME NEW v, NEW ss, NEW e
  PROVE  LET a == Behavior!First(Behavior!EarlierAlerts(v, ss, e))
         IN  a = Behavior!NoAlert \/ Raised(a, v, ss, e)
<1>. DEFINE found == Behavior!EarlierAlerts(v, ss, e)  a == Behavior!First(found)
<1>1. /\ DOMAIN found = 1..5
      /\ found[1] = Behavior!detectCredentialStuffing(v, e) /\ found[2] = Behavior!detectAPIEnumeration(v)
      /\ found[3] = Behavior!detectScraping(v) /\ found[4] = Behavior!detectSessionAnomaly(ss)
      /\ found[5] = Behavior!detectTemporalAnomaly(v)
  BY DEF Behavior!EarlierAlerts
<1>. HIDE DEF found
<1>2. a = Behavior!NoAlert \/ \E k \in 1..5 : a = found[k]
  <2>1. DOMAIN found \subseteq Nat
    BY <1>1
  <2>. QED  BY <1>1, <2>1, FirstOf
<1>. HIDE DEF a
<1>3. found[1] = Behavior!NoAlert \/ Raised(found[1], v, ss, e)
  BY <1>1, AlertsNamed DEF Raised, Behavior!detectCredentialStuffing, Behavior!Names
<1>4. found[2] = Behavior!NoAlert \/ Raised(found[2], v, ss, e)
  BY <1>1, AlertsNamed DEF Raised, Behavior!detectAPIEnumeration, Behavior!Names
<1>5. found[3] = Behavior!NoAlert \/ Raised(found[3], v, ss, e)
  BY <1>1, AlertsNamed DEF Raised, Behavior!detectScraping, Behavior!Names
<1>6. found[4] = Behavior!NoAlert \/ Raised(found[4], v, ss, e)
  BY <1>1, AlertsNamed DEF Raised, Behavior!detectSessionAnomaly, Behavior!Names
<1>7. found[5] = Behavior!NoAlert \/ Raised(found[5], v, ss, e)
  BY <1>1, AlertsNamed DEF Raised, Behavior!detectTemporalAnomaly, Behavior!Names
<1>8. \A k \in 1..5 : k = 1 \/ k = 2 \/ k = 3 \/ k = 4 \/ k = 5
  OBVIOUS
<1>9. a = Behavior!NoAlert \/ Raised(a, v, ss, e)
  BY <1>2, <1>3, <1>4, <1>5, <1>6, <1>7, <1>8
<1>. QED  BY <1>9 DEF a, found

LEMMA EarlierEarned ==
  ASSUME BehaviorTyped, NEW ip \in Visitors, NEW v, Watches(ip, v),
         NEW ss, ss \subseteq Sessions, SessionsTrue(ss, events[ip]), NEW a, NEW e, Raised(a, v, ss, e)
  PROVE  Behavior!Earned(ip, a.name)
<1>. DEFINE l == events[ip]  Full(n) == IF swept[ip] THEN 1 ELSE n
<1>1. l \in Seq(Happenings) /\ v \in Seq(Happenings) /\ Happened(v) \subseteq Happened(l) /\ now \in Nat
  BY DEF BehaviorTyped, Watches
<1>2. ASSUME NEW w, NEW x, NEW y, NEW n \in Nat \ {0}, Behavior!countEvents(v, w, x, y) >= n
      PROVE  Behavior!countEvents(l, w, x, y) >= Full(n)
  <2>1. /\ Behavior!countEvents(v, w, x, y) = Count(v, Kind(w, x, y))
        /\ Behavior!countEvents(l, w, x, y) = Count(l, Kind(w, x, y))
        /\ Kind(w, x, y) \in Kinds
    BY <1>1, CountIs
  <2>. QED  BY <1>1, <1>2, <2>1, SeenCounts
<1>3. ASSUME NEW w, NEW y, NEW n \in Nat, Behavior!uniquePaths(v, w, y) >= n
      PROVE  Behavior!uniquePaths(l, w, y) >= n
  BY <1>1, <1>3, PathsFewer
<1>4. CASE a.name = "CredentialStuffing"
  <2>1. Behavior!countEvents(v, MediumWindow, {"denied"}, LoginPaths) >= CredentialStuffingThreshold
    BY <1>4 DEF Raised
  <2>2. Behavior!countEvents(l, MediumWindow, {"denied"}, LoginPaths) >= Full(CredentialStuffingThreshold)
    BY <1>2, <2>1, BehaviorConstants
  <2>. QED  BY <1>4, <2>2 DEF Behavior!Earned
<1>5. CASE a.name = "APIEnumeration"
  <2>1. Behavior!uniquePaths(v, ShortWindow, ApiPaths) >= APIEnumerationThreshold
    BY <1>5 DEF Raised
  <2>2. Behavior!uniquePaths(l, ShortWindow, ApiPaths) >= APIEnumerationThreshold
    BY <1>3, <2>1, BehaviorConstants
  <2>. QED  BY <1>5, <2>2 DEF Behavior!Earned
<1>6. CASE a.name = "Scraping"
  <2>1. /\ Behavior!countEvents(v, ShortWindow, Behavior!Statuses, Behavior!Paths) >= ScrapingThreshold
        /\ Behavior!uniquePaths(v, ShortWindow, Behavior!Paths) >= APIEnumerationThreshold
    BY <1>6 DEF Raised
  <2>2. /\ Behavior!countEvents(l, ShortWindow, Behavior!Statuses, Behavior!Paths) >= Full(ScrapingThreshold)
        /\ Behavior!uniquePaths(l, ShortWindow, Behavior!Paths) >= APIEnumerationThreshold
    BY <1>2, <1>3, <2>1, BehaviorConstants
  <2>. QED  BY <1>6, <2>2 DEF Behavior!Earned
<1>7. CASE a.name = "SessionAnomaly"
  <2>. DEFINE A == {s \in ss : now - s.at <= SessionWindow}
              N == {l[i].session : i \in Behavior!Since(l, SessionWindow)} \ {None}
  <2>1. Behavior!Cardinality(A) >= SuspiciousSessionThreshold
    BY <1>7 DEF Raised
  <2>2. Behavior!Cardinality(A) \in Nat /\ Behavior!Cardinality(N) \in Nat /\ Behavior!Cardinality(A) <= Behavior!Cardinality(N)
    <3>1. SessionWindow \in Nat
      BY BehaviorConstants
    <3>. QED  BY <1>1, <3>1, SessionsFewer
  <2>3. Behavior!Cardinality(N) >= SuspiciousSessionThreshold
    <3>1. SuspiciousSessionThreshold \in Int
      BY BehaviorConstants
    <3>. HIDE DEF A, N
    <3>. QED  BY <2>1, <2>2, <3>1
  <2>. QED  BY <1>7, <2>3 DEF Behavior!Earned
<1>8. CASE a.name = "TemporalAnomaly"
  <2>1. night /\ Behavior!countEvents(v, ShortWindow, Behavior!Statuses, Behavior!Paths) >= TemporalAnomalyThreshold
    BY <1>8 DEF Raised
  <2>2. Behavior!countEvents(l, ShortWindow, Behavior!Statuses, Behavior!Paths) >= Full(TemporalAnomalyThreshold)
    BY <1>2, <2>1, BehaviorConstants
  <2>. QED  BY <1>8, <2>1, <2>2 DEF Behavior!Earned
<1>. QED  BY <1>4, <1>5, <1>6, <1>7, <1>8 DEF Raised

LEMMA RateEarned ==
  ASSUME BehaviorTyped, NEW ip \in Visitors, NEW v, Watches(ip, v), NEW total \in Nat
  PROVE  Behavior!Earned(ip, Behavior!detectErrorRate(Behavior!errorsOf(v), total).name)
<1>. DEFINE l == events[ip]  errors == Behavior!errorsOf(v)
            d == Behavior!detectErrorRate(errors, total)
            K == Kind(MediumWindow, {"denied", "error"}, Behavior!Paths)
<1>1. l \in Seq(Happenings) /\ v \in Seq(Happenings) /\ Happened(v) \subseteq Happened(l)
  BY DEF BehaviorTyped, Watches
<1>2. errors = Count(v, K) /\ Behavior!errorsOf(l) = Count(l, K) /\ K \in Kinds
  BY <1>1, CountIs DEF Behavior!errorsOf
<1>3. Count(v, K) \in Nat /\ Count(l, K) \in Nat
  BY <1>1, CountType
<1>4. CASE total > 0 /\ 100 * errors >= ErrorRateThreshold * total
  <2>1. errors >= 1
    <3>1. \A x, y \in Nat \ {0} : x * y > 0
      OBVIOUS
    <3>2. ErrorRateThreshold \in Nat \ {0} /\ total \in Nat \ {0}
      BY <1>4, BehaviorConstants
    <3>3. ErrorRateThreshold * total > 0
      BY <3>1, <3>2
    <3>. DEFINE z == ErrorRateThreshold * total
    <3>4. z \in Int /\ errors \in Nat /\ z > 0 /\ 100 * errors >= z
      BY <1>2, <1>3, <1>4, <3>2, <3>3
    <3>. HIDE DEF z, errors
    <3>. QED  BY <3>4
  <2>2. Count(l, K) >= 1
    <3>. HIDE DEF l, K, errors
    <3>. QED  BY <1>1, <1>2, <1>3, <2>1, SeenCounts DEF l
  <2>3. d.name = "ErrorRate"
    BY <1>4, AlertsNamed DEF Behavior!detectErrorRate, Behavior!Names
  <2>4. Behavior!errorsOf(l) > 0
    BY <1>2, <1>3, <2>2
  <2>. QED  BY <2>3, <2>4 DEF Behavior!Earned
<1>5. CASE ~(total > 0 /\ 100 * errors >= ErrorRateThreshold * total)
  <2>1. d.name = None
    BY <1>5 DEF Behavior!detectErrorRate, Behavior!NoAlert
  <2>2. None \notin Behavior!Names
    BY BehaviorConstants
  <2>. QED  BY <2>1, <2>2 DEF Behavior!Earned, Behavior!Names
<1>. QED  BY <1>4, <1>5

LEMMA UnraisedEarned == ASSUME NEW ip PROVE Behavior!Earned(ip, Behavior!NoAlert.name)
BY BehaviorConstants DEF Behavior!Earned, Behavior!NoAlert, Behavior!Names

-----------------------------------------------------------------------------
(* The behavioral detector: a profile in step calls for what its events do. *)

LEMMA MaxOfTwo ==
  ASSUME NEW a \in Int, NEW b \in Int
  PROVE  Behavior!Max({a, b}) = IF a >= b THEN a ELSE b
<1>. DEFINE S == {a, b}  m == IF a >= b THEN a ELSE b
<1>1. m \in S /\ \A i \in S : m >= i
  OBVIOUS
<1>2. \A k \in S : (\A i \in S : k >= i) => k = m
  <2>1. S \subseteq Int
    OBVIOUS
  <2>. HIDE DEF S, m
  <2>. QED  BY <1>1, <2>1
<1>3. Behavior!Max(S) = CHOOSE k \in S : \A i \in S : k >= i
  BY DEF Behavior!Max
<1>. HIDE DEF S, m
<1>4. Behavior!Max(S) = m
  BY <1>1, <1>2, <1>3
<1>. QED  BY <1>4 DEF S, m

\* Two ends of a list that differ in what is out of every window only.
Alike(v, u, l, d, c) ==
  /\ l \in Seq(Happenings) /\ v \in Seq(Happenings) /\ u \in Seq(Happenings)
  /\ IsPart(v, l, d, Len(l)) /\ IsPart(u, l, c, Len(l)) /\ c <= d
  /\ \A i \in (c + 1)..d : l[i].at <= now - LongWindow

LEMMA AlikeCounts ==
  ASSUME now \in Nat, NEW v, NEW u, NEW l, NEW d, NEW c, Alike(v, u, l, d, c),
         NEW w \in 0..(LongWindow - 1), NEW x, NEW y
  PROVE  Behavior!countEvents(v, w, x, y) = Behavior!countEvents(u, w, x, y)
<1>. DEFINE E == Kind(w, x, y)  n == Len(l)
<1>1. /\ l \in Seq(Happenings) /\ v \in Seq(Happenings) /\ u \in Seq(Happenings) /\ n \in Nat
      /\ IsPart(v, l, d, n) /\ IsPart(u, l, c, n) /\ c <= d /\ c \in Nat /\ d \in Nat /\ d <= n
  BY DEF Alike, IsPart
<1>2. /\ Behavior!countEvents(v, w, x, y) = Count(v, E)
      /\ Behavior!countEvents(u, w, x, y) = Count(u, E)
  BY <1>1, CountIs
<1>3. {i \in (c + 1)..d : l[i] \in E} = {}
  <2>1. ASSUME NEW i \in (c + 1)..d PROVE l[i] \notin E
    <3>1. i \in 1..n /\ l[i].at <= now - LongWindow
      BY <1>1 DEF Alike
    <3>2. l[i] \in Happenings
      BY <1>1, <3>1
    <3>3. l[i].at \in Nat
      BY <3>2 DEF Happenings
    <3>4. LongWindow \in Nat /\ w \in Int /\ w < LongWindow
      BY BehaviorConstants
    <3>5. ~(l[i].at >= now - w)
      BY <3>1, <3>3, <3>4
    <3>. QED  BY <3>5 DEF Kind
  <2>. QED  BY <2>1
<1>. HIDE DEF E, n
<1>4. Upto(l, d, E) + Count(v, E) = Upto(l, n, E)
  BY <1>1, PartUpto
<1>5. Upto(l, c, E) + Count(u, E) = Upto(l, n, E)
  BY <1>1, PartUpto
<1>6. Upto(l, d, E) = Upto(l, c, E) + Cardinality({i \in (c + 1)..d : l[i] \in E})
  BY <1>1, UptoSplit
<1>7. Upto(l, d, E) \in Nat /\ Upto(l, c, E) \in Nat /\ Count(v, E) \in Nat /\ Count(u, E) \in Nat /\ Cardinality({}) = 0
  BY <1>1, UptoType, CountType, FS_EmptySet
<1>8. Upto(l, d, E) = Upto(l, c, E)
  BY <1>3, <1>6, <1>7
<1>. QED  BY <1>2, <1>4, <1>5, <1>7, <1>8

LEMMA AlikePaths ==
  ASSUME now \in Nat, NEW v, NEW u, NEW l, NEW d, NEW c, Alike(v, u, l, d, c),
         NEW w \in 0..(LongWindow - 1), NEW y
  PROVE  Behavior!uniquePaths(v, w, y) = Behavior!uniquePaths(u, w, y)
<1>. DEFINE n == Len(l)
<1>1. /\ n \in Nat /\ c <= d /\ c \in Nat /\ d \in Nat /\ d <= n
      /\ DOMAIN v = 1..(n - d) /\ \A i \in 1..(n - d) : v[i] = l[d + i]
      /\ DOMAIN u = 1..(n - c) /\ \A i \in 1..(n - c) : u[i] = l[c + i]
      /\ \A i \in (c + 1)..d : l[i].at <= now - LongWindow
      /\ \A i \in 1..n : l[i].at \in Nat
      /\ LongWindow \in Nat /\ w \in Int /\ w < LongWindow
  <2>1. \A i \in 1..n : l[i] \in Happenings
    BY DEF Alike
  <2>. QED  BY <2>1, BehaviorConstants DEF Alike, IsPart, Happenings
<1>. HIDE DEF n
<1>2. ASSUME NEW i \in Behavior!Since(v, w) PROVE \E j \in Behavior!Since(u, w) : u[j] = v[i]
  <2>. DEFINE j == d - c + i
  <2>1. i \in 1..(n - d) /\ v[i].at >= now - w
    BY <1>1 DEF Behavior!Since
  <2>2. j \in 1..(n - c) /\ c + j = d + i
    BY <1>1, <2>1
  <2>3. u[j] = v[i]
    BY <1>1, <2>1, <2>2
  <2>. HIDE DEF j
  <2>. QED  BY <1>1, <2>1, <2>2, <2>3 DEF Behavior!Since
<1>3. ASSUME NEW j \in Behavior!Since(u, w) PROVE \E i \in Behavior!Since(v, w) : v[i] = u[j]
  <2>. DEFINE k == c + j  i == k - d
  <2>1. j \in 1..(n - c) /\ u[j].at >= now - w
    BY <1>1 DEF Behavior!Since
  <2>2. k \in (c + 1)..n /\ k \in 1..n /\ u[j] = l[k]
    BY <1>1, <2>1
  <2>3. k > d
    <3>1. l[k].at \in Nat /\ l[k].at >= now - w
      BY <1>1, <2>1, <2>2
    <3>. HIDE DEF k
    <3>2. ~(l[k].at <= now - LongWindow)
      BY <1>1, <3>1
    <3>3. k \notin (c + 1)..d
      BY <1>1, <3>2
    <3>. QED  BY <1>1, <2>2, <3>3
  <2>4. i \in 1..(n - d) /\ d + i = k
    BY <1>1, <2>2, <2>3
  <2>5. v[i] = u[j]
    BY <1>1, <2>2, <2>4
  <2>. HIDE DEF i, k
  <2>. QED  BY <1>1, <2>1, <2>4, <2>5 DEF Behavior!Since
<1>4. {v[i].path : i \in Behavior!Since(v, w)} = {u[i].path : i \in Behavior!Since(u, w)}
  BY <1>2, <1>3
<1>. QED  BY <1>4 DEF Behavior!uniquePaths

\* The latest events of a list are its end.
LEMMA LatestIs ==
  ASSUME NEW l \in Seq(Happenings)
  PROVE  LET u == Behavior!Latest(l)  c == IF Len(l) > MaxTrackedEvents THEN Len(l) - MaxTrackedEvents ELSE 0
         IN  u \in Seq(Happenings) /\ IsPart(u, l, c, Len(l))
<1>. DEFINE n == Len(l)  m == MaxTrackedEvents  c == IF n > m THEN n - m ELSE 0  u == SubSeq(l, c + 1, n)
<1>1. n \in Nat /\ m \in Nat
  BY BehaviorConstants
<1>2. Behavior!Max({1, n - m + 1}) = c + 1
  <2>1. Behavior!Max({1, n - m + 1}) = IF 1 >= n - m + 1 THEN 1 ELSE n - m + 1
    BY <1>1, MaxOfTwo
  <2>. HIDE DEF n, m
  <2>. QED  BY <1>1, <2>1
<1>3. Behavior!Latest(l) = u
  BY <1>2 DEF Behavior!Latest
<1>4. c \in Nat /\ c <= n
  <2>. HIDE DEF n, m
  <2>. QED  BY <1>1
<1>. HIDE DEF c
<1>5. u \in Seq(Happenings) /\ IsPart(u, l, c, n)
  BY <1>1, <1>4 DEF IsPart
<1>. QED  BY <1>3, <1>5 DEF c

LEMMA ViewAlike ==
  ASSUME NEW p \in Profiles, NEW l \in Seq(Happenings), Shows(p, l, now), NEW v, PlainView(p, v)
  PROVE  \E d, c : Alike(v, Behavior!Latest(l), l, d, c)
<1>. DEFINE u == Behavior!Latest(l)  n == Len(l)  m == MaxTrackedEvents
            k == p.to - p.from  d == n - k  c == IF n > m THEN n - m ELSE 0  s == p.slots
<1>1. /\ n \in Nat /\ m \in Nat /\ k \in Nat /\ p.from \in Nat
      /\ s \in Seq(Happenings) /\ Len(s) \in Nat /\ p.from + k <= Len(s)
  BY BehaviorConstants DEF Profiles
<1>2. /\ k <= m /\ k <= n
      /\ \A i \in 1..k : s[p.from + i] = l[d + i]
      /\ k = m \/ \A i \in 1..d : l[i].at <= now - LongWindow
  BY DEF Shows
<1>3. v = [i \in 1..k |-> s[p.from + i]]
  BY DEF PlainView
<1>4. u \in Seq(Happenings) /\ IsPart(u, l, c, n)
  BY LatestIs
<1>5. DOMAIN l = 1..n /\ \A i \in 1..n : l[i] \in Happenings
  OBVIOUS
<1>. HIDE DEF u, n, m, k, s
<1>6. d \in Nat /\ c \in Nat /\ c <= d /\ d <= n /\ n - d = k
  BY <1>1, <1>2
<1>7. \A i \in (c + 1)..d : l[i].at <= now - LongWindow
  BY <1>1, <1>2, <1>6
<1>. HIDE DEF d, c
<1>8. \A i \in 1..k : v[i] = l[d + i]
  BY <1>2, <1>3
<1>9. \A i \in 1..k : v[i] \in Happenings
  BY <1>1, <1>5, <1>6, <1>8
<1>10. v \in Seq(Happenings)
  <2>1. v \in [1..k -> Happenings]
    BY <1>3, <1>9
  <2>. QED  BY <1>1, <2>1
<1>11. IsPart(v, l, d, n)
  BY <1>1, <1>3, <1>6, <1>8 DEF IsPart
<1>12. Alike(v, u, l, d, c)
  BY <1>4, <1>6, <1>7, <1>10, <1>11 DEF Alike, n
<1>. QED  BY <1>12 DEF u

LEMMA MaxIs ==
  ASSUME NEW S, S \subseteq Int, NEW m \in S, \A i \in S : i <= m
  PROVE  Behavior!Max(S) = m
<1>1. \A k \in S : (\A i \in S : k >= i) => k = m
  OBVIOUS
<1>2. \A i \in S : m >= i
  OBVIOUS
<1>. QED  BY <1>1, <1>2 DEF Behavior!Max

\* A session a list has named last at a time.
LEMMA LastNamedIs ==
  ASSUME NEW l \in Seq(Happenings), NEW s, LastOf(l, s)
  PROVE  Behavior!LastNamed(l, s.id) = s.at
<1>. DEFINE J == {j \in DOMAIN l : l[j].session = s.id}  S == {l[i].at : i \in J}
<1>1. \A i \in DOMAIN l : l[i].at \in Nat
  <2>1. \A i \in DOMAIN l : l[i] \in Happenings
    OBVIOUS
  <2>. QED  BY <2>1 DEF Happenings
<1>2. S \subseteq Int /\ s.at \in S /\ \A i \in S : i <= s.at
  BY <1>1 DEF LastOf
<1>3. Behavior!LastNamed(l, s.id) = Behavior!Max(S)
  BY DEF Behavior!LastNamed
<1>. HIDE DEF S
<1>. QED  BY <1>2, <1>3, MaxIs

LEMMA NamedLast ==
  ASSUME NEW l \in Seq(Happenings), Dated(l), NEW i \in DOMAIN l
  PROVE  \E a : LastOf(l, [id |-> l[i].session, at |-> a])
<1>. DEFINE n == Len(l)  J == {j \in 1..n : l[j].session = l[i].session}
<1>1. n \in Nat /\ DOMAIN l = 1..n /\ J # {} /\ J \subseteq 1..n
  OBVIOUS
<1>2. PICK m \in J : \A j \in J : j <= m
  <2>. HIDE DEF J, n
  <2>. QED  BY <1>1, GreatestExists
<1>3. \A j \in DOMAIN l : l[j].session = l[i].session => l[j].at <= l[m].at
  <2>1. ASSUME NEW j \in DOMAIN l, l[j].session = l[i].session PROVE l[j].at <= l[m].at
    <3>1. j \in J
      BY <1>1, <2>1
    <3>2. j <= m /\ m \in DOMAIN l
      BY <1>1, <1>2, <3>1
    <3>. QED  BY <3>2 DEF Dated
  <2>. QED  BY <2>1
<1>. DEFINE s == [id |-> l[i].session, at |-> l[m].at]
<1>4. LastOf(l, s)
  <2>1. m \in DOMAIN l /\ l[m].session = s.id /\ l[m].at = s.at /\ s.id = l[i].session
    BY <1>1
  <2>. HIDE DEF s
  <2>. QED  BY <1>3, <2>1 DEF LastOf
<1>. QED  BY <1>4

LEMMA SessionsAlike ==
  ASSUME now \in Nat, NEW l \in Seq(Happenings), Dated(l), NEW p \in Profiles, Recalls(p, l, now)
  PROVE  {s \in p.sessions : now - s.at <= SessionWindow} = {s \in Behavior!Named(l) : now - s.at <= SessionWindow}
<1>. DEFINE Active(ss) == {s \in ss : now - s.at <= SessionWindow}
<1>1. \A i \in DOMAIN l : l[i].at \in Nat /\ l[i].session \in SessionNames \cup {None}
  <2>1. \A i \in DOMAIN l : l[i] \in Happenings
    OBVIOUS
  <2>. QED  BY <2>1 DEF Happenings
<1>2. p.sessions \subseteq Sessions
  BY DEF Profiles
<1>3. ASSUME NEW s \in p.sessions PROVE s \in Behavior!Named(l)
  <2>1. LastOf(l, s) /\ s \in Sessions
    BY <1>2 DEF Recalls
  <2>2. PICK i \in DOMAIN l : l[i].session = s.id
    BY <2>1 DEF LastOf
  <2>3. s.id # None
    BY <2>1 DEF Sessions, SessionNames
  <2>4. Behavior!LastNamed(l, s.id) = s.at
    BY <2>1, LastNamedIs
  <2>5. s = [id |-> s.id, at |-> s.at]
    BY <2>1 DEF Sessions
  <2>6. s.id \in {l[j].session : j \in DOMAIN l} \ {None}
    BY <2>2, <2>3
  <2>. QED  BY <2>4, <2>5, <2>6 DEF Behavior!Named
<1>4. ASSUME NEW s \in Behavior!Named(l), now - s.at <= SessionWindow PROVE s \in p.sessions
  <2>1. PICK i \in DOMAIN l : l[i].session # None /\ s = [id |-> l[i].session, at |-> Behavior!LastNamed(l, l[i].session)]
    BY DEF Behavior!Named
  <2>2. PICK a : LastOf(l, [id |-> l[i].session, at |-> a])
    BY NamedLast
  <2>3. s = [id |-> l[i].session, at |-> a]
    <3>. DEFINE u == [id |-> l[i].session, at |-> a]
    <3>1. LastOf(l, u) /\ u.id = l[i].session /\ u.at = a
      BY <2>2
    <3>. HIDE DEF u
    <3>2. Behavior!LastNamed(l, u.id) = u.at
      BY <3>1, LastNamedIs
    <3>. QED  BY <2>1, <3>1, <3>2
  <2>4. LastOf(l, s)
    BY <2>2, <2>3
  <2>5. PICK j \in DOMAIN l : l[j].session = s.id /\ l[j].at = s.at
    BY <2>4 DEF LastOf
  <2>6. l[j].session # None /\ l[j].at >= now - SessionWindow
    <3>1. l[j].at \in Nat /\ SessionWindow \in Nat
      BY <1>1, BehaviorConstants
    <3>. QED  BY <1>4, <2>1, <2>5, <3>1
  <2>7. PICK u \in p.sessions : u.id = l[j].session
    BY <2>6 DEF Recalls
  <2>8. LastOf(l, u) /\ u \in Sessions /\ u.id = s.id
    BY <1>2, <2>5, <2>7 DEF Recalls
  <2>9. u.at = s.at
    BY <2>4, <2>8, LastNamedIs
  <2>10. u = [id |-> u.id, at |-> u.at] /\ s = [id |-> s.id, at |-> s.at]
    BY <2>3, <2>8 DEF Sessions
  <2>. QED  BY <2>7, <2>8, <2>9, <2>10
<1>. QED  BY <1>3, <1>4

\* What an undisturbed analysis finds.
LEMMA AlertsAlike ==
  ASSUME now \in Nat, NEW p \in Profiles, NEW l \in Seq(Happenings), Dated(l), InStep(p, l, now),
         NEW v, PlainView(p, v), NEW e
  PROVE  /\ Behavior!EarlierAlerts(v, p.sessions, e) = Behavior!EarlierAlerts(Behavior!Latest(l), Behavior!Named(l), e)
         /\ Behavior!countEvents(v, MediumWindow, Behavior!Statuses, Behavior!Paths)
              = Behavior!countEvents(Behavior!Latest(l), MediumWindow, Behavior!Statuses, Behavior!Paths)
         /\ Behavior!errorsOf(v) = Behavior!errorsOf(Behavior!Latest(l))
<1>. DEFINE u == Behavior!Latest(l)  ss == p.sessions  tt == Behavior!Named(l)
<1>1. PICK d, c : Alike(v, u, l, d, c)
  BY ViewAlike DEF InStep
<1>. HIDE DEF u
<1>2. \A w \in 0..(LongWindow - 1) : \A x, y : Behavior!countEvents(v, w, x, y) = Behavior!countEvents(u, w, x, y)
  BY <1>1, AlikeCounts
<1>3. \A w \in 0..(LongWindow - 1) : \A y : Behavior!uniquePaths(v, w, y) = Behavior!uniquePaths(u, w, y)
  BY <1>1, AlikePaths
<1>4. /\ \A x, y : Behavior!countEvents(v, MediumWindow, x, y) = Behavior!countEvents(u, MediumWindow, x, y)
      /\ \A x, y : Behavior!countEvents(v, ShortWindow, x, y) = Behavior!countEvents(u, ShortWindow, x, y)
      /\ \A y : Behavior!uniquePaths(v, ShortWindow, y) = Behavior!uniquePaths(u, ShortWindow, y)
  BY <1>2, <1>3, BehaviorConstants
<1>5. Behavior!detectSessionAnomaly(ss) = Behavior!detectSessionAnomaly(tt)
  <2>1. {s \in ss : now - s.at <= SessionWindow} = {s \in tt : now - s.at <= SessionWindow}
    BY SessionsAlike DEF InStep
  <2>. HIDE DEF ss, tt
  <2>. QED  BY <2>1 DEF Behavior!detectSessionAnomaly
<1>. HIDE DEF ss, tt
<1>6. Behavior!detectCredentialStuffing(v, e) = Behavior!detectCredentialStuffing(u, e)
  BY <1>4 DEF Behavior!detectCredentialStuffing
<1>7. Behavior!detectAPIEnumeration(v) = Behavior!detectAPIEnumeration(u)
  BY <1>4 DEF Behavior!detectAPIEnumeration
<1>8. Behavior!detectScraping(v) = Behavior!detectScraping(u)
  BY <1>4 DEF Behavior!detectScraping
<1>9. Behavior!detectTemporalAnomaly(v) = Behavior!detectTemporalAnomaly(u)
  BY <1>4 DEF Behavior!detectTemporalAnomaly
<1>10. Behavior!EarlierAlerts(v, ss, e) = Behavior!EarlierAlerts(u, tt, e)
  BY <1>5, <1>6, <1>7, <1>8, <1>9 DEF Behavior!EarlierAlerts
<1>11. Behavior!errorsOf(v) = Behavior!errorsOf(u)
  BY <1>4 DEF Behavior!errorsOf
<1>. QED  BY <1>4, <1>10, <1>11 DEF u, ss, tt

\* An analysis asks for the rate of errors last.
LEMMA CalledInTurn ==
  ASSUME NEW l, NEW e
  PROVE  LET a == Behavior!First(Behavior!EarlierAlerts(Behavior!Latest(l), Behavior!Named(l), e))
             total == Behavior!countEvents(Behavior!Latest(l), MediumWindow, Behavior!Statuses, Behavior!Paths)
         IN  CalledBy(l, e) = IF a # Behavior!NoAlert THEN a
                              ELSE Behavior!detectErrorRate(Behavior!errorsOf(Behavior!Latest(l)), total)
<1>. DEFINE found == Behavior!EarlierAlerts(Behavior!Latest(l), Behavior!Named(l), e)
            rate == Behavior!detectErrorRate(Behavior!errorsOf(Behavior!Latest(l)),
                      Behavior!countEvents(Behavior!Latest(l), MediumWindow, Behavior!Statuses, Behavior!Paths))
            T == {found[i] : i \in 1..5} \cup {rate}
<1>1. found \in Seq(T)
  <2>1. found = [i \in 1..5 |-> found[i]]
    BY DEF Behavior!EarlierAlerts
  <2>. HIDE DEF found
  <2>2. found \in [1..5 -> T]
    BY <2>1
  <2>. DEFINE n == 5
  <2>3. n \in Nat /\ found \in [1..n -> T]
    BY <2>2
  <2>. HIDE DEF T, n
  <2>. QED  BY <2>3
<1>2. rate \in T
  OBVIOUS
<1>3. CalledBy(l, e) = Behavior!First(Append(found, rate))
  BY DEF CalledBy
<1>. HIDE DEF found, rate, T
<1>4. Behavior!First(Append(found, rate)) = IF Behavior!First(found) # Behavior!NoAlert THEN Behavior!First(found) ELSE rate
  BY <1>1, <1>2, FirstAppend
<1>. QED  BY <1>3, <1>4 DEF found, rate

-----------------------------------------------------------------------------
(* The behavioral detector: the steps of an analysis.                      *)

LEMMA AddressStepKeeps ==
  ASSUME BehaviorInv, NEW c \in Visitors, StepAt(c), BehaviorTyped', OfAddress(c)'
  PROVE  BehaviorInv'
<1>1. ProfilesOwned'
  BY ProfilesStayOwned
<1>2. \A d \in Visitors : d # c => OfAddress(d)'
  BY AddressesStay
<1>. QED  BY <1>1, <1>2 DEF BehaviorInv

\* An analysis that goes on writes nothing but where it is.
GoesOn(t, r) ==
  /\ req' = [req EXCEPT ![t] = r]
  /\ UNCHANGED <<profiles, heap, cleaner, now, night, events, single, swept>>
  /\ AnalysisTyped(r)
  /\ r # Behavior!Idle => r.pc # "idle" /\ r.ip = req[t].ip /\ r.id = req[t].id /\ r.event = req[t].event
  /\ r.pc \in {"append", "record"} <=> req[t].pc \in {"append", "record"}
  /\ r.pc = "record" => r.header.to = heap[r.id].to
  /\ r.pc = "alert" => Behavior!Earned(req[t].ip, r.alert.name)
  /\ single[req[t].ip] => IF r = Behavior!Idle THEN Rests(req[t].ip) ELSE Works(r)

LEMMA EarnedStays ==
  ASSUME UNCHANGED <<now, night>>, NEW d, events'[d] = events[d], swept'[d] = swept[d], NEW n
  PROVE  Behavior!Earned(d, n)' <=> Behavior!Earned(d, n)
BY DEF Behavior!Earned, Behavior!countEvents, Behavior!uniquePaths, Behavior!Since, Behavior!errorsOf

LEMMA WorksStays ==
  ASSUME UNCHANGED <<profiles, heap, now, night, events>>, NEW r
  PROVE  Works(r)' <=> Works(r)
<1>1. Behavior!Called(r.ip, r.event)' = Behavior!Called(r.ip, r.event)
  <2>1. Behavior!Called(r.ip, r.event)' = CalledBy(events[r.ip], r.event)'
    BY DEF Behavior!Called, CalledBy
  <2>2. CalledBy(events[r.ip], r.event)' = CalledBy(events[r.ip], r.event)
    BY SameTimeSameCalls
  <2>. QED  BY <2>1, <2>2, CallsByEvents
<1>. DEFINE NoneEarlier == Behavior!First(Behavior!EarlierAlerts(Behavior!Latest(events[r.ip]), Behavior!Named(events[r.ip]), r.event))
                       = Behavior!NoAlert
            AllOf == Behavior!countEvents(Behavior!Latest(events[r.ip]), MediumWindow, Behavior!Statuses, Behavior!Paths)
<1>2. (NoneEarlier' <=> NoneEarlier) /\ AllOf' = AllOf
  BY SameTimeSameCalls
<1>. QED  BY <1>1, <1>2 DEF Works

LEMMA MovedKeeps ==
  ASSUME BehaviorInv, NEW t \in Threads, req[t] # Behavior!Idle, NEW r, GoesOn(t, r)
  PROVE  BehaviorInv'
<1>1. BehaviorTyped /\ AnalysisTyped(req[t]) /\ req = [u \in Threads |-> req[u]]
  BY DEF BehaviorInv, BehaviorTyped
<1>2. PICK c \in Visitors : req[t].ip = c /\ req[t].pc # "idle" /\ Serves(t, c)
  BY <1>1 DEF AnalysisTyped, Serves, Behavior!Serving, Analyzing
<1>3. /\ req' = [req EXCEPT ![t] = r] /\ AnalysisTyped(r)
      /\ UNCHANGED <<profiles, heap, cleaner, now, night, events, single, swept>>
  BY DEF GoesOn
<1>4. OfAddress(c)
  BY <1>2 DEF BehaviorInv
<1>5. req'[t] = r /\ \A u \in Threads : u # t => req'[u] = req[u]
  BY <1>1, <1>3
<1>6. req' = [u \in Threads |-> req'[u]]
  BY <1>1, <1>3
<1>7. BehaviorTyped'
  <2>1. \A u \in Threads : AnalysisTyped(req[u])'
    BY <1>1, <1>3, <1>5 DEF BehaviorTyped, AnalysisTyped
  <2>2. CleanerTyped'
    BY <1>1, <1>3 DEF BehaviorTyped, CleanerTyped
  <2>. QED  BY <1>1, <1>3, <1>6, <2>1, <2>2 DEF BehaviorTyped
<1>8. /\ \A u \in Threads, d \in Visitors : Serves(u, d)' => Serves(u, d)
      /\ \A u \in Threads, d \in Visitors : u # t => (Serves(u, d)' <=> Serves(u, d))
      /\ \A d \in Visitors : Serves(t, d)' <=> (r # Behavior!Idle /\ d = c)
  <2>1. \A u \in Threads, d \in Visitors : u # t => (Serves(u, d)' <=> Serves(u, d))
    BY <1>5 DEF Serves, Behavior!Serving
  <2>2. \A d \in Visitors : Serves(t, d)' <=> (r # Behavior!Idle /\ d = c)
    BY <1>2, <1>5 DEF Serves, Behavior!Serving, GoesOn, Behavior!Idle
  <2>. QED  BY <1>2, <2>1, <2>2
<1>9. r # Behavior!Idle => r.ip = c /\ r.id = req[t].id /\ r.event = req[t].event
  BY <1>2 DEF GoesOn
<1>10. \A d \in Visitors : \A i : HoldsProfile(d, i)' => HoldsProfile(d, i)
  <2>1. \A d \in Visitors : Filters(d)' <=> Filters(d)
    BY <1>3 DEF Filters
  <2>2. \A u \in Threads, d \in Visitors : Serves(u, d)' => Serves(u, d) /\ req'[u].id = req[u].id
    BY <1>5, <1>8, <1>9
  <2>. QED  BY <1>3, <2>1, <2>2 DEF HoldsProfile
<1>11. StepAt(c)
  <2>1. \A u \in Threads : req'[u] = req[u] \/ \A d \in Visitors : d # c => ~Serves(u, d) /\ ~Serves(u, d)'
    <3>1. \A d \in Visitors : d # c => ~Serves(t, d)
      BY <1>2 DEF Serves, Behavior!Serving
    <3>. QED  BY <1>5, <1>8, <3>1
  <2>2. heap' \in Seq(Profiles)
    BY <1>1, <1>3 DEF BehaviorTyped
  <2>. QED  BY <1>2, <1>3, <1>10, <2>1, <2>2 DEF StepAt
<1>12. OfAddress(c)'
  <2>1. Dated(events[c])'
    BY <1>3, <1>4 DEF OfAddress, Dated
  <2>2. Genuine(c)'
    <3>1. \A u \in Threads : Serves(u, c)' => Serves(u, c) /\ req'[u].event = req[u].event
      BY <1>2, <1>5, <1>8, <1>9
    <3>2. Filters(c)' <=> Filters(c)
      BY <1>3 DEF Filters
    <3>3. \A i \in DOMAIN heap : HoldsProfile(c, i)' => HoldsProfile(c, i)
      BY <1>2, <1>10
    <3>. QED  BY <1>3, <1>4, <3>1, <3>2, <3>3 DEF OfAddress, Genuine
  <2>3. Tallied(c)'
    <3>1. SUFFICES ASSUME ~swept[c] PROVE (\A E \in Kinds : NoMore(c, E)') /\ (Sweeps(c)' => \A u \in Threads : ~Serves(u, c)')
      BY <1>3 DEF Tallied, Kinds, Happenings, SessionNames
    <3>2. Sweeps(c)' <=> Sweeps(c)
      BY <1>3 DEF Sweeps
    <3>3. Sweeps(c) => \A u \in Threads : ~Serves(u, c)
      BY <1>4, <3>1 DEF OfAddress, Tallied
    <3>4. ASSUME NEW E \in Kinds PROVE NoMore(c, E)'
      <4>1. NoMore(c, E)
        BY <1>4, <3>1 DEF OfAddress, Tallied
      <4>2. Unwritten(c, E)' = Unwritten(c, E)
        <5>1. (Serves(t, c)' /\ req'[t].pc \in {"append", "record"} /\ req'[t].event \in E)
                <=> (Serves(t, c) /\ req[t].pc \in {"append", "record"} /\ req[t].event \in E)
          BY <1>2, <1>5, <1>8, <1>9 DEF GoesOn, Behavior!Idle
        <5>. QED  BY <1>2, <1>5, <1>8, <5>1 DEF Unwritten
      <4>3. Filters(c)' <=> Filters(c)
        BY <1>3 DEF Filters
      <4>4. ASSUME NEW i \in DOMAIN heap, HoldsProfile(c, i)' PROVE HoldsProfile(c, i)
        BY <1>2, <1>10, <4>4
      <4>. DEFINE most == Count(events[c], E) - Cardinality(Unwritten(c, E))
      <4>5. most' = most
        BY <1>3, <4>2
      <4>6. ASSUME NEW u \in Threads, Serves(u, c)', req'[u].pc = "record"
            PROVE  Upto(heap[req'[u].id].slots, req'[u].header.to, E) <= most
        <5>1. CASE u # t
          BY <1>2, <1>5, <1>8, <4>1, <4>6, <5>1 DEF NoMore
        <5>2. CASE u = t
          <6>1. r.pc = "record" /\ r # Behavior!Idle /\ r.id = req[t].id
            BY <1>2, <1>5, <1>8, <1>9, <4>6, <5>2
          <6>2. r.header.to = heap[r.id].to
            BY <6>1 DEF GoesOn
          <6>3. r.id \in DOMAIN heap /\ HoldsProfile(c, r.id)
            BY <1>2, <6>1, ServesTyped
          <6>4. Upto(heap[r.id].slots, heap[r.id].to, E) <= most
            BY <4>1, <6>3 DEF NoMore
          <6>. QED  BY <1>5, <5>2, <6>2, <6>4
        <5>. QED  BY <5>1, <5>2
      <4>7. /\ 0 <= most
            /\ \A i \in DOMAIN heap : HoldsProfile(c, i)' => Upto(heap[i].slots, heap[i].to, E) <= most
            /\ Filters(c)' => Upto(heap[cleaner.id].slots, cleaner.from, E) + Count(cleaner.kept, E) <= most
        BY <4>1, <4>3, <4>4 DEF NoMore
      <4>. HIDE DEF most
      <4>8. /\ heap' = heap /\ cleaner' = cleaner /\ DOMAIN heap' = DOMAIN heap
        BY <1>3
      <4>. QED  BY <4>5, <4>6, <4>7, <4>8 DEF NoMore, most
    <3>. QED  BY <1>2, <1>8, <3>2, <3>3, <3>4
  <2>4. Warned(c)'
    <3>1. ASSUME NEW u \in Threads, Serves(u, c)', req'[u].pc = "alert" PROVE Behavior!Earned(c, req'[u].alert.name)
      <4>1. CASE u # t
        BY <1>2, <1>4, <1>5, <1>8, <3>1, <4>1 DEF OfAddress, Warned
      <4>2. CASE u = t
        BY <1>2, <1>5, <3>1, <4>2 DEF GoesOn
      <4>. QED  BY <4>1, <4>2
    <3>2. \A n : Behavior!Earned(c, n)' <=> Behavior!Earned(c, n)
      BY <1>3, EarnedStays
    <3>. QED  BY <3>1, <3>2 DEF Warned
  <2>5. Alone(c)'
    <3>1. SUFFICES ASSUME single[c]
                   PROVE  /\ \A u, w \in Threads : Serves(u, c)' /\ Serves(w, c)' => u = w
                          /\ (\A u \in Threads : ~Serves(u, c)') => Rests(c)'
                          /\ \A u \in Threads : Serves(u, c)' => Works(req[u])'
                          /\ Sweeps(c)' => Cleans(c)'
      BY <1>3 DEF Alone
    <3>2. /\ \A u, w \in Threads : Serves(u, c) /\ Serves(w, c) => u = w
          /\ Sweeps(c) => Cleans(c)
      BY <1>4, <3>1 DEF OfAddress, Alone
    <3>3. ~Sweeps(c) /\ ~Sweeps(c)'
      BY <1>2, <1>3, <3>2 DEF Cleans, Sweeps
    <3>4. IF r = Behavior!Idle THEN Rests(c) ELSE Works(r)
      BY <1>2, <3>1 DEF GoesOn
    <3>5. Rests(c)' <=> Rests(c)
      BY <1>3 DEF Rests
    <3>6. \A u \in Threads : Serves(u, c)' => u = t /\ r # Behavior!Idle
      BY <1>2, <1>8, <3>2
    <3>7. (\A u \in Threads : ~Serves(u, c)') => r = Behavior!Idle
      BY <1>2, <1>8
    <3>8. r # Behavior!Idle => Works(req[t])'
      <4>1. Works(r)' <=> Works(r)
        BY <1>3, WorksStays
      <4>. QED  BY <1>5, <3>4, <4>1 DEF Works
    <3>. QED  BY <1>2, <1>8, <3>2, <3>3, <3>4, <3>5, <3>6, <3>7, <3>8
  <2>. QED  BY <2>1, <2>2, <2>3, <2>4, <2>5 DEF OfAddress
<1>. QED  BY <1>2, <1>7, <1>11, <1>12, AddressStepKeeps

LEMMA Analyzes ==
  ASSUME BehaviorInv, NEW t \in Threads, req[t].pc # "idle"
  PROVE  /\ req[t].ip \in Visitors /\ Serves(t, req[t].ip) /\ req[t] # Behavior!Idle /\ AnalysisTyped(req[t])
         /\ OfAddress(req[t].ip)
         /\ single[req[t].ip] => Works(req[t])
<1>1. AnalysisTyped(req[t]) /\ req[t] # Behavior!Idle
  BY DEF BehaviorInv, BehaviorTyped, Behavior!Idle
<1>2. req[t].ip \in Visitors /\ Serves(t, req[t].ip)
  BY <1>1 DEF AnalysisTyped, Serves, Behavior!Serving
<1>3. OfAddress(req[t].ip)
  BY <1>2 DEF BehaviorInv
<1>4. single[req[t].ip] => Works(req[t])
  BY <1>2, <1>3 DEF OfAddress, Alone
<1>. QED  BY <1>1, <1>2, <1>3, <1>4

LEMMA ReadEventsKeeps ==
  ASSUME BehaviorInv, NEW t \in Threads, Behavior!ReadEvents(t)
  PROVE  BehaviorInv'
<1>. DEFINE p == heap[req[t].id]
            r == [pc |-> "record", ip |-> req[t].ip, id |-> req[t].id, event |-> req[t].event,
                  header |-> [from |-> p.from, to |-> p.to]]
<1>1. /\ req[t].pc = "append" /\ req' = [req EXCEPT ![t] = r]
      /\ UNCHANGED <<profiles, heap, cleaner, now, night, events, single, swept>>
  BY DEF Behavior!ReadEvents, Behavior!At
<1>2. Serves(t, req[t].ip) /\ req[t].ip \in Visitors /\ req[t] # Behavior!Idle /\ AnalysisTyped(req[t])
  BY <1>1, Analyzes
<1>3. /\ p.from \in Nat /\ p.to \in Nat /\ p.from <= p.to /\ p.to <= Len(p.slots)
      /\ req[t].id \in DOMAIN heap /\ req[t].event \in Happenings
  BY <1>2, ServesTyped
<1>4. /\ r.pc = "record" /\ r.ip = req[t].ip /\ r.id = req[t].id /\ r.event = req[t].event
      /\ r.header = [from |-> p.from, to |-> p.to] /\ r.header.from = p.from /\ r.header.to = p.to
      /\ r # Behavior!Idle
  BY DEF Behavior!Idle
<1>5. single[req[t].ip] => Works(req[t])
  BY <1>1, Analyzes
<1>. HIDE DEF r
<1>6. AnalysisTyped(r)
  BY <1>2, <1>3, <1>4 DEF AnalysisTyped, Analyzing
<1>7. single[req[t].ip] => Works(r)
  BY <1>1, <1>4, <1>5 DEF Works
<1>8. GoesOn(t, r)
  BY <1>1, <1>4, <1>6, <1>7 DEF GoesOn
<1>. QED  BY <1>2, <1>8, MovedKeeps

LEMMA FinishKeeps ==
  ASSUME BehaviorInv, NEW t \in Threads, Behavior!Finish(t)
  PROVE  BehaviorInv'
<1>. DEFINE r == Behavior!Idle
<1>1. /\ req[t].pc = "alert" /\ req' = [req EXCEPT ![t] = r]
      /\ UNCHANGED <<profiles, heap, cleaner, now, night, events, single, swept>>
  BY DEF Behavior!Finish, Behavior!At
<1>2. Serves(t, req[t].ip) /\ req[t].ip \in Visitors /\ req[t] # Behavior!Idle /\ AnalysisTyped(req[t])
  BY <1>1, Analyzes
<1>3. req[t].id \in DOMAIN heap /\ req[t].id # None
  <2>1. req[t].id \in DOMAIN heap /\ heap \in Seq(Profiles)
    BY <1>2, ServesTyped DEF BehaviorInv, BehaviorTyped
  <2>2. req[t].id \in Nat
    BY <2>1
  <2>. QED  BY <2>1, <2>2, BehaviorConstants
<1>4. single[req[t].ip] => Works(req[t])
  BY <1>1, Analyzes
<1>5. single[req[t].ip] => Rests(req[t].ip)
  BY <1>1, <1>3, <1>4 DEF Works, Rests
<1>6. AnalysisTyped(r) /\ r.pc = "idle"
  BY DEF AnalysisTyped, Behavior!Idle
<1>7. GoesOn(t, r)
  BY <1>1, <1>5, <1>6 DEF GoesOn
<1>. QED  BY <1>2, <1>7, MovedKeeps

\* What a view of the detectors' is like.
LEMMA AnalysisViews ==
  ASSUME BehaviorInv, NEW t \in Threads, req[t].pc # "idle", NEW v \in Behavior!Views(req[t].id)
  PROVE  /\ Watches(req[t].ip, v)
         /\ single[req[t].ip] => PlainView(heap[req[t].id], v)
         /\ heap[req[t].id].sessions \subseteq Sessions
         /\ SessionsTrue(heap[req[t].id].sessions, events[req[t].ip])
         /\ heap[req[t].id] \in Profiles /\ events[req[t].ip] \in Seq(Happenings) /\ Dated(events[req[t].ip])
<1>. DEFINE ip == req[t].ip  p == heap[req[t].id]
<1>1. ip \in Visitors /\ Serves(t, ip) /\ OfAddress(ip)
  BY Analyzes
<1>2. Watches(ip, v) /\ (~Filters(ip) => PlainView(p, v))
  BY <1>1, ViewsSee
<1>3. single[ip] => ~Filters(ip)
  <2>1. single[ip] /\ Sweeps(ip) => ~Serves(t, ip)
    BY <1>1 DEF OfAddress, Alone, Cleans
  <2>. QED  BY <1>1, <2>1 DEF Filters, Sweeps
<1>4. p \in Profiles /\ p.sessions \subseteq Sessions /\ events[ip] \in Seq(Happenings)
      /\ req[t].id \in DOMAIN heap /\ HoldsProfile(ip, req[t].id)
  BY <1>1, ServesTyped
<1>5. SessionsTrue(p.sessions, events[ip])
  BY <1>1, <1>4 DEF OfAddress, Genuine
<1>. QED  BY <1>1, <1>2, <1>3, <1>4, <1>5 DEF OfAddress

LEMMA DetectKeeps ==
  ASSUME BehaviorInv, NEW t \in Threads, Behavior!Detect(t)
  PROVE  BehaviorInv'
<1>1. req[t].pc = "detect" /\ req[t].pc # "idle"
  BY DEF Behavior!Detect, Behavior!At
<1>2. PICK v \in Behavior!Views(req[t].id) :
        LET alert == Behavior!First(Behavior!EarlierAlerts(v, heap[req[t].id].sessions, req[t].event))
            total == Behavior!countEvents(v, MediumWindow, Behavior!Statuses, Behavior!Paths)
        IN  req' = [req EXCEPT ![t] =
              IF alert = Behavior!NoAlert
                THEN [pc |-> "errors", ip |-> req[t].ip, id |-> req[t].id, event |-> req[t].event, total |-> total]
                ELSE [pc |-> "alert", ip |-> req[t].ip, id |-> req[t].id, event |-> req[t].event, alert |-> alert]]
  BY DEF Behavior!Detect
<1>. DEFINE ip == req[t].ip  e == req[t].event  p == heap[req[t].id]  l == events[ip]
            alert == Behavior!First(Behavior!EarlierAlerts(v, p.sessions, e))
            total == Behavior!countEvents(v, MediumWindow, Behavior!Statuses, Behavior!Paths)
            r == IF alert = Behavior!NoAlert
                   THEN [pc |-> "errors", ip |-> ip, id |-> req[t].id, event |-> e, total |-> total]
                   ELSE [pc |-> "alert", ip |-> ip, id |-> req[t].id, event |-> e, alert |-> alert]
<1>3. /\ req' = [req EXCEPT ![t] = r]
      /\ UNCHANGED <<profiles, heap, cleaner, now, night, events, single, swept>>
  BY <1>2 DEF Behavior!Detect
<1>4. /\ ip \in Visitors /\ Serves(t, ip) /\ req[t] # Behavior!Idle /\ AnalysisTyped(req[t])
      /\ single[ip] => Works(req[t])
  BY <1>1, Analyzes
<1>5. req[t].id \in DOMAIN heap /\ e \in Happenings /\ BehaviorTyped /\ now \in Nat
  BY <1>4, ServesTyped DEF BehaviorInv, BehaviorTyped
<1>6. /\ Watches(ip, v)
      /\ single[ip] => PlainView(p, v)
      /\ p.sessions \subseteq Sessions /\ SessionsTrue(p.sessions, l)
      /\ p \in Profiles /\ l \in Seq(Happenings) /\ Dated(l)
  BY <1>1, AnalysisViews
<1>7. total \in Nat
  <2>1. total = Count(v, Kind(MediumWindow, Behavior!Statuses, Behavior!Paths)) /\ v \in Seq(Happenings)
    BY <1>6, CountIs DEF Watches
  <2>. QED  BY <2>1, CountType
<1>8. alert # Behavior!NoAlert => Behavior!Earned(ip, alert.name)
  <2>1. alert = Behavior!NoAlert \/ Raised(alert, v, p.sessions, e)
    BY EarlierRaised
  <2>. QED  BY <1>4, <1>5, <1>6, <2>1, EarlierEarned
<1>9. single[ip] => /\ alert = Behavior!First(Behavior!EarlierAlerts(Behavior!Latest(l), Behavior!Named(l), e))
                    /\ total = Behavior!countEvents(Behavior!Latest(l), MediumWindow, Behavior!Statuses, Behavior!Paths)
  <2>1. single[ip] => InStep(p, l, now)
    BY <1>1, <1>4 DEF Works
  <2>. QED  BY <1>5, <1>6, <2>1, AlertsAlike
<1>10. Behavior!Called(ip, e) = CalledBy(l, e)
  BY CallsByEvents
<1>11. single[ip] /\ alert # Behavior!NoAlert => alert = Behavior!Called(ip, e)
  BY <1>9, <1>10, CalledInTurn
<1>12. CASE alert = Behavior!NoAlert
  <2>1. r = [pc |-> "errors", ip |-> ip, id |-> req[t].id, event |-> e, total |-> total]
    BY <1>12
  <2>. HIDE DEF alert, total, r
  <2>2. r.pc = "errors" /\ r.ip = ip /\ r.id = req[t].id /\ r.event = e /\ r.total = total /\ r # Behavior!Idle
    BY <2>1 DEF Behavior!Idle
  <2>3. AnalysisTyped(r)
    BY <1>4, <1>5, <1>7, <2>2 DEF AnalysisTyped, Analyzing
  <2>4. single[ip] => Works(r)
    BY <1>1, <1>4, <1>9, <1>12, <2>2 DEF Works
  <2>5. GoesOn(t, r)
    BY <1>1, <1>3, <2>2, <2>3, <2>4 DEF GoesOn
  <2>. QED  BY <1>4, <2>5, MovedKeeps
<1>13. CASE alert # Behavior!NoAlert
  <2>1. r = [pc |-> "alert", ip |-> ip, id |-> req[t].id, event |-> e, alert |-> alert]
    BY <1>13
  <2>. HIDE DEF alert, total, r
  <2>2. r.pc = "alert" /\ r.ip = ip /\ r.id = req[t].id /\ r.event = e /\ r.alert = alert /\ r # Behavior!Idle
    BY <2>1 DEF Behavior!Idle
  <2>3. AnalysisTyped(r)
    BY <1>4, <1>5, <2>2 DEF AnalysisTyped, Analyzing
  <2>4. single[ip] => Works(r)
    BY <1>1, <1>4, <1>11, <1>13, <2>2 DEF Works
  <2>5. GoesOn(t, r)
    BY <1>1, <1>3, <1>8, <1>13, <2>2, <2>3, <2>4 DEF GoesOn
  <2>. QED  BY <1>4, <2>5, MovedKeeps
<1>. QED  BY <1>12, <1>13

LEMMA DetectErrorRateKeeps ==
  ASSUME BehaviorInv, NEW t \in Threads, Behavior!DetectErrorRate(t)
  PROVE  BehaviorInv'
<1>1. req[t].pc = "errors" /\ req[t].pc # "idle"
  BY DEF Behavior!DetectErrorRate, Behavior!At
<1>2. PICK v \in Behavior!Views(req[t].id) :
        req' = [req EXCEPT ![t] = [pc |-> "alert", ip |-> req[t].ip, id |-> req[t].id, event |-> req[t].event,
                                   alert |-> Behavior!detectErrorRate(Behavior!errorsOf(v), req[t].total)]]
  BY DEF Behavior!DetectErrorRate
<1>. DEFINE ip == req[t].ip  e == req[t].event  p == heap[req[t].id]  l == events[ip]
            alert == Behavior!detectErrorRate(Behavior!errorsOf(v), req[t].total)
            r == [pc |-> "alert", ip |-> ip, id |-> req[t].id, event |-> e, alert |-> alert]
<1>3. /\ req' = [req EXCEPT ![t] = r]
      /\ UNCHANGED <<profiles, heap, cleaner, now, night, events, single, swept>>
  BY <1>2 DEF Behavior!DetectErrorRate
<1>4. /\ ip \in Visitors /\ Serves(t, ip) /\ req[t] # Behavior!Idle /\ AnalysisTyped(req[t])
      /\ single[ip] => Works(req[t])
  BY <1>1, Analyzes
<1>5. req[t].id \in DOMAIN heap /\ e \in Happenings /\ BehaviorTyped /\ now \in Nat /\ req[t].total \in Nat
  BY <1>1, <1>4, ServesTyped DEF BehaviorInv, BehaviorTyped, AnalysisTyped
<1>6. /\ Watches(ip, v)
      /\ single[ip] => PlainView(p, v)
      /\ p \in Profiles /\ l \in Seq(Happenings) /\ Dated(l)
  BY <1>1, AnalysisViews
<1>7. Behavior!Earned(ip, alert.name)
  BY <1>4, <1>5, <1>6, RateEarned
<1>8. single[ip] =>
        /\ Behavior!First(Behavior!EarlierAlerts(Behavior!Latest(l), Behavior!Named(l), e)) = Behavior!NoAlert
        /\ req[t].total = Behavior!countEvents(Behavior!Latest(l), MediumWindow, Behavior!Statuses, Behavior!Paths)
        /\ Behavior!errorsOf(v) = Behavior!errorsOf(Behavior!Latest(l))
  <2>1. single[ip] => InStep(p, l, now)
    BY <1>1, <1>4 DEF Works
  <2>2. single[ip] => Behavior!errorsOf(v) = Behavior!errorsOf(Behavior!Latest(l))
    BY <1>5, <1>6, <2>1, AlertsAlike
  <2>. QED  BY <1>1, <1>4, <2>2 DEF Works
<1>9. single[ip] => alert = Behavior!Called(ip, e)
  BY <1>8, CallsByEvents, CalledInTurn
<1>. HIDE DEF alert
<1>10. r.pc = "alert" /\ r.ip = ip /\ r.id = req[t].id /\ r.event = e /\ r.alert = alert /\ r # Behavior!Idle
  BY DEF Behavior!Idle
<1>. HIDE DEF r
<1>11. AnalysisTyped(r)
  BY <1>4, <1>5, <1>10 DEF AnalysisTyped, Analyzing
<1>12. single[ip] => Works(r)
  BY <1>1, <1>4, <1>9, <1>10 DEF Works
<1>13. GoesOn(t, r)
  BY <1>1, <1>3, <1>7, <1>10, <1>11, <1>12 DEF GoesOn
<1>. QED  BY <1>4, <1>13, MovedKeeps

-----------------------------------------------------------------------------
(* The behavioral detector: an event is recorded.                          *)

LEMMA PutIs ==
  ASSUME NEW T, NEW s \in Seq(T), NEW i \in 1..(Len(s) + 1), NEW e \in T
  PROVE  LET q == Behavior!Put(s, i, e)
         IN  /\ q \in Seq(T) /\ q[i] = e /\ Len(q) \in Nat /\ Len(s) <= Len(q) /\ i <= Len(q)
             /\ \A j \in DOMAIN s : j # i => q[j] = s[j]
             /\ DOMAIN s \subseteq DOMAIN q /\ DOMAIN q \subseteq DOMAIN s \cup {i}
<1>1. Len(s) \in Nat /\ DOMAIN s = 1..Len(s)
  OBVIOUS
<1>2. CASE i > Len(s)
  <2>1. i = Len(s) + 1
    BY <1>1, <1>2
  <2>2. Behavior!Put(s, i, e) = Append(s, e)
    BY <1>2 DEF Behavior!Put
  <2>. QED  BY <1>1, <2>1, <2>2
<1>3. CASE ~(i > Len(s))
  <2>. DEFINE q == [s EXCEPT ![i] = e]
  <2>1. i \in 1..Len(s)
    BY <1>1, <1>3
  <2>2. Behavior!Put(s, i, e) = q
    BY <1>3 DEF Behavior!Put
  <2>3. q \in Seq(T) /\ Len(q) = Len(s) /\ DOMAIN q = DOMAIN s /\ q[i] = e /\ \A j \in DOMAIN s : j # i => q[j] = s[j]
    BY <1>1, <2>1
  <2>. HIDE DEF q
  <2>. QED  BY <1>1, <2>1, <2>2, <2>3
<1>. QED  BY <1>2, <1>3

NamedOnce(ss, e) ==
  IF e.session = None THEN ss ELSE {s \in ss : s.id # e.session} \cup {[id |-> e.session, at |-> e.at]}
Written(p, h, e) ==
  [slots |-> Behavior!Put(p.slots, h.to + 1, e),
   from |-> IF h.from >= h.to + 1 - MaxTrackedEvents THEN h.from ELSE h.to + 1 - MaxTrackedEvents,
   to |-> h.to + 1, sessions |-> NamedOnce(p.sessions, e), lastSeen |-> e.at]

\* A header that was read from the profile.
HeaderOf(h, p) == h.from \in Nat /\ h.to \in Nat /\ h.from <= h.to /\ h.to <= Len(p.slots)

LEMMA WrittenIs ==
  ASSUME NEW p \in Profiles, NEW h, HeaderOf(h, p), NEW e \in Happenings
  PROVE  /\ Written(p, h, e) \in Profiles
         /\ [Behavior!Appended(p, h, e) EXCEPT !.sessions = IF e.session = None THEN @
                                                            ELSE {s \in @ : s.id # e.session} \cup {[id |-> e.session, at |-> e.at]},
                                               !.lastSeen = e.at] = Written(p, h, e)
<1>. DEFINE q == Behavior!Put(p.slots, h.to + 1, e)
            f == IF h.from >= h.to + 1 - MaxTrackedEvents THEN h.from ELSE h.to + 1 - MaxTrackedEvents
<1>1. /\ p.slots \in Seq(Happenings) /\ Len(p.slots) \in Nat /\ p.sessions \subseteq Sessions
      /\ p = [slots |-> p.slots, from |-> p.from, to |-> p.to, sessions |-> p.sessions, lastSeen |-> p.lastSeen]
      /\ h.from \in Nat /\ h.to \in Nat /\ h.from <= h.to /\ h.to <= Len(p.slots) /\ MaxTrackedEvents \in Nat \ {0}
  BY BehaviorConstants DEF Profiles, HeaderOf
<1>2. q \in Seq(Happenings) /\ h.to + 1 <= Len(q)
  <2>1. h.to + 1 \in 1..(Len(p.slots) + 1)
    BY <1>1
  <2>. QED  BY <1>1, <2>1, PutIs
<1>3. f \in Nat /\ f <= h.to + 1 /\ h.to + 1 \in Nat
  <2>1. \A a, b \in Nat : \A m \in Nat \ {0} :
          a <= b => /\ (IF a >= b + 1 - m THEN a ELSE b + 1 - m) \in Nat
                    /\ (IF a >= b + 1 - m THEN a ELSE b + 1 - m) <= b + 1
    OBVIOUS
  <2>. QED  BY <1>1, <2>1
<1>4. NamedOnce(p.sessions, e) \subseteq Sessions /\ e.at \in Nat
  <2>1. e.session \in SessionNames \cup {None} /\ e.at \in Nat
    BY DEF Happenings
  <2>. QED  BY <1>1, <2>1 DEF NamedOnce, Sessions
<1>5. Written(p, h, e) \in Profiles
  <2>. HIDE DEF q, f
  <2>1. Written(p, h, e) = [slots |-> q, from |-> f, to |-> h.to + 1, sessions |-> NamedOnce(p.sessions, e), lastSeen |-> e.at]
    BY DEF Written, q, f
  <2>. QED  BY <1>2, <1>3, <1>4, <2>1 DEF Profiles
<1>6. Behavior!Max({h.from, h.to + 1 - MaxTrackedEvents}) = f
  <2>1. h.from \in Int /\ h.to + 1 - MaxTrackedEvents \in Int
    BY <1>1
  <2>. QED  BY <2>1, MaxOfTwo
<1>7. Behavior!Appended(p, h, e) = [slots |-> q, from |-> f, to |-> h.to + 1, sessions |-> p.sessions, lastSeen |-> p.lastSeen]
  <2>1. Behavior!Appended(p, h, e) = [p EXCEPT !.slots = q, !.to = h.to + 1, !.from = f]
    BY <1>6 DEF Behavior!Appended
  <2>. HIDE DEF q, f
  <2>. QED  BY <1>1, <2>1
<1>8. Written(p, h, e) = [slots |-> q, from |-> f, to |-> h.to + 1, sessions |-> NamedOnce(p.sessions, e), lastSeen |-> e.at]
  BY DEF Written
<1>. DEFINE A == Behavior!Appended(p, h, e)
<1>. HIDE DEF q, f, A
<1>9. A = [slots |-> q, from |-> f, to |-> h.to + 1, sessions |-> p.sessions, lastSeen |-> p.lastSeen]
  BY <1>7 DEF A
<1>10. NamedOnce(A.sessions, e) = NamedOnce(p.sessions, e)
  BY <1>9
<1>. DEFINE N == NamedOnce(p.sessions, e)  B == [A EXCEPT !.sessions = N]
<1>. HIDE DEF N
<1>11. B = [slots |-> q, from |-> f, to |-> h.to + 1, sessions |-> N, lastSeen |-> p.lastSeen]
  BY <1>9
<1>. HIDE DEF B
<1>12. [B EXCEPT !.lastSeen = e.at] = [slots |-> q, from |-> f, to |-> h.to + 1, sessions |-> N, lastSeen |-> e.at]
  BY <1>11
<1>13. [A EXCEPT !.sessions = NamedOnce(@, e), !.lastSeen = e.at] = Written(p, h, e)
  BY <1>8, <1>10, <1>12 DEF B, N
<1>. QED  BY <1>5, <1>13 DEF NamedOnce, A

\* A profile that is in step but for the latest event is in step when that is recorded.
Shorter(l, b, e) ==
  /\ l \in Seq(Happenings) /\ l # <<>> /\ e = l[Len(l)] /\ e \in Happenings
  /\ Len(b) \in Nat /\ Len(l) = Len(b) + 1 /\ DOMAIN b = 1..Len(b) /\ DOMAIN l = 1..Len(l)
  /\ \A i \in 1..Len(b) : b[i] = l[i]

LEMMA BeforeShorter ==
  ASSUME NEW l \in Seq(Happenings), l # <<>>
  PROVE  Shorter(l, Before(l), l[Len(l)])
<1>. DEFINE n == Len(l)  b == Before(l)
<1>1. n \in Nat /\ n >= 1 /\ DOMAIN l = 1..n
  OBVIOUS
<1>2. b = SubSeq(l, 1, n - 1)
  BY DEF Before
<1>3. Len(b) = n - 1 /\ DOMAIN b = 1..(n - 1) /\ \A i \in 1..(n - 1) : b[i] = l[i]
  BY <1>1, <1>2
<1>4. l[n] \in Happenings
  BY <1>1
<1>. HIDE DEF b, n
<1>5. n - 1 \in Nat /\ n = (n - 1) + 1
  BY <1>1
<1>. QED  BY <1>1, <1>3, <1>4, <1>5 DEF Shorter, n, b

LEMMA WrittenShows ==
  ASSUME NEW p \in Profiles, NEW l, NEW b, NEW e, Shorter(l, b, e), NEW x, Shows(p, b, x),
         NEW h, h.from = p.from, h.to = p.to
  PROVE  Shows(Written(p, h, e), l, x)
<1>. DEFINE w == Written(p, h, e)  s == p.slots  q == w.slots  m == MaxTrackedEvents
            f == p.from  g == p.to  n == g - f  k == Len(b)  d == k - n
<1>1. /\ m \in Nat \ {0} /\ f \in Nat /\ g \in Nat /\ f <= g /\ g <= Len(s) /\ s \in Seq(Happenings) /\ Len(s) \in Nat
      /\ DOMAIN s = 1..Len(s)
  BY BehaviorConstants DEF Profiles
<1>2. /\ l \in Seq(Happenings) /\ e = l[Len(l)] /\ e \in Happenings /\ k \in Nat /\ Len(l) = k + 1
      /\ \A i \in 1..k : b[i] = l[i]
  BY DEF Shorter
<1>3. /\ n <= m /\ n <= k
      /\ \A i \in 1..n : s[f + i] = b[d + i]
      /\ n = m \/ \A i \in 1..d : b[i].at <= x - LongWindow
  BY DEF Shows
<1>4. q = Behavior!Put(s, g + 1, e) /\ w.to = g + 1 /\ w.from = IF f >= g + 1 - m THEN f ELSE g + 1 - m
  BY DEF Written
<1>5. q[g + 1] = e /\ \A j \in 1..g : q[j] = s[j]
  <2>1. g + 1 \in 1..(Len(s) + 1)
    BY <1>1
  <2>2. q[g + 1] = e /\ \A j \in DOMAIN s : j # g + 1 => q[j] = s[j]
    <3>. DEFINE i == g + 1
    <3>1. i \in 1..(Len(s) + 1) /\ s \in Seq(Happenings) /\ e \in Happenings /\ q = Behavior!Put(s, i, e)
      BY <1>1, <1>2, <1>4, <2>1
    <3>. HIDE DEF i, q, s
    <3>. QED  BY <3>1, PutIs DEF i
  <2>3. \A j \in 1..g : j \in DOMAIN s /\ j # g + 1
    BY <1>1
  <2>. QED  BY <2>2, <2>3
<1>. DEFINE u == w.from  c == (g + 1) - u  a == (k + 1) - c
<1>. HIDE DEF w, s, q, f, g, k, m
<1>6. n \in Nat /\ d \in Nat /\ g = f + n
  BY <1>1, <1>2, <1>3
<1>. HIDE DEF n, d
<1>7. \A i \in 1..n : q[f + i] = l[d + i]
  <2>1. ASSUME NEW i \in 1..n PROVE q[f + i] = l[d + i]
    <3>1. f + i \in 1..g /\ d + i \in 1..k
      BY <1>1, <1>2, <1>6, <2>1 DEF d
    <3>. QED  BY <1>2, <1>3, <1>5, <2>1, <3>1
  <2>. QED  BY <2>1
<1>8. CASE n = m
  <2>1. u = f + 1 /\ c = m /\ a = d + 1
    BY <1>1, <1>2, <1>4, <1>6, <1>8 DEF d
  <2>2. c <= m /\ c <= k + 1 /\ a + c = k + 1
    BY <1>1, <1>2, <1>3, <1>8, <2>1
  <2>3. ASSUME NEW i \in 1..c PROVE q[u + i] = l[a + i]
    <3>1. CASE i = c
      <4>1. u + i = g + 1 /\ a + i = k + 1
        BY <1>1, <1>6, <1>8, <2>1, <2>2, <3>1
      <4>. QED  BY <1>2, <1>5, <4>1
    <3>2. CASE i # c
      <4>. DEFINE j == i + 1
      <4>1. j \in 1..n /\ f + j = u + i /\ d + j = a + i
        BY <1>1, <1>6, <1>8, <2>1, <3>2
      <4>. HIDE DEF j
      <4>. QED  BY <1>7, <4>1
    <3>. QED  BY <3>1, <3>2
  <2>. QED  BY <1>2, <1>4, <2>1, <2>2, <2>3 DEF Shows, w, q, m
<1>9. CASE n # m
  <2>1. u = f /\ c = n + 1 /\ a = d /\ c <= m /\ c <= k + 1 /\ k = d + n
    BY <1>1, <1>2, <1>3, <1>4, <1>6, <1>9 DEF d
  <2>2. ASSUME NEW i \in 1..c PROVE q[u + i] = l[a + i]
    <3>1. CASE i = c
      <4>. HIDE DEF u, c, a
      <4>1. i = n + 1
        BY <2>1, <3>1
      <4>2. u + i = g + 1
        BY <1>1, <1>6, <2>1, <4>1
      <4>3. a + i = k + 1
        BY <1>2, <1>6, <2>1, <4>1
      <4>. QED  BY <1>2, <1>5, <4>2, <4>3, <3>1
    <3>2. CASE i # c
      <4>1. i \in 1..n
        BY <1>6, <2>1, <3>2
      <4>. QED  BY <1>7, <2>1, <4>1
    <3>. QED  BY <3>1, <3>2
  <2>3. \A i \in 1..a : l[i].at <= x - LongWindow
    <3>1. \A i \in 1..d : i \in 1..k
      BY <1>2, <1>6, <2>1
    <3>. QED  BY <1>2, <1>3, <1>9, <2>1, <3>1
  <2>. QED  BY <1>2, <1>4, <2>1, <2>2, <2>3 DEF Shows, w, q, m
<1>. QED  BY <1>8, <1>9

LEMMA WrittenRecalls ==
  ASSUME NEW p \in Profiles, NEW l, NEW b, NEW e, Shorter(l, b, e), Dated(l), NEW x, Recalls(p, b, x), NEW h
  PROVE  Recalls(Written(p, h, e), l, x)
<1>. DEFINE w == Written(p, h, e)  ss == p.sessions  k == Len(b)
<1>1. /\ l \in Seq(Happenings) /\ e = l[k + 1] /\ e \in Happenings /\ k \in Nat
      /\ DOMAIN b = 1..k /\ DOMAIN l = 1..(k + 1)
      /\ \A i \in 1..k : b[i] = l[i]
  BY DEF Shorter
<1>2. DOMAIN l = DOMAIN b \cup {k + 1} /\ k + 1 \in DOMAIN l /\ \A i \in DOMAIN l : i <= k + 1
  BY <1>1
<1>3. w.sessions = NamedOnce(ss, e)
  BY DEF Written
<1>. HIDE DEF k
<1>4. ASSUME NEW s \in ss, s.id # e.session PROVE LastOf(l, s)
  <2>1. LastOf(b, s)
    BY <1>4 DEF Recalls
  <2>. QED  BY <1>1, <1>2, <1>4, <2>1 DEF LastOf
<1>5. ASSUME NEW s, s.id = e.session, s.at = e.at PROVE LastOf(l, s)
  <2>1. \A i \in DOMAIN l : l[i].at <= l[k + 1].at
    BY <1>2 DEF Dated
  <2>. QED  BY <1>1, <1>2, <1>5, <2>1 DEF LastOf
<1>6. ASSUME NEW s \in w.sessions PROVE LastOf(l, s)
  <2>1. CASE e.session = None
    <3>1. s \in ss /\ s \in Sessions
      BY <1>3, <1>6, <2>1 DEF NamedOnce, Profiles
    <3>2. s.id # e.session
      BY <2>1, <3>1 DEF Sessions, SessionNames
    <3>. QED  BY <1>4, <3>1, <3>2
  <2>2. CASE e.session # None
    <3>1. (s \in ss /\ s.id # e.session) \/ s = [id |-> e.session, at |-> e.at]
      BY <1>3, <1>6, <2>2 DEF NamedOnce
    <3>. QED  BY <1>4, <1>5, <3>1
  <2>. QED  BY <2>1, <2>2
<1>7. ASSUME NEW i \in DOMAIN l, l[i].session # None, l[i].at >= x - SessionWindow
      PROVE  \E s \in w.sessions : s.id = l[i].session
  <2>1. CASE l[i].session = e.session
    <3>1. [id |-> e.session, at |-> e.at] \in w.sessions
      BY <1>3, <1>7, <2>1 DEF NamedOnce
    <3>. QED  BY <2>1, <3>1
  <2>2. CASE l[i].session # e.session
    <3>1. i \in DOMAIN b /\ b[i] = l[i]
      BY <1>1, <1>2, <2>2
    <3>2. PICK s \in ss : s.id = l[i].session
      BY <1>7, <3>1 DEF Recalls
    <3>3. s \in w.sessions
      BY <1>3, <2>2, <3>2 DEF NamedOnce
    <3>. QED  BY <3>2, <3>3
  <2>. QED  BY <2>1, <2>2
<1>. QED  BY <1>6, <1>7 DEF Recalls

LEMMA WrittenTrue ==
  ASSUME NEW p \in Profiles, NEW l \in Seq(Happenings), SessionsTrue(p.sessions, l), NEW h, NEW e \in Happened(l)
  PROVE  SessionsTrue(Written(p, h, e).sessions, l)
<1>. DEFINE ss == NamedOnce(p.sessions, e)  u == [id |-> e.session, at |-> e.at]
<1>1. Written(p, h, e).sessions = ss
  BY DEF Written
<1>2. PICK k \in DOMAIN l : l[k] = e
  BY DEF Happened
<1>3. \A s \in ss : (s \in p.sessions /\ (e.session = None \/ s.id # e.session)) \/ (s = u /\ e.session # None)
  BY DEF NamedOnce
<1>4. u.id = e.session /\ u.at = e.at
  OBVIOUS
<1>. HIDE DEF ss, u
<1>. QED  BY <1>1, <1>2, <1>3, <1>4 DEF SessionsTrue

LEMMA RecordEventIs ==
  ASSUME BehaviorInv, NEW t \in Threads, Behavior!RecordEvent(t)
  PROVE  LET r == req[t]
         IN  /\ r.pc = "record" /\ Serves(t, r.ip) /\ r.ip \in Visitors
             /\ r.id \in DOMAIN heap /\ heap[r.id] \in Profiles /\ HeaderOf(r.header, heap[r.id])
             /\ r.event \in Happenings /\ HoldsProfile(r.ip, r.id)
             /\ heap' = [heap EXCEPT ![r.id] = Written(heap[r.id], r.header, r.event)]
             /\ req' = [req EXCEPT ![t] = [pc |-> "detect", ip |-> r.ip, id |-> r.id, event |-> r.event]]
             /\ UNCHANGED <<profiles, cleaner, now, night, events, single, swept>>
<1>. DEFINE r == req[t]  e == r.event  p == heap[r.id]
<1>1. r.pc = "record" /\ r.pc # "idle"
  BY DEF Behavior!RecordEvent, Behavior!At
<1>2. Serves(t, r.ip) /\ r.ip \in Visitors /\ r # Behavior!Idle /\ AnalysisTyped(r)
  BY <1>1, Analyzes
<1>3. r.id \in DOMAIN heap /\ p \in Profiles /\ e \in Happenings /\ HoldsProfile(r.ip, r.id)
  BY <1>2, ServesTyped
<1>4. HeaderOf(r.header, p)
  BY <1>1, <1>2 DEF AnalysisTyped, HeaderOf
<1>5. [Behavior!Appended(p, r.header, e) EXCEPT !.sessions = IF e.session = None THEN @
                                                            ELSE {s \in @ : s.id # e.session} \cup {[id |-> e.session, at |-> e.at]},
                                               !.lastSeen = e.at] = Written(p, r.header, e)
  BY <1>3, <1>4, WrittenIs
<1>6. heap' = [heap EXCEPT ![r.id] = Written(p, r.header, e)]
  BY <1>5 DEF Behavior!RecordEvent
<1>7. /\ req' = [req EXCEPT ![t] = [pc |-> "detect", ip |-> r.ip, id |-> r.id, event |-> e]]
      /\ UNCHANGED <<profiles, cleaner, now, night, events, single, swept>>
  BY DEF Behavior!RecordEvent
<1>. QED  BY <1>1, <1>2, <1>3, <1>4, <1>6, <1>7

LEMMA WrittenWrites ==
  ASSUME NEW p \in Profiles, NEW h, HeaderOf(h, p), NEW e \in Happenings
  PROVE  LET w == Written(p, h, e)
         IN  /\ w \in Profiles /\ w.to = h.to + 1 /\ w.lastSeen = e.at
             /\ Writes(p.slots, w.slots, h.to, e)
             /\ Len(p.slots) <= Len(w.slots) /\ DOMAIN p.slots \subseteq DOMAIN w.slots
             /\ DOMAIN w.slots \subseteq DOMAIN p.slots \cup {h.to + 1}
<1>. DEFINE w == Written(p, h, e)  s == p.slots  q == w.slots  i == h.to + 1
<1>1. w \in Profiles
  BY WrittenIs
<1>2. q = Behavior!Put(s, i, e) /\ w.to = i /\ w.lastSeen = e.at
  BY DEF Written
<1>3. s \in Seq(Happenings) /\ i \in 1..(Len(s) + 1) /\ Len(s) \in Nat /\ h.to \in Nat /\ DOMAIN s = 1..Len(s) /\ h.to <= Len(s)
  BY DEF Profiles, HeaderOf
<1>. HIDE DEF w, s, i, q
<1>4. /\ q[i] = e /\ Len(s) <= Len(q) /\ \A j \in DOMAIN s : j # i => q[j] = s[j]
      /\ DOMAIN s \subseteq DOMAIN q /\ DOMAIN q \subseteq DOMAIN s \cup {i}
  <2>1. q[i] = e /\ Len(s) <= Len(q) /\ \A j \in DOMAIN s : j # i => q[j] = s[j]
    <3>1. /\ Behavior!Put(s, i, e)[i] = e /\ Len(s) <= Len(Behavior!Put(s, i, e))
          /\ \A j \in DOMAIN s : j # i => Behavior!Put(s, i, e)[j] = s[j]
      BY <1>3, PutIs
    <3>. QED  BY <1>2, <3>1
  <2>2. DOMAIN s \subseteq DOMAIN q /\ DOMAIN q \subseteq DOMAIN s \cup {i}
    <3>1. DOMAIN s \subseteq DOMAIN Behavior!Put(s, i, e) /\ DOMAIN Behavior!Put(s, i, e) \subseteq DOMAIN s \cup {i}
      BY <1>3, PutIs
    <3>. QED  BY <1>2, <3>1
  <2>. QED  BY <2>1, <2>2
<1>5. 1..h.to \subseteq DOMAIN s
  BY <1>3
<1>6. Writes(s, q, h.to, e)
  BY <1>3, <1>4, <1>5 DEF Writes, i
<1>. QED  BY <1>1, <1>2, <1>4, <1>6 DEF w, s, i, q

LEMMA RecordEventKeeps ==
  ASSUME BehaviorInv, NEW t \in Threads, Behavior!RecordEvent(t)
  PROVE  BehaviorInv'
<1>1. PICK r, c, id, e, h, p :
        /\ r = req[t] /\ c = r.ip /\ id = r.id /\ e = r.event /\ h = r.header /\ p = heap[id]
  OBVIOUS
<1>. DEFINE w == Written(p, h, e)  m == h.to  s == p.slots  q == w.slots
            r2 == [pc |-> "detect", ip |-> c, id |-> id, event |-> e]
<1>2. /\ r.pc = "record" /\ Serves(t, c) /\ c \in Visitors
      /\ id \in DOMAIN heap /\ p \in Profiles /\ HeaderOf(h, p) /\ e \in Happenings /\ HoldsProfile(c, id)
      /\ heap' = [heap EXCEPT ![id] = w]
      /\ req' = [req EXCEPT ![t] = r2]
      /\ UNCHANGED <<profiles, cleaner, now, night, events, single, swept>>
  BY <1>1, RecordEventIs
<1>3. /\ w \in Profiles /\ w.to = m + 1 /\ w.lastSeen = e.at
      /\ Writes(s, q, m, e) /\ Len(s) <= Len(q) /\ DOMAIN s \subseteq DOMAIN q /\ DOMAIN q \subseteq DOMAIN s \cup {m + 1}
  BY <1>2, WrittenWrites
<1>4. /\ BehaviorTyped /\ heap \in Seq(Profiles) /\ req = [u \in Threads |-> req[u]]
      /\ OfAddress(c) /\ events[c] \in Seq(Happenings)
  BY <1>2 DEF BehaviorInv, BehaviorTyped
<1>5. r2.pc = "detect" /\ r2.ip = c /\ r2.id = id /\ r2.event = e /\ r2 # Behavior!Idle
  BY DEF Behavior!Idle
<1>. HIDE DEF w, r2
<1>6. /\ req'[t] = r2 /\ \A u \in Threads : u # t => req'[u] = req[u]
      /\ req' = [u \in Threads |-> req'[u]]
  BY <1>2, <1>4
<1>7. /\ heap' \in Seq(Profiles) /\ DOMAIN heap' = DOMAIN heap /\ heap'[id] = w
      /\ \A i \in DOMAIN heap : i # id => heap'[i] = heap[i]
  BY <1>2, <1>3, <1>4
<1>8. \A i \in DOMAIN heap : Len(heap[i].slots) \in Nat /\ Len(heap'[i].slots) \in Nat /\ Len(heap[i].slots) <= Len(heap'[i].slots)
  <2>1. \A i \in DOMAIN heap : heap[i] \in Profiles /\ heap'[i] \in Profiles
    BY <1>4, <1>7
  <2>2. \A i \in DOMAIN heap : Len(heap[i].slots) \in Nat /\ Len(heap'[i].slots) \in Nat
    BY <2>1 DEF Profiles
  <2>. QED  BY <1>1, <1>3, <1>7, <2>2
<1>9. BehaviorTyped'
  <2>1. ASSUME NEW u \in Threads PROVE AnalysisTyped(req[u])'
    <3>1. CASE u = t
      BY <1>2, <1>5, <1>6, <1>7, <3>1 DEF AnalysisTyped, Analyzing
    <3>2. CASE u # t
      <4>1. AnalysisTyped(req[u]) /\ req'[u] = req[u]
        BY <1>4, <1>6, <3>2 DEF BehaviorTyped
      <4>. QED  BY <1>7, <1>8, <4>1 DEF AnalysisTyped
    <3>. QED  BY <3>1, <3>2
  <2>2. CleanerTyped'
    <3>1. CleanerTyped /\ cleaner' = cleaner
      BY <1>2, <1>4 DEF BehaviorTyped
    <3>2. \A i, n : i \in DOMAIN heap /\ n \in Nat /\ n <= Len(heap[i].slots) => n <= Len(heap'[i].slots)
      BY <1>8
    <3>3. cleaner.kept \in Seq(Happenings) /\ cleaner.from \in Nat => cleaner.from + Len(cleaner.kept) \in Nat
      OBVIOUS
    <3>. QED  BY <1>7, <3>1, <3>2, <3>3 DEF CleanerTyped
  <2>. QED  BY <1>2, <1>4, <1>6, <1>7, <2>1, <2>2 DEF BehaviorTyped
<1>10. /\ \A u \in Threads, d \in Visitors : Serves(u, d)' <=> Serves(u, d)
       /\ \A u \in Threads : req'[u].id = req[u].id /\ req'[u].event = req[u].event
  <2>1. \A d \in Visitors : Serves(t, d)' <=> Serves(t, d)
    BY <1>1, <1>2, <1>5, <1>6 DEF Serves, Behavior!Serving
  <2>2. \A u \in Threads, d \in Visitors : u # t => (Serves(u, d)' <=> Serves(u, d))
    BY <1>6 DEF Serves, Behavior!Serving
  <2>. QED  BY <1>1, <1>5, <1>6, <2>1, <2>2
<1>11. \A d \in Visitors : (Filters(d)' <=> Filters(d)) /\ (Sweeps(d)' <=> Sweeps(d))
  BY <1>2 DEF Filters, Sweeps
<1>12. \A d \in Visitors : \A i : HoldsProfile(d, i)' <=> HoldsProfile(d, i)
  BY <1>2, <1>10, <1>11 DEF HoldsProfile
<1>13. StepAt(c)
  <2>1. \A u \in Threads : req'[u] = req[u] \/ \A d \in Visitors : d # c => ~Serves(u, d) /\ ~Serves(u, d)'
    <3>1. \A d \in Visitors : d # c => ~Serves(t, d)
      BY <1>1 DEF Serves, Behavior!Serving
    <3>. QED  BY <1>6, <1>10, <3>1
  <2>2. \A i \in DOMAIN heap : i \in DOMAIN heap' /\ (HoldsProfile(c, i) \/ heap'[i] = heap[i])
    BY <1>2, <1>7
  <2>. QED  BY <1>2, <1>7, <1>12, <2>1, <2>2 DEF StepAt
<1>. DEFINE l == events[c]
<1>14. Genuine(c)'
  <2>1. Genuine(c) /\ e \in Happened(l)
    BY <1>1, <1>2, <1>4 DEF OfAddress, Genuine
  <2>2. /\ \A j \in DOMAIN s : s[j] \in Happened(l)
        /\ SessionsTrue(p.sessions, l)
    BY <1>1, <1>2, <2>1 DEF Genuine
  <2>3. \A j \in DOMAIN q : q[j] \in Happened(l)
    BY <1>3, <2>1, <2>2 DEF Writes
  <2>4. SessionsTrue(w.sessions, l)
    BY <1>2, <1>4, <2>1, <2>2, WrittenTrue DEF w
  <2>5. ASSUME NEW i \in DOMAIN heap, HoldsProfile(c, i)
        PROVE  (\A j \in DOMAIN heap'[i].slots : heap'[i].slots[j] \in Happened(l)) /\ SessionsTrue(heap'[i].sessions, l)
    BY <1>7, <2>1, <2>3, <2>4, <2>5 DEF Genuine
  <2>6. \A u \in Threads : Serves(u, c)' => req'[u].event \in Happened(l)
    BY <1>2, <1>10, <2>1 DEF Genuine
  <2>. QED  BY <1>2, <1>7, <1>11, <1>12, <2>1, <2>5, <2>6 DEF Genuine
<1>15. Tallied(c)'
  <2>1. SUFFICES ASSUME ~swept[c] PROVE (\A E \in Kinds : NoMore(c, E)') /\ ~Sweeps(c)'
    BY <1>2 DEF Tallied, Kinds, Happenings, SessionNames
  <2>2. ~Sweeps(c) /\ ~Filters(c) /\ \A E \in Kinds : NoMore(c, E)
    BY <1>2, <1>4, <2>1 DEF OfAddress, Tallied, Filters, Sweeps
  <2>3. ASSUME NEW E \in Kinds PROVE NoMore(c, E)'
    <3>. DEFINE U == Unwritten(c, E)  k == IF e \in E THEN 1 ELSE 0  most == Count(l, E) - Cardinality(U)
    <3>1. U' = U \ {t}
      <4>1. \A u \in Threads : u \in U' <=> u \in U /\ u # t
        BY <1>2, <1>5, <1>6, <1>10 DEF Unwritten
      <4>2. U \subseteq Threads /\ U' \subseteq Threads
        BY DEF Unwritten
      <4>. QED  BY <4>1, <4>2
    <3>2. t \in U <=> e \in E
      BY <1>1, <1>2 DEF Unwritten
    <3>3. IsFiniteSet(U) /\ Cardinality(U) \in Nat
      <4>1. U \subseteq Threads
        BY DEF Unwritten
      <4>2. IsFiniteSet(U)
        BY <4>1, BehaviorConstants, FS_Subset
      <4>. QED  BY <4>2, FS_CardinalityType
    <3>4. Cardinality(U') = Cardinality(U) - k
      <4>1. t \in U => Cardinality(U \ {t}) = Cardinality(U) - 1
        BY <3>3, FS_RemoveElement
      <4>2. t \notin U => U \ {t} = U
        OBVIOUS
      <4>3. Cardinality(U') = Cardinality(U \ {t})
        BY <3>1
      <4>. HIDE DEF U
      <4>4. CASE e \in E
        BY <3>2, <4>1, <4>3, <4>4
      <4>5. CASE e \notin E
        <5>1. Cardinality(U') = Cardinality(U)
          BY <3>2, <4>2, <4>3, <4>5
        <5>. QED  BY <3>3, <4>5, <5>1
      <4>. QED  BY <4>4, <4>5
    <3>5. Count(l, E) \in Nat
      BY <1>4, CountType
    <3>6. most' = most + k
      <4>1. events'[c] = l
        BY <1>2
      <4>2. most' = Count(l, E) - Cardinality(U')
        BY <4>1
      <4>. HIDE DEF U
      <4>. QED  BY <3>3, <3>4, <3>5, <4>2
    <3>7. NoMore(c, E)
      BY <2>2
    <3>8. /\ 0 <= most /\ most \in Int
          /\ \A i \in DOMAIN heap : HoldsProfile(c, i) => Upto(heap[i].slots, heap[i].to, E) <= most
          /\ \A u \in Threads : Serves(u, c) /\ req[u].pc = "record" => Upto(heap[req[u].id].slots, req[u].header.to, E) <= most
      BY <3>3, <3>5, <3>7 DEF NoMore
    <3>9. k \in {0, 1}
      OBVIOUS
    <3>10. Upto(s, m, E) <= most
      BY <1>1, <1>2, <3>8
    <3>. HIDE DEF U, most, k
    <3>11. DOMAIN s = 1..Len(s) /\ Len(s) \in Nat /\ m \in Nat /\ m <= Len(s)
      BY <1>2 DEF Profiles, HeaderOf
    <3>12. Upto(q, m + 1, E) <= most + k
      <4>1. 1..m \subseteq DOMAIN s
        BY <3>11
      <4>2. Upto(q, m + 1, E) = Upto(s, m, E) + k
        BY <1>3, <3>11, <4>1, UptoWrite DEF k
      <4>3. Upto(s, m, E) \in Nat
        BY <3>11, UptoType
      <4>. QED  BY <3>8, <3>9, <3>10, <4>2, <4>3
    <3>13. ASSUME NEW i \in DOMAIN heap, HoldsProfile(c, i) PROVE Upto(heap'[i].slots, heap'[i].to, E) <= most + k
      <4>1. CASE i = id
        BY <1>3, <1>7, <3>12, <4>1
      <4>2. CASE i # id
        <5>1. heap[i].to \in Nat
          BY <1>4 DEF Profiles
        <5>2. Upto(heap[i].slots, heap[i].to, E) \in Nat
          BY <5>1, UptoType
        <5>. QED  BY <1>7, <3>8, <3>9, <3>13, <4>2, <5>2
      <4>. QED  BY <4>1, <4>2
    <3>14. ASSUME NEW u \in Threads, Serves(u, c), req'[u].pc = "record"
           PROVE  Upto(heap'[req'[u].id].slots, req'[u].header.to, E) <= most + k
      <4>1. u # t /\ req'[u] = req[u]
        BY <1>5, <1>6, <3>14
      <4>. DEFINE g == req[u].header.to  j == req[u].id
      <4>2. AnalysisTyped(req[u]) /\ req[u].pc = "record" /\ req[u] # Behavior!Idle
        BY <1>4, <3>14, <4>1 DEF BehaviorTyped, Behavior!Idle
      <4>3. g \in Nat /\ j \in DOMAIN heap /\ g <= Len(heap[j].slots)
        BY <4>2 DEF AnalysisTyped
      <4>4. Upto(heap[j].slots, g, E) <= most /\ Upto(heap[j].slots, g, E) \in Nat
        BY <3>8, <3>14, <4>2, <4>3, UptoType
      <4>5. CASE j = id
        <5>1. heap[j].slots = s /\ heap'[j].slots = q
          BY <1>1, <1>7, <4>5
        <5>. HIDE DEF g, j
        <5>2. 1..g \subseteq DOMAIN s
          BY <3>11, <4>3, <5>1
        <5>3. Upto(q, g, E) <= Upto(s, g, E) + k
          BY <1>3, <4>3, <5>2, UptoWrite DEF k
        <5>4. Upto(q, g, E) \in Nat
          BY <4>3, UptoType
        <5>5. Upto(q, g, E) <= most + k
          BY <3>8, <3>9, <4>4, <5>1, <5>3, <5>4
        <5>. QED  BY <4>1, <5>1, <5>5 DEF g, j
      <4>6. CASE j # id
        <5>1. heap'[j] = heap[j]
          BY <1>7, <4>3, <4>6
        <5>. HIDE DEF g, j
        <5>2. Upto(heap'[j].slots, g, E) <= most + k
          BY <3>8, <3>9, <4>4, <5>1
        <5>. QED  BY <4>1, <5>2 DEF g, j
      <4>. QED  BY <4>5, <4>6
    <3>15. 0 <= most + k
      BY <3>8, <3>9
    <3>16. ~Filters(c)'
      BY <1>2, <1>11, <2>2
    <3>. QED  BY <1>2, <1>7, <1>10, <1>12, <3>6, <3>13, <3>14, <3>15, <3>16 DEF NoMore, most, U
  <2>. QED  BY <1>2, <1>11, <2>2, <2>3
<1>16. Warned(c)'
  <2>1. \A u \in Threads : Serves(u, c)' /\ req'[u].pc = "alert" => Serves(u, c) /\ req[u].pc = "alert" /\ req'[u] = req[u]
    BY <1>2, <1>5, <1>6, <1>10
  <2>2. \A n : Behavior!Earned(c, n)' <=> Behavior!Earned(c, n)
    BY <1>2, EarnedStays
  <2>. QED  BY <1>4, <2>1, <2>2 DEF OfAddress, Warned
<1>17. Alone(c)'
  <2>1. SUFFICES ASSUME single[c]
                 PROVE  /\ \A u, v \in Threads : Serves(u, c)' /\ Serves(v, c)' => u = v
                        /\ (\A u \in Threads : ~Serves(u, c)') => Rests(c)'
                        /\ \A u \in Threads : Serves(u, c)' => Works(req[u])'
                        /\ Sweeps(c)' => Cleans(c)'
    BY <1>2 DEF Alone
  <2>2. /\ \A u, v \in Threads : Serves(u, c) /\ Serves(v, c) => u = v
        /\ Works(r) /\ ~Sweeps(c)
    BY <1>1, <1>2, <1>4, <2>1 DEF OfAddress, Alone, Cleans
  <2>3. /\ profiles[c] = id /\ l # <<>> /\ l[Len(l)] = e
        /\ InStep(p, Before(l), now) /\ h = [from |-> p.from, to |-> p.to]
    BY <1>1, <1>2, <2>2 DEF Works
  <2>4. Shorter(l, Before(l), e)
    BY <1>4, <2>3, BeforeShorter
  <2>5. h.from = p.from /\ h.to = p.to
    BY <2>3
  <2>6. Shows(w, l, now) /\ Recalls(w, l, now)
    BY <1>2, <1>4, <2>3, <2>4, <2>5, WrittenShows, WrittenRecalls DEF OfAddress, InStep, w
  <2>7. SeenLast(w, l)
    BY <1>3, <2>3 DEF SeenLast
  <2>8. Works(req[t])'
    BY <1>2, <1>5, <1>6, <1>7, <2>3, <2>6, <2>7 DEF Works, InStep
  <2>. QED  BY <1>2, <1>10, <1>11, <2>2, <2>8
<1>18. Dated(events[c])'
  BY <1>2, <1>4 DEF OfAddress, Dated
<1>19. OfAddress(c)'
  BY <1>14, <1>15, <1>16, <1>17, <1>18 DEF OfAddress
<1>. QED  BY <1>2, <1>9, <1>13, <1>19, AddressStepKeeps

-----------------------------------------------------------------------------
(* The behavioral detector: an address does more.                          *)

LEMMA SessionsMore ==
  ASSUME NEW v \in Seq(Happenings), NEW l \in Seq(Happenings), Happened(v) \subseteq Happened(l), NEW w
  PROVE  LET X == {v[i].session : i \in Behavior!Since(v, w)} \ {None}
             Y == {l[i].session : i \in Behavior!Since(l, w)} \ {None}
         IN  Cardinality(X) \in Nat /\ Cardinality(Y) \in Nat /\ Cardinality(X) <= Cardinality(Y)
<1>. DEFINE N(s) == {s[i].session : i \in Behavior!Since(s, w)}  X == N(v) \ {None}  Y == N(l) \ {None}
<1>1. N(v) \subseteq N(l)
  <2>1. ASSUME NEW i \in Behavior!Since(v, w) PROVE \E j \in Behavior!Since(l, w) : v[i] = l[j]
    BY DEF Happened, Behavior!Since
  <2>. QED  BY <2>1
<1>2. IsFiniteSet(N(l))
  <2>. DEFINE S == Behavior!Since(l, w)  f == [i \in DOMAIN l |-> l[i].session]
  <2>1. IsFiniteSet(S)
    <3>1. S \subseteq DOMAIN l
      BY DEF Behavior!Since
    <3>. QED  BY <3>1, SeqPlaces, FS_Subset
  <2>2. N(l) = {f[i] : i \in S}
    BY DEF Behavior!Since
  <2>. HIDE DEF N, f, S
  <2>. QED  BY <2>1, <2>2, FiniteImage
<1>3. X \subseteq Y /\ Y \subseteq N(l)
  BY <1>1
<1>4. IsFiniteSet(Y) /\ IsFiniteSet(X) /\ Cardinality(X) <= Cardinality(Y)
  <2>. HIDE DEF N, X, Y
  <2>. QED  BY <1>2, <1>3, FS_Subset
<1>. QED  BY <1>4, FS_CardinalityType

\* What a list of events earns.
EarnedBy(l, met, name) ==
  LET full(n) == IF met THEN 1 ELSE n
      asked == Behavior!countEvents(l, ShortWindow, Behavior!Statuses, Behavior!Paths)
  IN CASE name = "CredentialStuffing" ->
            Behavior!countEvents(l, MediumWindow, {"denied"}, LoginPaths) >= full(CredentialStuffingThreshold)
       [] name = "APIEnumeration" -> Behavior!uniquePaths(l, ShortWindow, ApiPaths) >= APIEnumerationThreshold
       [] name = "Scraping" ->
            /\ asked >= full(ScrapingThreshold)
            /\ Behavior!uniquePaths(l, ShortWindow, Behavior!Paths) >= APIEnumerationThreshold
       [] name = "SessionAnomaly" ->
            Cardinality({l[i].session : i \in Behavior!Since(l, SessionWindow)} \ {None}) >= SuspiciousSessionThreshold
       [] name = "TemporalAnomaly" -> night /\ asked >= full(TemporalAnomalyThreshold)
       [] name = "ErrorRate" -> Behavior!errorsOf(l) > 0
       [] OTHER -> TRUE

LEMMA EarnedIs ==
  ASSUME NEW d, NEW n, UNCHANGED <<now, night>>
  PROVE  /\ Behavior!Earned(d, n) <=> EarnedBy(events[d], swept[d], n)
         /\ Behavior!Earned(d, n)' <=> EarnedBy(events'[d], swept'[d], n)
<1>1. Behavior!Earned(d, n) <=> EarnedBy(events[d], swept[d], n)
  BY DEF Behavior!Earned, EarnedBy, Behavior!Cardinality, Cardinality
<1>2. Behavior!Earned(d, n)' <=> EarnedBy(events'[d], swept'[d], n)
  BY DEF Behavior!Earned, EarnedBy, Behavior!Cardinality, Cardinality,
         Behavior!countEvents, Behavior!uniquePaths, Behavior!Since, Behavior!errorsOf
<1>. QED  BY <1>1, <1>2

More(l, k) == Happened(l) \subseteq Happened(k) /\ \A E \in Kinds : Count(l, E) <= Count(k, E)

LEMMA MoreAppend ==
  ASSUME NEW l \in Seq(Happenings), NEW e \in Happenings
  PROVE  More(l, Append(l, e)) /\ More(l, l)
<1>1. Happened(Append(l, e)) = Happened(l) \cup {e}
  BY HappenedAppend
<1>2. ASSUME NEW E PROVE Count(Append(l, e), E) = Count(l, E) + IF e \in E THEN 1 ELSE 0
  BY CountAppend
<1>3. ASSUME NEW E PROVE Count(l, E) \in Nat
  BY CountType
<1>4. ASSUME NEW E PROVE Count(l, E) <= Count(Append(l, e), E) /\ Count(l, E) <= Count(l, E)
  BY <1>2, <1>3
<1>. QED  BY <1>1, <1>4 DEF More

LEMMA MoreEarns ==
  ASSUME NEW l \in Seq(Happenings), NEW k \in Seq(Happenings), More(l, k),
         NEW a \in BOOLEAN, NEW b \in BOOLEAN, a => b, NEW n, EarnedBy(l, a, n)
  PROVE  EarnedBy(k, b, n)
<1>1. ASSUME NEW w, NEW x, NEW y
      PROVE  /\ Behavior!countEvents(l, w, x, y) \in Nat /\ Behavior!countEvents(k, w, x, y) \in Nat
             /\ Behavior!countEvents(l, w, x, y) <= Behavior!countEvents(k, w, x, y)
  <2>1. Behavior!countEvents(l, w, x, y) = Count(l, Kind(w, x, y)) /\ Kind(w, x, y) \in Kinds
    BY CountIs
  <2>2. Behavior!countEvents(k, w, x, y) = Count(k, Kind(w, x, y))
    BY CountIs
  <2>3. Count(l, Kind(w, x, y)) \in Nat /\ Count(k, Kind(w, x, y)) \in Nat
    BY CountType
  <2>. QED  BY <2>1, <2>2, <2>3 DEF More
<1>2. ASSUME NEW w, NEW y
      PROVE  /\ Behavior!uniquePaths(l, w, y) \in Nat /\ Behavior!uniquePaths(k, w, y) \in Nat
             /\ Behavior!uniquePaths(l, w, y) <= Behavior!uniquePaths(k, w, y)
  BY PathsFewer DEF More
<1>. DEFINE X == Cardinality({l[i].session : i \in Behavior!Since(l, SessionWindow)} \ {None})
            Y == Cardinality({k[i].session : i \in Behavior!Since(k, SessionWindow)} \ {None})
<1>3. X \in Nat /\ Y \in Nat /\ X <= Y
  BY SessionsMore DEF More
<1>4. \A m \in Nat \ {0} : (IF b THEN 1 ELSE m) <= (IF a THEN 1 ELSE m)
  OBVIOUS
<1>5. Behavior!errorsOf(l) \in Nat /\ Behavior!errorsOf(k) \in Nat /\ Behavior!errorsOf(l) <= Behavior!errorsOf(k)
  BY <1>1 DEF Behavior!errorsOf
<1>. HIDE DEF X, Y
<1>6. CASE n = "CredentialStuffing"
  <2>. DEFINE f == Behavior!countEvents(l, MediumWindow, {"denied"}, LoginPaths)
              g == Behavior!countEvents(k, MediumWindow, {"denied"}, LoginPaths)
  <2>1. f \in Nat /\ g \in Nat /\ f <= g
    BY <1>1
  <2>2. f >= IF a THEN 1 ELSE CredentialStuffingThreshold
    BY <1>6 DEF EarnedBy
  <2>. HIDE DEF f, g
  <2>3. g >= IF b THEN 1 ELSE CredentialStuffingThreshold
    BY <2>1, <2>2, BehaviorConstants
  <2>. QED  BY <1>6, <2>3 DEF EarnedBy, g
<1>. DEFINE f == Behavior!countEvents(l, ShortWindow, Behavior!Statuses, Behavior!Paths)
            g == Behavior!countEvents(k, ShortWindow, Behavior!Statuses, Behavior!Paths)
<1>7. f \in Nat /\ g \in Nat /\ f <= g
  BY <1>1
<1>8. CASE n = "APIEnumeration"
  <2>1. Behavior!uniquePaths(l, ShortWindow, ApiPaths) >= APIEnumerationThreshold
    BY <1>8 DEF EarnedBy
  <2>2. Behavior!uniquePaths(k, ShortWindow, ApiPaths) >= APIEnumerationThreshold
    BY <1>2, <2>1, BehaviorConstants
  <2>. QED  BY <1>8, <2>2 DEF EarnedBy
<1>9. CASE n = "Scraping"
  <2>1. /\ f >= IF a THEN 1 ELSE ScrapingThreshold
        /\ Behavior!uniquePaths(l, ShortWindow, Behavior!Paths) >= APIEnumerationThreshold
    BY <1>9 DEF EarnedBy
  <2>2. Behavior!uniquePaths(k, ShortWindow, Behavior!Paths) >= APIEnumerationThreshold
    BY <1>2, <2>1, BehaviorConstants
  <2>. HIDE DEF f, g
  <2>3. g >= IF b THEN 1 ELSE ScrapingThreshold
    BY <1>7, <2>1, BehaviorConstants
  <2>. QED  BY <1>9, <2>2, <2>3 DEF EarnedBy, g
<1>10. CASE n = "SessionAnomaly"
  <2>1. X >= SuspiciousSessionThreshold
    BY <1>10 DEF EarnedBy, X
  <2>2. Y >= SuspiciousSessionThreshold
    BY <1>3, <2>1, BehaviorConstants
  <2>. QED  BY <1>10, <2>2 DEF EarnedBy, Y
<1>11. CASE n = "TemporalAnomaly"
  <2>1. night /\ f >= IF a THEN 1 ELSE TemporalAnomalyThreshold
    BY <1>11 DEF EarnedBy
  <2>. HIDE DEF f, g
  <2>2. g >= IF b THEN 1 ELSE TemporalAnomalyThreshold
    BY <1>7, <2>1, BehaviorConstants
  <2>. QED  BY <1>11, <2>1, <2>2 DEF EarnedBy, g
<1>12. CASE n = "ErrorRate"
  <2>1. Behavior!errorsOf(l) > 0
    BY <1>12 DEF EarnedBy
  <2>2. Behavior!errorsOf(k) > 0
    BY <1>5, <2>1
  <2>. QED  BY <1>12, <2>2 DEF EarnedBy
<1>13. CASE n \notin {"CredentialStuffing", "APIEnumeration", "Scraping", "SessionAnomaly", "TemporalAnomaly", "ErrorRate"}
  BY <1>13 DEF EarnedBy
<1>. QED  BY <1>6, <1>8, <1>9, <1>10, <1>11, <1>12, <1>13

LEMMA StillEarned ==
  ASSUME UNCHANGED <<now, night>>, NEW d, NEW n, events[d] \in Seq(Happenings), events'[d] \in Seq(Happenings),
         More(events[d], events'[d]), swept[d] \in BOOLEAN, swept'[d] \in BOOLEAN, swept[d] => swept'[d],
         Behavior!Earned(d, n)
  PROVE  Behavior!Earned(d, n)'
<1>1. EarnedBy(events[d], swept[d], n)
  BY EarnedIs
<1>2. PICK l, k, a, b : l = events[d] /\ k = events'[d] /\ a = swept[d] /\ b = swept'[d]
  OBVIOUS
<1>3. EarnedBy(k, b, n)
  BY <1>1, <1>2, MoreEarns
<1>. QED  BY <1>2, <1>3, EarnedIs

LEMMA SessionsTrueMore ==
  ASSUME NEW l \in Seq(Happenings), NEW e \in Happenings, NEW ss, SessionsTrue(ss, l)
  PROVE  SessionsTrue(ss, Append(l, e))
<1>. DEFINE k == Append(l, e)
<1>1. \A i \in DOMAIN l : i \in DOMAIN k /\ k[i] = l[i]
  BY OneMore
<1>. HIDE DEF k
<1>. QED  BY <1>1 DEF SessionsTrue, k

-----------------------------------------------------------------------------
(* The behavioral detector: a request begins.                              *)

Fresh == Behavior!NewProfile

LEMMA GetIs ==
  ASSUME BehaviorInv, NEW t \in Threads, NEW c \in Visitors, NEW a \in Answers, Behavior!Get(t, c, a)
  PROVE  \E e, id :
           /\ e \in Happenings /\ e.at = now
           /\ req[t] = Behavior!Idle
           /\ IF profiles[c] = None
                THEN id \notin DOMAIN heap /\ DOMAIN heap' = DOMAIN heap \cup {id} /\ heap'[id] = Fresh
                ELSE id = profiles[c] /\ id \in DOMAIN heap /\ heap' = heap
           /\ \A i \in DOMAIN heap : i \in DOMAIN heap' /\ heap'[i] = heap[i]
           /\ heap' \in Seq(Profiles) /\ id \in DOMAIN heap' /\ id \in Nat
           /\ profiles' = [profiles EXCEPT ![c] = id]
           /\ req' = [req EXCEPT ![t] = [pc |-> "append", ip |-> c, id |-> id, event |-> e]]
           /\ events' = [events EXCEPT ![c] = Append(@, e)]
           /\ single' \in [Visitors -> BOOLEAN] /\ swept' \in [Visitors -> BOOLEAN]
           /\ \A d \in Visitors : d # c => single'[d] = single[d] /\ swept'[d] = swept[d]
           /\ single'[c] => single[c] /\ ~Sweeps(c) /\ \A u \in Threads : ~Serves(u, c)
           /\ swept'[c] <=> swept[c] \/ Sweeps(c)
           /\ UNCHANGED <<cleaner, now, night>>
<1>. DEFINE e == [at |-> now, path |-> a.path, status |-> a.status, session |-> a.session]
            id == IF profiles[c] = None THEN Len(heap) + 1 ELSE profiles[c]
            company == \E u \in Threads : Serves(u, c)
<1>1. /\ BehaviorTyped /\ heap \in Seq(Profiles) /\ now \in Nat
      /\ single \in [Visitors -> BOOLEAN] /\ swept \in [Visitors -> BOOLEAN]
      /\ profiles \in [Visitors -> Nat \cup {None}]
      /\ AnalysisTyped(req[t])
      /\ profiles[c] # None => profiles[c] \in DOMAIN heap
  BY DEF BehaviorInv, BehaviorTyped
<1>2. Len(heap) \in Nat /\ DOMAIN heap = 1..Len(heap)
  BY <1>1
<1>3. e \in Happenings
  <2>1. a.status \in Behavior!Statuses
    BY BehaviorConstants
  <2>2. a.path \in Behavior!Paths
    BY DEF Behavior!Paths
  <2>3. a.session \in SessionNames \cup {None}
    BY DEF SessionNames
  <2>. QED  BY <1>1, <2>1, <2>2, <2>3 DEF Happenings
<1>4. req[t] = Behavior!Idle
  <2>1. req[t].pc = "idle"
    BY DEF Behavior!Get, Behavior!At
  <2>. QED  BY <1>1, <2>1 DEF AnalysisTyped, Analyzing
<1>5. Fresh \in Profiles
  <2>1. <<>> \in Seq(Happenings) /\ Len(<<>>) = 0
    OBVIOUS
  <2>2. {} \in SUBSET Sessions
    OBVIOUS
  <2>. QED  BY <1>1, <2>1, <2>2 DEF Fresh, Behavior!NewProfile, Profiles
<1>6. /\ profiles' = [profiles EXCEPT ![c] = id]
      /\ heap' = IF id > Len(heap) THEN Append(heap, Fresh) ELSE heap
      /\ req' = [req EXCEPT ![t] = [pc |-> "append", ip |-> c, id |-> id, event |-> e]]
      /\ events' = [events EXCEPT ![c] = Append(@, e)]
      /\ UNCHANGED <<cleaner, now, night>>
  BY DEF Behavior!Get, Fresh
<1>7. /\ single' = [single EXCEPT ![c] = @ /\ ~company /\ ~Sweeps(c)]
      /\ swept' = [swept EXCEPT ![c] = @ \/ Sweeps(c)]
  BY DEF Behavior!Get, Serves, Sweeps
<1>. HIDE DEF e, company
<1>8. /\ IF profiles[c] = None
           THEN id \notin DOMAIN heap /\ DOMAIN heap' = DOMAIN heap \cup {id} /\ heap'[id] = Fresh
           ELSE id = profiles[c] /\ id \in DOMAIN heap /\ heap' = heap
      /\ \A i \in DOMAIN heap : i \in DOMAIN heap' /\ heap'[i] = heap[i]
      /\ heap' \in Seq(Profiles) /\ id \in DOMAIN heap' /\ id \in Nat
  <2>1. CASE profiles[c] = None
    <3>1. id = Len(heap) + 1 /\ id > Len(heap)
      BY <1>2, <2>1
    <3>2. heap' = Append(heap, Fresh)
      BY <1>6, <3>1
    <3>. HIDE DEF id
    <3>3. /\ heap' \in Seq(Profiles) /\ DOMAIN heap' = DOMAIN heap \cup {id} /\ id \notin DOMAIN heap
          /\ \A i \in DOMAIN heap : heap'[i] = heap[i]
          /\ heap'[id] = Fresh
      BY <1>1, <1>5, <3>1, <3>2, OneMore
    <3>. QED  BY <1>2, <2>1, <3>1, <3>3
  <2>2. CASE profiles[c] # None
    <3>1. id = profiles[c] /\ id \in DOMAIN heap
      BY <1>1, <2>2
    <3>. HIDE DEF id
    <3>2. ~(id > Len(heap)) /\ id \in Nat
      BY <1>2, <3>1
    <3>3. heap' = heap
      BY <1>6, <3>2
    <3>. QED  BY <1>1, <2>2, <3>1, <3>2, <3>3
  <2>. QED  BY <2>1, <2>2
<1>. HIDE DEF id
<1>9. /\ single' \in [Visitors -> BOOLEAN] /\ swept' \in [Visitors -> BOOLEAN]
      /\ \A d \in Visitors : d # c => single'[d] = single[d] /\ swept'[d] = swept[d]
      /\ single'[c] => single[c] /\ ~Sweeps(c) /\ ~company
      /\ swept'[c] <=> swept[c] \/ Sweeps(c)
  <2>1. Sweeps(c) \in BOOLEAN /\ company \in BOOLEAN
    BY DEF Sweeps, company
  <2>2. single[c] \in BOOLEAN /\ swept[c] \in BOOLEAN
    BY <1>1
  <2>3. (single[c] /\ ~company /\ ~Sweeps(c)) \in BOOLEAN /\ (swept[c] \/ Sweeps(c)) \in BOOLEAN
    BY <2>1, <2>2
  <2>. QED  BY <1>1, <1>7, <2>3, Zenon
<1>10. e.at = now
  BY DEF e
<1>11. ~company => \A u \in Threads : ~Serves(u, c)
  BY DEF company
<1>. QED  BY <1>3, <1>4, <1>6, <1>8, <1>9, <1>10, <1>11

LEMMA FreshShows ==
  ASSUME now \in Nat, NEW l \in Seq(Happenings), Gone(l, now)
  PROVE  InStep(Fresh, l, now)
<1>1. Fresh.slots = <<>> /\ Fresh.from = 0 /\ Fresh.to = 0 /\ Fresh.sessions = {}
  BY DEF Fresh, Behavior!NewProfile
<1>2. DOMAIN l = 1..Len(l) /\ Len(l) \in Nat /\ \A i \in DOMAIN l : l[i].at \in Nat
  <2>1. \A i \in DOMAIN l : l[i] \in Happenings
    OBVIOUS
  <2>. QED  BY <2>1 DEF Happenings
<1>3. Shows(Fresh, l, now)
  <2>1. Len(l) - (0 - 0) = Len(l) /\ 0 - 0 = 0 /\ 1..0 = {}
    BY <1>2
  <2>2. 0 <= MaxTrackedEvents /\ 0 <= Len(l)
    BY <1>2, BehaviorConstants
  <2>3. \A i \in 1..Len(l) : l[i].at <= now - LongWindow
    BY <1>2 DEF Gone
  <2>. QED  BY <1>1, <2>1, <2>2, <2>3 DEF Shows
<1>4. Recalls(Fresh, l, now)
  <2>1. ASSUME NEW i \in DOMAIN l, l[i].at >= now - SessionWindow PROVE FALSE
    <3>1. l[i].at <= now - LongWindow /\ l[i].at \in Nat
      BY <1>2 DEF Gone
    <3>. QED  BY <2>1, <3>1, BehaviorConstants
  <2>. QED  BY <1>1, <2>1 DEF Recalls
<1>. QED  BY <1>3, <1>4 DEF InStep

LEMMA GetKeeps ==
  ASSUME BehaviorInv, NEW t \in Threads, NEW c \in Visitors, NEW a \in Answers, Behavior!Get(t, c, a)
  PROVE  BehaviorInv'
<1>1. PICK e, id :
        /\ e \in Happenings /\ e.at = now
        /\ req[t] = Behavior!Idle
        /\ IF profiles[c] = None
             THEN id \notin DOMAIN heap /\ DOMAIN heap' = DOMAIN heap \cup {id} /\ heap'[id] = Fresh
             ELSE id = profiles[c] /\ id \in DOMAIN heap /\ heap' = heap
        /\ \A i \in DOMAIN heap : i \in DOMAIN heap' /\ heap'[i] = heap[i]
        /\ heap' \in Seq(Profiles) /\ id \in DOMAIN heap' /\ id \in Nat
        /\ profiles' = [profiles EXCEPT ![c] = id]
        /\ req' = [req EXCEPT ![t] = [pc |-> "append", ip |-> c, id |-> id, event |-> e]]
        /\ events' = [events EXCEPT ![c] = Append(@, e)]
        /\ single' \in [Visitors -> BOOLEAN] /\ swept' \in [Visitors -> BOOLEAN]
        /\ \A d \in Visitors : d # c => single'[d] = single[d] /\ swept'[d] = swept[d]
        /\ single'[c] => single[c] /\ ~Sweeps(c) /\ \A u \in Threads : ~Serves(u, c)
        /\ swept'[c] <=> swept[c] \/ Sweeps(c)
        /\ UNCHANGED <<cleaner, now, night>>
  BY GetIs
<1>2. PICK l : l = events[c]
  OBVIOUS
<1>. DEFINE k == Append(l, e)  r2 == [pc |-> "append", ip |-> c, id |-> id, event |-> e]
<1>3. /\ BehaviorTyped /\ now \in Nat /\ req = [u \in Threads |-> req[u]] /\ \A u \in Threads : AnalysisTyped(req[u])
      /\ events \in [Visitors -> Seq(Happenings)] /\ profiles \in [Visitors -> Nat \cup {None}]
      /\ swept \in [Visitors -> BOOLEAN]
      /\ OfAddress(c) /\ l \in Seq(Happenings) /\ CleanerTyped
      /\ \A d \in Visitors : profiles[d] # None => profiles[d] \in DOMAIN heap
  BY <1>2 DEF BehaviorInv, BehaviorTyped
<1>4. r2.pc = "append" /\ r2.ip = c /\ r2.id = id /\ r2.event = e /\ r2 # Behavior!Idle
  BY DEF Behavior!Idle
<1>5. /\ k \in Seq(Happenings) /\ k # <<>> /\ Len(k) = Len(l) + 1 /\ k[Len(k)] = e /\ Before(k) = l
      /\ DOMAIN k = DOMAIN l \cup {Len(l) + 1} /\ DOMAIN l = 1..Len(l) /\ Len(l) \in Nat
      /\ \A i \in DOMAIN l : k[i] = l[i] /\ l[i] \in Happenings
      /\ Happened(k) = Happened(l) \cup {e}
  BY <1>1, <1>3, OneMore, BeforeAppend, HappenedAppend
<1>6. /\ events'[c] = k /\ \A d \in Visitors : d # c => events'[d] = events[d]
      /\ events' \in [Visitors -> Seq(Happenings)]
  BY <1>1, <1>2, <1>3, <1>5
<1>7. /\ profiles'[c] = id /\ \A d \in Visitors : d # c => profiles'[d] = profiles[d]
      /\ profiles' \in [Visitors -> Nat \cup {None}]
  BY <1>1, <1>3
<1>. HIDE DEF k, r2
<1>8. /\ req'[t] = r2 /\ \A u \in Threads : u # t => req'[u] = req[u]
      /\ req' = [u \in Threads |-> req'[u]]
  BY <1>1, <1>3 DEF r2
<1>9. BehaviorTyped'
  <2>1. ASSUME NEW u \in Threads PROVE AnalysisTyped(req[u])'
    <3>1. CASE u = t
      BY <1>1, <1>4, <1>8, <3>1 DEF AnalysisTyped, Analyzing
    <3>2. CASE u # t
      BY <1>1, <1>3, <1>8, <3>2 DEF AnalysisTyped
    <3>. QED  BY <3>1, <3>2
  <2>2. CleanerTyped'
    BY <1>1, <1>3 DEF CleanerTyped
  <2>3. \A d \in Visitors : profiles'[d] # None => profiles'[d] \in DOMAIN heap'
    BY <1>1, <1>3, <1>7
  <2>4. night' \in BOOLEAN /\ now' \in Nat
    BY <1>1, <1>3 DEF BehaviorTyped
  <2>. QED  BY <1>1, <1>6, <1>7, <1>8, <2>1, <2>2, <2>3, <2>4 DEF BehaviorTyped
<1>10. /\ \A u \in Threads, d \in Visitors : u # t => (Serves(u, d)' <=> Serves(u, d))
       /\ \A d \in Visitors : (Serves(t, d)' <=> d = c) /\ ~Serves(t, d)
  <2>1. \A u \in Threads, d \in Visitors : u # t => (Serves(u, d)' <=> Serves(u, d))
    BY <1>8 DEF Serves, Behavior!Serving
  <2>2. \A d \in Visitors : (Serves(t, d)' <=> d = c) /\ ~Serves(t, d)
    BY <1>1, <1>4, <1>8 DEF Serves, Behavior!Serving, Behavior!Idle
  <2>. QED  BY <2>1, <2>2
<1>11. \A d \in Visitors : (Filters(d)' <=> Filters(d)) /\ (Sweeps(d)' <=> Sweeps(d))
  BY <1>1 DEF Filters, Sweeps
<1>12. \A i \in DOMAIN heap' : HoldsProfile(c, i)' => (HoldsProfile(c, i) /\ i \in DOMAIN heap) \/ (i = id /\ id \notin DOMAIN heap)
  <2>1. ASSUME NEW i \in DOMAIN heap', HoldsProfile(c, i)' PROVE i = id \/ HoldsProfile(c, i)
    <3>1. profiles'[c] = i => i = id
      BY <1>7
    <3>2. (\E u \in Threads : Serves(u, c)' /\ req'[u].id = i) => i = id \/ \E u \in Threads : Serves(u, c) /\ req[u].id = i
      BY <1>4, <1>8, <1>10
    <3>3. Filters(c)' /\ cleaner'.id = i => Filters(c) /\ cleaner.id = i
      BY <1>1, <1>11
    <3>. QED  BY <2>1, <3>1, <3>2, <3>3 DEF HoldsProfile
  <2>2. id \in DOMAIN heap => HoldsProfile(c, id)
    BY <1>1 DEF HoldsProfile
  <2>3. \A i \in DOMAIN heap' : i # None
    <3>1. \A i \in DOMAIN heap' : i \in Nat
      BY <1>1
    <3>. QED  BY <3>1, BehaviorConstants
  <2>. QED  BY <1>3, <2>1, <2>2, <2>3, ProfileIsThere
<1>13. StepAt(c)
  <2>1. \A u \in Threads : req'[u] = req[u] \/ \A d \in Visitors : d # c => ~Serves(u, d) /\ ~Serves(u, d)'
    BY <1>8, <1>10
  <2>. QED  BY <1>1, <1>6, <1>7, <1>12, <2>1 DEF StepAt
<1>14. Dated(events[c])'
  <2>1. Dated(l)
    BY <1>2, <1>3 DEF OfAddress
  <2>2. \A i \in DOMAIN l : l[i].at <= now
    BY <2>1 DEF Dated
  <2>3. \A i \in DOMAIN k : k[i].at <= now
    <3>1. k[Len(l) + 1] = e
      BY <1>5
    <3>. QED  BY <1>1, <1>3, <1>5, <2>2, <3>1
  <2>4. ASSUME NEW i \in DOMAIN k, NEW j \in DOMAIN k, i <= j PROVE k[i].at <= k[j].at
    <3>1. CASE j \in DOMAIN l
      <4>1. i \in DOMAIN l
        BY <1>5, <2>4, <3>1
      <4>. QED  BY <1>5, <2>1, <2>4, <3>1, <4>1 DEF Dated
    <3>2. CASE j = Len(l) + 1
      BY <1>1, <1>5, <2>3, <3>2
    <3>. QED  BY <1>5, <3>1, <3>2
  <2>5. events'[c] = k /\ now' = now
    BY <1>1, <1>6
  <2>. QED  BY <2>3, <2>4, <2>5 DEF Dated
<1>15. Genuine(c)'
  <2>1. Genuine(c)
    BY <1>3 DEF OfAddress
  <2>2. ASSUME NEW i \in DOMAIN heap', HoldsProfile(c, i)'
        PROVE  (\A j \in DOMAIN heap'[i].slots : heap'[i].slots[j] \in Happened(k)) /\ SessionsTrue(heap'[i].sessions, k)
    <3>1. CASE HoldsProfile(c, i) /\ i \in DOMAIN heap
      <4>1. (\A j \in DOMAIN heap[i].slots : heap[i].slots[j] \in Happened(l)) /\ SessionsTrue(heap[i].sessions, l)
        BY <1>2, <2>1, <3>1 DEF Genuine
      <4>2. SessionsTrue(heap[i].sessions, k)
        BY <1>1, <1>3, <4>1, SessionsTrueMore DEF k
      <4>. QED  BY <1>1, <1>5, <3>1, <4>1, <4>2
    <3>2. CASE i = id /\ id \notin DOMAIN heap
      <4>1. heap'[i] = Fresh
        BY <1>1, <3>2
      <4>2. Fresh.slots = <<>> /\ Fresh.sessions = {} /\ DOMAIN <<>> = {}
        BY DEF Fresh, Behavior!NewProfile
      <4>. QED  BY <4>1, <4>2 DEF SessionsTrue
    <3>. QED  BY <1>12, <2>2, <3>1, <3>2
  <2>3. ASSUME NEW u \in Threads, Serves(u, c)' PROVE req'[u].event \in Happened(k)
    <3>1. CASE u = t
      BY <1>4, <1>5, <1>8, <3>1
    <3>2. CASE u # t
      <4>1. req[u].event \in Happened(l)
        BY <1>2, <1>10, <2>1, <2>3, <3>2 DEF Genuine
      <4>. QED  BY <1>5, <1>8, <3>2, <4>1
    <3>. QED  BY <3>1, <3>2
  <2>4. Filters(c)' => \A j \in DOMAIN cleaner'.kept : cleaner'.kept[j] \in Happened(k)
    BY <1>1, <1>2, <1>5, <1>11, <2>1 DEF Genuine
  <2>. QED  BY <1>6, <2>2, <2>3, <2>4 DEF Genuine
<1>16. Tallied(c)'
  <2>1. SUFFICES ASSUME ~swept'[c] PROVE (\A E \in Kinds : NoMore(c, E)') /\ ~Sweeps(c)'
    BY DEF Tallied, Kinds, Happenings, SessionNames
  <2>2. ~swept[c] /\ ~Sweeps(c) /\ ~Filters(c) /\ \A E \in Kinds : NoMore(c, E)
    BY <1>1, <1>3, <2>1 DEF OfAddress, Tallied, Filters, Sweeps
  <2>3. ASSUME NEW E \in Kinds PROVE NoMore(c, E)'
    <3>. DEFINE U == Unwritten(c, E)  most == Count(events[c], E) - Cardinality(U)
    <3>1. /\ \A u \in Threads : u # t => (u \in U' <=> u \in U)
          /\ t \in U' <=> e \in E
          /\ t \notin U
      BY <1>1, <1>4, <1>8, <1>10 DEF Unwritten
    <3>2. IsFiniteSet(U) /\ Cardinality(U) \in Nat /\ U \subseteq Threads /\ U' \subseteq Threads
      <4>1. U \subseteq Threads /\ U' \subseteq Threads
        BY DEF Unwritten
      <4>2. IsFiniteSet(U)
        BY <4>1, BehaviorConstants, FS_Subset
      <4>. QED  BY <4>1, <4>2, FS_CardinalityType
    <3>3. Cardinality(U') = Cardinality(U) + IF e \in E THEN 1 ELSE 0
      <4>1. CASE e \in E
        <5>1. U' = U \cup {t}
          <6>. HIDE DEF U
          <6>. QED  BY <3>1, <3>2, <4>1
        <5>2. Cardinality(U \cup {t}) = Cardinality(U) + 1
          <6>. HIDE DEF U
          <6>. QED  BY <3>1, <3>2, FS_AddElement
        <5>. QED  BY <4>1, <5>1, <5>2
      <4>2. CASE e \notin E
        <5>1. U' = U
          <6>. HIDE DEF U
          <6>. QED  BY <3>1, <3>2, <4>2
        <5>2. Cardinality(U') = Cardinality(U)
          BY <5>1
        <5>. QED  BY <3>2, <4>2, <5>2
      <4>. QED  BY <4>1, <4>2
    <3>4. Count(k, E) = Count(l, E) + (IF e \in E THEN 1 ELSE 0) /\ Count(l, E) \in Nat
      <4>1. l \in Seq(Happenings) /\ e \in Happenings
        BY <1>1, <1>3
      <4>2. Count(l, E) \in Nat
        BY <4>1, CountType
      <4>3. Count(Append(l, e), E) = Count(l, E) + IF e \in E THEN 1 ELSE 0
        BY <4>1, CountAppend
      <4>. QED  BY <4>2, <4>3 DEF k
    <3>5. most' = most
      <4>1. most = Count(l, E) - Cardinality(U)
        BY <1>2
      <4>2. most' = Count(k, E) - Cardinality(U')
        BY <1>6
      <4>3. \A x, y \in Nat : (x + 1) - (y + 1) = x - y /\ (x + 0) - (y + 0) = x - y
        OBVIOUS
      <4>. HIDE DEF U, most
      <4>. QED  BY <3>2, <3>3, <3>4, <4>1, <4>2, <4>3
    <3>6. NoMore(c, E)
      BY <2>2
    <3>7. /\ 0 <= most
          /\ \A i \in DOMAIN heap : HoldsProfile(c, i) => Upto(heap[i].slots, heap[i].to, E) <= most
          /\ \A u \in Threads : Serves(u, c) /\ req[u].pc = "record" => Upto(heap[req[u].id].slots, req[u].header.to, E) <= most
      BY <3>6 DEF NoMore
    <3>. HIDE DEF most, U
    <3>8. ASSUME NEW i \in DOMAIN heap', HoldsProfile(c, i)' PROVE Upto(heap'[i].slots, heap'[i].to, E) <= most
      <4>1. CASE HoldsProfile(c, i) /\ i \in DOMAIN heap
        BY <1>1, <3>7, <4>1
      <4>2. CASE i = id /\ id \notin DOMAIN heap
        <5>1. heap'[i] = Fresh /\ Fresh.to = 0
          BY <1>1, <4>2 DEF Fresh, Behavior!NewProfile
        <5>2. Upto(heap'[i].slots, 0, E) = 0
          <6>1. 1..0 = {}
            OBVIOUS
          <6>. QED  BY <6>1, FS_EmptySet DEF Upto
        <5>. QED  BY <3>7, <5>1, <5>2
      <4>. QED  BY <1>12, <3>8, <4>1, <4>2
    <3>9. ASSUME NEW u \in Threads, Serves(u, c)', req'[u].pc = "record"
          PROVE  Upto(heap'[req'[u].id].slots, req'[u].header.to, E) <= most
      <4>1. u # t /\ req'[u] = req[u] /\ Serves(u, c)
        BY <1>4, <1>8, <1>10, <3>9
      <4>2. req[u].id \in DOMAIN heap
        BY <4>1, ServesTyped
      <4>. QED  BY <1>1, <3>7, <3>9, <4>1, <4>2
    <3>10. ~Filters(c)'
      BY <1>11, <2>2
    <3>. QED  BY <3>5, <3>7, <3>8, <3>9, <3>10 DEF NoMore, most, U
  <2>. QED  BY <1>11, <2>2, <2>3
<1>17. Warned(c)'
  <2>1. \A u \in Threads : Serves(u, c)' /\ req'[u].pc = "alert" => Serves(u, c) /\ req[u].pc = "alert" /\ req'[u] = req[u]
    BY <1>4, <1>8, <1>10
  <2>2. More(events[c], events'[c])
    BY <1>1, <1>2, <1>3, <1>6, MoreAppend DEF k
  <2>3. ASSUME NEW n, Behavior!Earned(c, n) PROVE Behavior!Earned(c, n)'
    BY <1>1, <1>2, <1>3, <1>5, <1>6, <2>2, <2>3, StillEarned
  <2>. QED  BY <1>3, <2>1, <2>3 DEF OfAddress, Warned
<1>18. Alone(c)'
  <2>1. SUFFICES ASSUME single'[c]
                 PROVE  /\ \A u, v \in Threads : Serves(u, c)' /\ Serves(v, c)' => u = v
                        /\ (\A u \in Threads : ~Serves(u, c)') => Rests(c)'
                        /\ \A u \in Threads : Serves(u, c)' => Works(req[u])'
                        /\ Sweeps(c)' => Cleans(c)'
    BY DEF Alone
  <2>2. single[c] /\ ~Sweeps(c) /\ \A u \in Threads : ~Serves(u, c)
    BY <1>1, <2>1
  <2>3. Rests(c)
    BY <1>3, <2>2 DEF OfAddress, Alone
  <2>4. \A u \in Threads : Serves(u, c)' <=> u = t
    BY <1>10, <2>2
  <2>5. InStep(heap'[id], l, now)
    <3>1. CASE profiles[c] = None
      BY <1>1, <1>2, <1>3, <2>3, <3>1, FreshShows DEF Rests
    <3>2. CASE profiles[c] # None
      BY <1>1, <1>2, <2>3, <3>2 DEF Rests
    <3>. QED  BY <3>1, <3>2
  <2>6. Works(req[t])'
    <3>1. req'[t].pc = "append" /\ req'[t].ip = c /\ req'[t].id = id /\ req'[t].event = e
      BY <1>4, <1>8
    <3>2. profiles'[c] = id /\ events'[c] = k /\ now' = now
      BY <1>1, <1>6, <1>7
    <3>. QED  BY <1>5, <2>5, <3>1, <3>2 DEF Works
  <2>. QED  BY <1>11, <2>2, <2>4, <2>6
<1>19. OfAddress(c)'
  BY <1>14, <1>15, <1>16, <1>17, <1>18 DEF OfAddress
<1>. QED  BY <1>9, <1>13, <1>19, AddressStepKeeps

-----------------------------------------------------------------------------
(* The behavioral detector: the cleanup.                                   *)

\* The events of a profile.
Held(p) == SubSeq(p.slots, p.from + 1, p.to)

LEMMA HeldIs ==
  ASSUME NEW p \in Profiles
  PROVE  /\ Held(p) \in Seq(Happenings) /\ Len(Held(p)) = p.to - p.from
         /\ IsPart(Held(p), p.slots, p.from, p.to)
<1>. DEFINE s == p.slots  f == p.from  g == p.to  h == SubSeq(s, f + 1, g)
<1>1. s \in Seq(Happenings) /\ f \in Nat /\ g \in Nat /\ f <= g /\ g <= Len(s) /\ Len(s) \in Nat /\ DOMAIN s = 1..Len(s)
  BY DEF Profiles
<1>. HIDE DEF s, f, g
<1>2. \A i \in (f + 1)..g : s[i] \in Happenings
  BY <1>1
<1>3. /\ h \in Seq(Happenings) /\ Len(h) = g - f /\ DOMAIN h = 1..(g - f)
      /\ \A i \in 1..(g - f) : h[i] = s[f + i]
  <2>1. g - f \in Nat /\ (f + 1) - 1 = f /\ g + 1 - (f + 1) = g - f
    BY <1>1
  <2>2. h \in Seq(Happenings) /\ Len(h) = g - f
    BY <1>1, <2>1
  <2>3. \A i \in 1..(g - f) : h[i] = s[f + i]
    <3>1. \A i \in 1..(g - f) : h[i] = s[(f + 1) + i - 1] /\ (f + 1) + i - 1 = f + i
      BY <1>1, <2>1
    <3>. QED  BY <3>1
  <2>. QED  BY <2>1, <2>2, <2>3
<1>4. Held(p) = h
  BY DEF Held, s, f, g
<1>. HIDE DEF h
<1>. QED  BY <1>1, <1>3, <1>4 DEF IsPart, s, f, g

\* The cleanup adds nothing.
LEMMA KeptIs ==
  ASSUME NEW p \in Profiles, NEW x
  PROVE  LET kept == Behavior!Newer(Held(p), x)
         IN  /\ kept \in Seq(Happenings) /\ Len(kept) <= p.to - p.from /\ p.from + Len(kept) <= Len(p.slots)
             /\ \A j \in DOMAIN kept : \E i \in DOMAIN p.slots : kept[j] = p.slots[i]
             /\ \A E : Upto(p.slots, p.from, E) + Count(kept, E) <= Upto(p.slots, p.to, E)
<1>. DEFINE h == Held(p)  kept == Behavior!Newer(h, x)  s == p.slots  f == p.from  g == p.to
<1>1. s \in Seq(Happenings) /\ f \in Nat /\ g \in Nat /\ f <= g /\ g <= Len(s) /\ Len(s) \in Nat /\ DOMAIN s = 1..Len(s)
  BY DEF Profiles
<1>2. h \in Seq(Happenings) /\ Len(h) = g - f /\ IsPart(h, s, f, g)
  BY HeldIs
<1>3. /\ kept \in Seq(Happenings) /\ Len(kept) <= Len(h) /\ Happened(kept) \subseteq Happened(h)
      /\ \A E : Count(kept, E) <= Count(h, E)
  <2>. HIDE DEF h
  <2>. QED  BY <1>2, NewerFewer
<1>4. Len(kept) \in Nat
  BY <1>3
<1>. HIDE DEF h, kept, s, f, g
<1>5. Len(kept) <= g - f /\ f + Len(kept) <= Len(s)
  BY <1>1, <1>2, <1>3, <1>4
<1>6. ASSUME NEW j \in DOMAIN kept PROVE \E i \in DOMAIN s : kept[j] = s[i]
  <2>1. PICK i \in DOMAIN h : h[i] = kept[j]
    BY <1>3 DEF Happened
  <2>2. i \in 1..(g - f) /\ h[i] = s[f + i]
    BY <1>2 DEF IsPart
  <2>3. f + i \in DOMAIN s
    BY <1>1, <2>2
  <2>. QED  BY <2>1, <2>2, <2>3
<1>7. ASSUME NEW E PROVE Upto(s, f, E) + Count(kept, E) <= Upto(s, g, E)
  <2>1. Upto(s, f, E) + Count(h, E) = Upto(s, g, E)
    BY <1>2, PartUpto
  <2>2. Upto(s, f, E) \in Nat /\ Count(h, E) \in Nat /\ Count(kept, E) \in Nat
    BY <1>1, <1>2, <1>3, UptoType, CountType
  <2>. QED  BY <1>3, <2>1, <2>2
<1>. QED  BY <1>3, <1>5, <1>6, <1>7 DEF h, kept, s, f, g

LEMMA SweepIs ==
  ASSUME BehaviorInv, NEW c \in Visitors, Behavior!Sweep(c)
  PROVE  LET p == heap[profiles[c]]
         IN  /\ cleaner = Behavior!Idle
             /\ profiles[c] # None /\ profiles[c] \in DOMAIN heap /\ p \in Profiles
             /\ \/ p.lastSeen < now - LongWindow /\ cleaner' = [pc |-> "delete", ip |-> c]
                \/ cleaner' = [pc |-> "filter", ip |-> c, id |-> profiles[c], from |-> p.from,
                               kept |-> Behavior!Newer(Held(p), now - LongWindow)]
             /\ single' \in [Visitors -> BOOLEAN] /\ swept' \in [Visitors -> BOOLEAN]
             /\ \A d \in Visitors : d # c => single'[d] = single[d] /\ swept'[d] = swept[d]
             /\ single'[c] => single[c] /\ \A u \in Threads : ~Serves(u, c)
             /\ swept[c] => swept'[c]
             /\ ~swept'[c] => \A u \in Threads : ~Serves(u, c)
             /\ UNCHANGED <<profiles, heap, req, now, night, events>>
<1>. DEFINE company == \E u \in Threads : Serves(u, c)
<1>1. /\ heap \in Seq(Profiles) /\ single \in [Visitors -> BOOLEAN] /\ swept \in [Visitors -> BOOLEAN]
      /\ profiles[c] # None => profiles[c] \in DOMAIN heap
  BY DEF BehaviorInv, BehaviorTyped
<1>2. /\ cleaner = Behavior!Idle /\ profiles[c] # None
      /\ UNCHANGED <<profiles, heap, req, now, night, events>>
  BY DEF Behavior!Sweep
<1>3. single' = [single EXCEPT ![c] = @ /\ ~company] /\ swept' = [swept EXCEPT ![c] = @ \/ company]
  BY DEF Behavior!Sweep, Behavior!Meets, Serves
<1>4. \/ heap[profiles[c]].lastSeen < now - LongWindow /\ cleaner' = [pc |-> "delete", ip |-> c]
      \/ cleaner' = [pc |-> "filter", ip |-> c, id |-> profiles[c], from |-> heap[profiles[c]].from,
                     kept |-> Behavior!Newer(Held(heap[profiles[c]]), now - LongWindow)]
  BY DEF Behavior!Sweep, Held
<1>5. company \in BOOLEAN /\ (~company => \A u \in Threads : ~Serves(u, c))
  OBVIOUS
<1>. HIDE DEF company
<1>6. /\ single' \in [Visitors -> BOOLEAN] /\ swept' \in [Visitors -> BOOLEAN]
      /\ \A d \in Visitors : d # c => single'[d] = single[d] /\ swept'[d] = swept[d]
      /\ single'[c] => single[c] /\ ~company
      /\ swept[c] => swept'[c]
      /\ ~swept'[c] => ~company
  <2>1. (single[c] /\ ~company) \in BOOLEAN /\ (swept[c] \/ company) \in BOOLEAN
    BY <1>1, <1>5
  <2>. QED  BY <1>1, <1>3, <2>1, Zenon
<1>7. heap[profiles[c]] \in Profiles
  BY <1>1, <1>2
<1>. QED  BY <1>1, <1>2, <1>4, <1>5, <1>6, <1>7

LEMMA SweepKeeps ==
  ASSUME BehaviorInv, NEW c \in Visitors, Behavior!Sweep(c)
  PROVE  BehaviorInv'
<1>1. PICK id, p, l, kept : /\ id = profiles[c] /\ p = heap[id] /\ l = events[c]
                            /\ kept = Behavior!Newer(Held(p), now - LongWindow)
  OBVIOUS
<1>2. /\ cleaner = Behavior!Idle
      /\ id # None /\ id \in DOMAIN heap /\ p \in Profiles
      /\ \/ p.lastSeen < now - LongWindow /\ cleaner' = [pc |-> "delete", ip |-> c]
         \/ cleaner' = [pc |-> "filter", ip |-> c, id |-> id, from |-> p.from, kept |-> kept]
      /\ single' \in [Visitors -> BOOLEAN] /\ swept' \in [Visitors -> BOOLEAN]
      /\ \A d \in Visitors : d # c => single'[d] = single[d] /\ swept'[d] = swept[d]
      /\ single'[c] => single[c] /\ \A u \in Threads : ~Serves(u, c)
      /\ swept[c] => swept'[c]
      /\ ~swept'[c] => \A u \in Threads : ~Serves(u, c)
      /\ UNCHANGED <<profiles, heap, req, now, night, events>>
  BY <1>1, SweepIs
<1>3. /\ BehaviorTyped /\ now \in Nat /\ req = [u \in Threads |-> req[u]] /\ \A u \in Threads : AnalysisTyped(req[u])
      /\ heap \in Seq(Profiles) /\ swept \in [Visitors -> BOOLEAN]
      /\ OfAddress(c) /\ l \in Seq(Happenings)
  BY <1>1 DEF BehaviorInv, BehaviorTyped
<1>4. /\ kept \in Seq(Happenings) /\ p.from + Len(kept) <= Len(p.slots)
      /\ \A j \in DOMAIN kept : \E i \in DOMAIN p.slots : kept[j] = p.slots[i]
      /\ \A E : Upto(p.slots, p.from, E) + Count(kept, E) <= Upto(p.slots, p.to, E)
  BY <1>1, <1>2, KeptIs
<1>5. \/ cleaner'.pc = "delete" /\ cleaner'.ip = c /\ p.lastSeen < now - LongWindow
      \/ cleaner'.pc = "filter" /\ cleaner'.ip = c /\ cleaner'.id = id /\ cleaner'.from = p.from /\ cleaner'.kept = kept
  BY <1>2
<1>6. BehaviorTyped'
  <2>1. CleanerTyped'
    <3>1. p.from \in Nat
      BY <1>2 DEF Profiles
    <3>. QED  BY <1>1, <1>2, <1>4, <1>5, <3>1 DEF CleanerTyped
  <2>2. \A u \in Threads : AnalysisTyped(req[u])'
    BY <1>2, <1>3 DEF AnalysisTyped
  <2>. QED  BY <1>2, <1>3, <2>1, <2>2 DEF BehaviorTyped
<1>7. /\ \A u \in Threads, d \in Visitors : Serves(u, d)' <=> Serves(u, d)
      /\ \A d \in Visitors : ~Sweeps(d) /\ ~Filters(d)
      /\ \A d \in Visitors : Sweeps(d)' <=> d = c
      /\ \A d \in Visitors : Filters(d)' => d = c /\ cleaner'.id = id /\ cleaner'.from = p.from /\ cleaner'.kept = kept
  BY <1>2, <1>5 DEF Serves, Behavior!Serving, Sweeps, Filters, Behavior!Idle
<1>8. \A i : HoldsProfile(c, i)' => HoldsProfile(c, i)
  BY <1>1, <1>2, <1>7 DEF HoldsProfile
<1>9. StepAt(c)
  BY <1>2, <1>3, <1>7, <1>8 DEF StepAt
<1>10. Dated(events[c])'
  BY <1>2, <1>3 DEF OfAddress, Dated
<1>11. Genuine(c)'
  <2>1. Genuine(c)
    BY <1>3 DEF OfAddress
  <2>2. HoldsProfile(c, id)
    BY <1>1 DEF HoldsProfile
  <2>3. \A j \in DOMAIN kept : kept[j] \in Happened(l)
    BY <1>1, <1>2, <1>4, <2>1, <2>2 DEF Genuine
  <2>. QED  BY <1>1, <1>2, <1>7, <1>8, <2>1, <2>3 DEF Genuine
<1>12. Tallied(c)'
  <2>1. SUFFICES ASSUME ~swept'[c] PROVE (\A E \in Kinds : NoMore(c, E)') /\ \A u \in Threads : ~Serves(u, c)'
    BY DEF Tallied, Kinds, Happenings, SessionNames
  <2>2. ~swept[c] /\ \A u \in Threads : ~Serves(u, c)
    BY <1>2, <2>1
  <2>3. ASSUME NEW E \in Kinds PROVE NoMore(c, E)'
    <3>1. NoMore(c, E)
      BY <1>3, <2>2 DEF OfAddress, Tallied
    <3>2. Unwritten(c, E)' = Unwritten(c, E)
      BY <1>2, <1>7 DEF Unwritten
    <3>. DEFINE most == Count(events[c], E) - Cardinality(Unwritten(c, E))
    <3>3. most' = most
      BY <1>2, <3>2
    <3>4. Upto(p.slots, p.to, E) <= most
      <4>1. HoldsProfile(c, id)
        BY <1>1 DEF HoldsProfile
      <4>. QED  BY <1>1, <1>2, <3>1, <4>1 DEF NoMore
    <3>5. most \in Int
      <4>1. Count(events[c], E) \in Nat
        BY <1>1, <1>3, CountType
      <4>2. Unwritten(c, E) = {}
        BY <2>2 DEF Unwritten
      <4>. QED  BY <4>1, <4>2, FS_EmptySet
    <3>6. 0 <= most /\ \A i \in DOMAIN heap : HoldsProfile(c, i) => Upto(heap[i].slots, heap[i].to, E) <= most
      BY <3>1 DEF NoMore
    <3>. HIDE DEF most
    <3>7. Upto(p.slots, p.from, E) + Count(kept, E) <= most
      <4>1. Upto(p.slots, p.from, E) \in Nat /\ Count(kept, E) \in Nat /\ Upto(p.slots, p.to, E) \in Nat
        <5>1. p.from \in Nat /\ p.to \in Nat
          BY <1>2 DEF Profiles
        <5>. QED  BY <1>4, <5>1, UptoType, CountType
      <4>. QED  BY <1>4, <3>4, <3>5, <4>1
    <3>8. Filters(c)' => Upto(heap'[cleaner'.id].slots, cleaner'.from, E) + Count(cleaner'.kept, E) <= most
      BY <1>1, <1>2, <1>7, <3>7
    <3>9. \A i \in DOMAIN heap' : HoldsProfile(c, i)' => Upto(heap'[i].slots, heap'[i].to, E) <= most
      BY <1>2, <1>8, <3>6
    <3>10. \A u \in Threads : ~Serves(u, c)'
      BY <1>7, <2>2
    <3>. QED  BY <3>3, <3>6, <3>8, <3>9, <3>10 DEF NoMore, most
  <2>. QED  BY <1>7, <2>2, <2>3
<1>13. Warned(c)'
  <2>1. More(events[c], events'[c])
    <3>1. l \in Seq(Happenings) /\ events[c] = l /\ events'[c] = l
      BY <1>1, <1>2, <1>3
    <3>2. ASSUME NEW E PROVE Count(l, E) <= Count(l, E)
      <4>1. Count(l, E) \in Nat
        BY <3>1, CountType
      <4>. QED  BY <4>1
    <3>. QED  BY <3>1, <3>2 DEF More
  <2>2. ASSUME NEW n, Behavior!Earned(c, n) PROVE Behavior!Earned(c, n)'
    BY <1>1, <1>2, <1>3, <2>1, <2>2, StillEarned
  <2>. QED  BY <1>2, <1>3, <1>7, <2>2 DEF OfAddress, Warned
<1>14. Alone(c)'
  <2>1. SUFFICES ASSUME single'[c]
                 PROVE  /\ \A u, v \in Threads : Serves(u, c)' /\ Serves(v, c)' => u = v
                        /\ (\A u \in Threads : ~Serves(u, c)') => Rests(c)'
                        /\ \A u \in Threads : Serves(u, c)' => Works(req[u])'
                        /\ Sweeps(c)' => Cleans(c)'
    BY DEF Alone
  <2>2. single[c] /\ \A u \in Threads : ~Serves(u, c) /\ ~Serves(u, c)'
    BY <1>2, <1>7, <2>1
  <2>3. Rests(c)
    BY <1>3, <2>2 DEF OfAddress, Alone
  <2>4. Rests(c)'
    BY <1>2, <2>3 DEF Rests
  <2>5. p.lastSeen < now - LongWindow => Gone(l, now)
    <3>1. l # <<>> /\ p.lastSeen = l[Len(l)].at /\ Dated(l)
      BY <1>1, <1>2, <1>3, <2>3 DEF Rests, SeenLast, OfAddress
    <3>2. Len(l) \in DOMAIN l /\ \A i \in DOMAIN l : i <= Len(l) /\ l[i] \in Happenings
      BY <1>3, <3>1
    <3>3. \A i \in DOMAIN l : l[i].at \in Nat
      BY <3>2 DEF Happenings
    <3>4. \A i \in DOMAIN l : l[i].at <= l[Len(l)].at
      BY <3>1, <3>2 DEF Dated
    <3>. DEFINE z == now - LongWindow
    <3>5. z \in Int
      <4>1. LongWindow \in Nat
        BY BehaviorConstants
      <4>. QED  BY <1>3, <4>1
    <3>. HIDE DEF z
    <3>6. \A x, y \in Nat : x <= y /\ y < z => x <= z
      BY <3>5
    <3>7. p.lastSeen < z => \A i \in DOMAIN l : l[i].at <= z
      BY <3>1, <3>2, <3>3, <3>4, <3>6
    <3>. QED  BY <3>7 DEF Gone, z
  <2>6. Cleans(c)'
    <3>1. profiles'[c] = id /\ heap'[id] = p /\ events'[c] = l /\ now' = now
      BY <1>1, <1>2
    <3>2. Gone(events[c], now)' <=> Gone(l, now)
      BY <3>1
    <3>3. cleaner'.pc = "delete" => Gone(l, now)
      BY <1>5, <2>5
    <3>4. cleaner'.pc = "filter" => cleaner'.id = id /\ cleaner'.from = p.from /\ cleaner'.kept = kept
      BY <1>5
    <3>5. Behavior!Newer(Held(p), now - LongWindow) = Behavior!Newer(SubSeq(p.slots, p.from + 1, p.to), now - LongWindow)
      BY DEF Held
    <3>. QED  BY <1>1, <1>2, <2>2, <3>1, <3>2, <3>3, <3>4, <3>5 DEF Cleans
  <2>. QED  BY <2>2, <2>4, <2>6
<1>15. OfAddress(c)'
  BY <1>10, <1>11, <1>12, <1>13, <1>14 DEF OfAddress
<1>. QED  BY <1>6, <1>9, <1>15, AddressStepKeeps

LEMMA DeleteKeeps ==
  ASSUME BehaviorInv, Behavior!Delete
  PROVE  BehaviorInv'
<1>1. PICK c, l : c = cleaner.ip /\ l = events[c]
  OBVIOUS
<1>2. /\ cleaner.pc = "delete" /\ profiles' = [profiles EXCEPT ![c] = None] /\ cleaner' = Behavior!Idle
      /\ UNCHANGED <<heap, req, now, night, events, single, swept>>
  BY <1>1 DEF Behavior!Delete
<1>3. /\ BehaviorTyped /\ now \in Nat /\ \A u \in Threads : AnalysisTyped(req[u])
      /\ heap \in Seq(Profiles) /\ profiles \in [Visitors -> Nat \cup {None}]
      /\ CleanerTyped
  BY DEF BehaviorInv, BehaviorTyped
<1>4. c \in Visitors
  BY <1>1, <1>2, <1>3 DEF CleanerTyped, Behavior!Idle
<1>5. OfAddress(c)
  BY <1>4 DEF BehaviorInv
<1>6. /\ profiles'[c] = None /\ \A d \in Visitors : d # c => profiles'[d] = profiles[d]
      /\ profiles' \in [Visitors -> Nat \cup {None}]
  BY <1>2, <1>3, <1>4
<1>7. BehaviorTyped'
  <2>1. CleanerTyped'
    BY <1>2 DEF CleanerTyped
  <2>2. \A u \in Threads : AnalysisTyped(req[u])'
    BY <1>2, <1>3 DEF AnalysisTyped
  <2>3. \A d \in Visitors : profiles'[d] # None => profiles'[d] \in DOMAIN heap'
    BY <1>2, <1>3, <1>6 DEF BehaviorTyped
  <2>. QED  BY <1>2, <1>3, <1>6, <2>1, <2>2, <2>3 DEF BehaviorTyped
<1>8. /\ \A u \in Threads, d \in Visitors : Serves(u, d)' <=> Serves(u, d)
      /\ \A d \in Visitors : ~Filters(d) /\ ~Filters(d)' /\ ~Sweeps(d)' /\ (Sweeps(d) <=> d = c)
  BY <1>1, <1>2 DEF Serves, Behavior!Serving, Sweeps, Filters, Behavior!Idle
<1>9. \A i : i # None /\ HoldsProfile(c, i)' => HoldsProfile(c, i)
  BY <1>2, <1>4, <1>6, <1>8 DEF HoldsProfile
<1>10. \A i \in DOMAIN heap : i # None
  <2>1. \A i \in DOMAIN heap : i \in Nat
    BY <1>3
  <2>. QED  BY <2>1, BehaviorConstants
<1>11. StepAt(c)
  BY <1>2, <1>3, <1>6, <1>8, <1>9, <1>10 DEF StepAt
<1>12. Dated(events[c])'
  BY <1>2, <1>5 DEF OfAddress, Dated
<1>13. Genuine(c)'
  BY <1>2, <1>4, <1>5, <1>8, <1>9, <1>10 DEF OfAddress, Genuine
<1>14. Tallied(c)'
  <2>1. SUFFICES ASSUME ~swept[c] PROVE \A E \in Kinds : NoMore(c, E)'
    BY <1>2, <1>4, <1>8 DEF Tallied, Kinds, Happenings, SessionNames
  <2>2. ASSUME NEW E \in Kinds PROVE NoMore(c, E)'
    <3>1. NoMore(c, E)
      BY <1>5, <2>1 DEF OfAddress, Tallied
    <3>2. Unwritten(c, E)' = Unwritten(c, E)
      BY <1>2, <1>4, <1>8 DEF Unwritten
    <3>. DEFINE most == Count(events[c], E) - Cardinality(Unwritten(c, E))
    <3>3. most' = most
      BY <1>2, <3>2
    <3>4. /\ 0 <= most
          /\ \A i \in DOMAIN heap : HoldsProfile(c, i) => Upto(heap[i].slots, heap[i].to, E) <= most
          /\ \A u \in Threads : Serves(u, c) /\ req[u].pc = "record" => Upto(heap[req[u].id].slots, req[u].header.to, E) <= most
      BY <3>1 DEF NoMore
    <3>. HIDE DEF most
    <3>. QED  BY <1>2, <1>4, <1>8, <1>9, <1>10, <3>3, <3>4 DEF NoMore, most
  <2>. QED  BY <2>2
<1>15. Warned(c)'
  <2>1. \A n : Behavior!Earned(c, n)' <=> Behavior!Earned(c, n)
    BY <1>2, EarnedStays
  <2>. QED  BY <1>2, <1>4, <1>5, <1>8, <2>1 DEF OfAddress, Warned
<1>16. Alone(c)'
  <2>1. SUFFICES ASSUME single[c]
                 PROVE  /\ \A u, v \in Threads : Serves(u, c)' /\ Serves(v, c)' => u = v
                        /\ (\A u \in Threads : ~Serves(u, c)') => Rests(c)'
                        /\ \A u \in Threads : Serves(u, c)' => Works(req[u])'
                        /\ Sweeps(c)' => Cleans(c)'
    BY <1>2 DEF Alone
  <2>2. Cleans(c)
    BY <1>4, <1>5, <1>8, <2>1 DEF OfAddress, Alone
  <2>3. (\A u \in Threads : ~Serves(u, c)) /\ Gone(l, now)
    BY <1>1, <1>2, <2>2 DEF Cleans
  <2>4. Rests(c)'
    <3>1. profiles'[c] = None /\ events'[c] = l /\ now' = now
      BY <1>1, <1>2, <1>6
    <3>. QED  BY <2>3, <3>1 DEF Rests
  <2>. QED  BY <1>4, <1>8, <2>3, <2>4
<1>17. OfAddress(c)'
  BY <1>12, <1>13, <1>14, <1>15, <1>16 DEF OfAddress
<1>. QED  BY <1>4, <1>7, <1>11, <1>17, AddressStepKeeps

\* What the filter leaves of a profile.
Filtered(p, f, kept) ==
  [slots |-> [i \in DOMAIN p.slots |-> IF i - f \in 1..Len(kept) THEN kept[i - f] ELSE p.slots[i]],
   from |-> f, to |-> f + Len(kept), sessions |-> p.sessions, lastSeen |-> p.lastSeen]

LEMMA FilteredIs ==
  ASSUME NEW p \in Profiles, NEW f \in Nat, NEW kept \in Seq(Happenings), f + Len(kept) <= Len(p.slots)
  PROVE  LET w == Filtered(p, f, kept)  n == Len(kept)
         IN  /\ w \in Profiles /\ w.from = f /\ w.to = f + n /\ n \in Nat
             /\ w.sessions = p.sessions /\ w.lastSeen = p.lastSeen
             /\ Len(w.slots) = Len(p.slots) /\ DOMAIN w.slots = DOMAIN p.slots
             /\ IsPart(kept, w.slots, f, f + n)
             /\ \A i \in DOMAIN p.slots :
                  IF i \in (f + 1)..(f + n) THEN i - f \in DOMAIN kept /\ w.slots[i] = kept[i - f]
                                            ELSE w.slots[i] = p.slots[i]
<1>. DEFINE w == Filtered(p, f, kept)  n == Len(kept)  s == p.slots  q == w.slots
<1>1. /\ s \in Seq(Happenings) /\ Len(s) \in Nat /\ DOMAIN s = 1..Len(s)
      /\ p.sessions \subseteq Sessions /\ p.lastSeen \in Nat
  BY DEF Profiles
<1>2. n \in Nat /\ DOMAIN kept = 1..n /\ \A i \in 1..n : kept[i] \in Happenings
  OBVIOUS
<1>3. q = [i \in DOMAIN s |-> IF i - f \in 1..n THEN kept[i - f] ELSE s[i]]
  BY DEF Filtered
<1>4. w.from = f /\ w.to = f + n /\ w.sessions = p.sessions /\ w.lastSeen = p.lastSeen
  BY DEF Filtered
<1>5. w = [slots |-> q, from |-> f, to |-> f + n, sessions |-> p.sessions, lastSeen |-> p.lastSeen]
  BY <1>3, <1>4 DEF Filtered
<1>. DEFINE m == Len(s)
<1>. HIDE DEF w, s, q, n, m
<1>6. m \in Nat /\ DOMAIN s = 1..m /\ \A i \in 1..m : s[i] \in Happenings
  BY <1>1 DEF m
<1>7. q \in [1..m -> Happenings]
  BY <1>2, <1>3, <1>6
<1>8. q \in Seq(Happenings) /\ Len(q) = m /\ DOMAIN q = 1..m
  BY <1>6, <1>7
<1>9. f + n \in Nat /\ f <= f + n /\ f + n <= m
  BY <1>2 DEF n, m, s
<1>10. w \in Profiles
  BY <1>1, <1>5, <1>8, <1>9 DEF Profiles
<1>11. \A i \in 1..m : IF i \in (f + 1)..(f + n) THEN i - f \in 1..n /\ q[i] = kept[i - f] ELSE q[i] = s[i]
  BY <1>2, <1>3, <1>6
<1>12. IsPart(kept, q, f, f + n)
  <2>1. (f + n) - f = n
    BY <1>2
  <2>2. \A i \in 1..n : f + i \in 1..m /\ f + i \in (f + 1)..(f + n) /\ (f + i) - f = i
    BY <1>2, <1>6, <1>9
  <2>3. \A i \in 1..n : kept[i] = q[f + i]
    BY <1>11, <2>2
  <2>. QED  BY <1>2, <1>9, <2>1, <2>3 DEF IsPart
<1>. QED  BY <1>2, <1>4, <1>6, <1>8, <1>10, <1>11, <1>12 DEF w, s, q, n, m

LEMMA FilteredShows ==
  ASSUME now \in Nat, NEW p \in Profiles, NEW l \in Seq(Happenings), Dated(l), Shows(p, l, now),
         NEW kept, kept = Behavior!Newer(Held(p), now - LongWindow)
  PROVE  Shows(Filtered(p, p.from, kept), l, now)
<1>. DEFINE f == p.from  w == Filtered(p, f, kept)  q == w.slots  m == MaxTrackedEvents
            h == Held(p)  k == p.to - f  n == Len(kept)  z == Len(l)  d == z - k  g == k - n  x == now - LongWindow
<1>1. /\ f \in Nat /\ p.to \in Nat /\ f <= p.to /\ m \in Nat \ {0} /\ z \in Nat /\ x \in Int /\ DOMAIN l = 1..z
  BY BehaviorConstants DEF Profiles
<1>2. /\ k <= m /\ k <= z
      /\ \A i \in 1..k : p.slots[f + i] = l[d + i]
      /\ k = m \/ \A i \in 1..d : l[i].at <= x
  BY DEF Shows
<1>3. h \in Seq(Happenings) /\ Len(h) = k /\ DOMAIN h = 1..k /\ \A i \in 1..k : h[i] = p.slots[f + i]
  BY HeldIs DEF IsPart
<1>4. kept \in Seq(Happenings) /\ f + n <= Len(p.slots) /\ n <= k
  BY KeptIs
<1>5. n \in Nat
  BY <1>4
<1>6. IsPart(kept, q, f, f + n) /\ w.from = f /\ w.to = f + n
  BY <1>1, <1>4, FilteredIs
<1>. HIDE DEF f, w, q, h, k, n, z, m
<1>7. k \in Nat /\ d \in Nat /\ g \in Nat /\ z = d + k /\ k = g + n /\ z - n = d + g
  <2>1. \A a, b, i, j \in Nat :
          a <= b /\ b - a <= j /\ i <= b - a =>
            /\ b - a \in Nat /\ j - (b - a) \in Nat /\ (b - a) - i \in Nat
            /\ j = (j - (b - a)) + (b - a) /\ b - a = ((b - a) - i) + i
            /\ j - i = (j - (b - a)) + ((b - a) - i)
    OBVIOUS
  <2>2. f <= p.to /\ p.to - f <= z /\ n <= p.to - f
    BY <1>1, <1>2, <1>4 DEF k
  <2>. QED  BY <1>1, <1>5, <2>1, <2>2 DEF k
<1>. HIDE DEF d, g
<1>8. \A i \in 1..k : h[i] = l[d + i] /\ d + i \in 1..z
  <2>1. \A i \in 1..k : h[i] = l[d + i]
    BY <1>2, <1>3
  <2>2. \A i \in 1..k : d + i \in 1..z
    BY <1>1, <1>7
  <2>. QED  BY <2>1, <2>2
<1>9. Dates(Happenings)
  BY DEF Dates, Happenings
<1>10. Sorted(h)
  <2>1. ASSUME NEW i \in 1..k, NEW j \in 1..k, i <= j PROVE h[i].at <= h[j].at
    <3>1. d + i <= d + j /\ d + i \in DOMAIN l /\ d + j \in DOMAIN l
      BY <1>1, <1>7, <1>8, <2>1
    <3>2. l[d + i].at <= l[d + j].at
      BY <3>1 DEF Dated
    <3>. QED  BY <1>8, <3>2
  <2>. QED  BY <1>3, <2>1 DEF Sorted
<1>11. kept = Behavior!Newer(h, x)
  BY DEF h
<1>. HIDE DEF x
<1>12. /\ \A i \in 1..n : kept[i] = h[g + i]
       /\ \A i \in 1..g : h[i].at <= x
  <2>. DEFINE b == Behavior!Newer(h, x)
  <2>1. /\ \A i \in 1..Len(b) : b[i] = h[(Len(h) - Len(b)) + i]
        /\ \A i \in 1..(Len(h) - Len(b)) : h[i].at <= x
    BY <1>1, <1>3, <1>9, <1>10, NewerEnd
  <2>2. b = kept /\ Len(h) - Len(b) = g
    BY <1>3, <1>11 DEF g, n
  <2>. HIDE DEF b
  <2>. QED  BY <2>1, <2>2 DEF n
<1>13. ASSUME NEW i \in 1..n PROVE q[f + i] = l[(d + g) + i]
  <2>1. q[f + i] = kept[i]
    <3>1. i \in 1..((f + n) - f)
      BY <1>1, <1>5
    <3>. QED  BY <1>6, <3>1 DEF IsPart
  <2>2. g + i \in 1..k /\ d + (g + i) = (d + g) + i
    BY <1>5, <1>7
  <2>3. h[g + i] = l[d + (g + i)]
    BY <1>8, <2>2
  <2>. QED  BY <1>12, <2>1, <2>2, <2>3
<1>14. n <= m /\ n <= z
  BY <1>1, <1>2, <1>4, <1>5, <1>7
<1>15. n = m \/ \A i \in 1..(d + g) : l[i].at <= x
  <2>1. CASE g = 0
    <3>1. n = k /\ d + g = d
      BY <1>5, <1>7, <2>1
    <3>. QED  BY <1>2, <3>1
  <2>2. CASE g # 0
    <3>1. g \in 1..g /\ g \in 1..k /\ d + g \in 1..z
      BY <1>5, <1>7, <2>2
    <3>2. l[d + g].at <= x
      BY <1>8, <1>12, <3>1
    <3>3. ASSUME NEW i \in 1..(d + g) PROVE l[i].at <= x
      <4>1. i \in 1..z /\ i <= d + g
        BY <1>1, <1>7, <3>1
      <4>2. l[i].at <= l[d + g].at
        BY <1>1, <3>1, <4>1 DEF Dated
      <4>3. l[i].at \in Nat /\ l[d + g].at \in Nat
        <5>1. l[i] \in Happenings /\ l[d + g] \in Happenings
          BY <1>1, <3>1, <4>1
        <5>. QED  BY <5>1 DEF Happenings
      <4>. QED  BY <1>1, <3>2, <4>2, <4>3
    <3>. QED  BY <3>3
  <2>. QED  BY <2>1, <2>2
<1>16. w.to - w.from = n /\ w.from = f
  BY <1>1, <1>5, <1>6
<1>17. z - n = d + g
  BY <1>7
<1>. QED  BY <1>13, <1>14, <1>15, <1>16, <1>17 DEF Shows, q, z, m, x, w, f

Cut(p, q, f, n) == [p EXCEPT !.slots = q, !.from = f, !.to = n]

LEMMA CutIs ==
  ASSUME NEW p \in Profiles, NEW q, NEW f, NEW n
  PROVE  Cut(p, q, f, n)
           = [slots |-> q, from |-> f, to |-> n, sessions |-> p.sessions, lastSeen |-> p.lastSeen]
<1>1. p = [slots |-> p.slots, from |-> p.from, to |-> p.to, sessions |-> p.sessions, lastSeen |-> p.lastSeen]
  BY DEF Profiles
<1>. DEFINE a == [p EXCEPT !.slots = q]  b == [a EXCEPT !.from = f]  d == [b EXCEPT !.to = n]
<1>2. a = [slots |-> q, from |-> p.from, to |-> p.to, sessions |-> p.sessions, lastSeen |-> p.lastSeen]
  BY <1>1
<1>. HIDE DEF a
<1>3. b = [slots |-> q, from |-> f, to |-> p.to, sessions |-> p.sessions, lastSeen |-> p.lastSeen]
  BY <1>2
<1>. HIDE DEF b
<1>4. d = [slots |-> q, from |-> f, to |-> n, sessions |-> p.sessions, lastSeen |-> p.lastSeen]
  BY <1>3
<1>5. Cut(p, q, f, n) = d
  BY DEF a, b, Cut
<1>. QED  BY <1>4, <1>5

LEMMA FilterIs ==
  ASSUME BehaviorInv, Behavior!Filter
  PROVE  LET c == cleaner.ip  id == cleaner.id  p == heap[id]
         IN  /\ c \in Visitors /\ Filters(c) /\ Sweeps(c) /\ HoldsProfile(c, id)
             /\ id \in DOMAIN heap /\ p \in Profiles
             /\ cleaner.from \in Nat /\ cleaner.kept \in Seq(Happenings) /\ cleaner.from + Len(cleaner.kept) <= Len(p.slots)
             /\ heap' = [heap EXCEPT ![id] = Filtered(p, cleaner.from, cleaner.kept)]
             /\ cleaner' = Behavior!Idle
             /\ UNCHANGED <<profiles, req, now, night, events, single, swept>>
<1>. DEFINE id == cleaner.id  p == heap[id]  f == cleaner.from  kept == cleaner.kept
<1>1. cleaner.pc = "filter" /\ CleanerTyped /\ heap \in Seq(Profiles)
  BY DEF Behavior!Filter, BehaviorInv, BehaviorTyped
<1>2. /\ cleaner.ip \in Visitors /\ id \in DOMAIN heap /\ f \in Nat /\ kept \in Seq(Happenings)
      /\ f + Len(kept) <= Len(p.slots)
  BY <1>1 DEF CleanerTyped, Behavior!Idle
<1>3. p \in Profiles
  BY <1>1, <1>2
<1>4. Filters(cleaner.ip) /\ Sweeps(cleaner.ip) /\ HoldsProfile(cleaner.ip, id)
  BY <1>1 DEF Filters, Sweeps, HoldsProfile
<1>5. cleaner' = Behavior!Idle /\ UNCHANGED <<profiles, req, now, night, events, single, swept>>
  BY DEF Behavior!Filter
<1>. DEFINE q == [i \in DOMAIN p.slots |-> IF i - f \in 1..Len(kept) THEN kept[i - f] ELSE p.slots[i]]  n == f + Len(kept)
<1>6. heap' = [heap EXCEPT ![id] = [p EXCEPT !.slots = q, !.from = f, !.to = n]]
  BY DEF Behavior!Filter
<1>7. Filtered(p, f, kept) = [slots |-> q, from |-> f, to |-> n, sessions |-> p.sessions, lastSeen |-> p.lastSeen]
  BY DEF Filtered
<1>. HIDE DEF q, n, p
<1>9. Cut(p, q, f, n) = Filtered(p, f, kept)
  BY <1>3, <1>7, CutIs
<1>10. heap' = [heap EXCEPT ![id] = Filtered(p, f, kept)]
  <2>1. heap' = [heap EXCEPT ![id] = Cut(p, q, f, n)]
    BY <1>6 DEF Cut
  <2>. HIDE DEF f
  <2>. QED  BY <1>9, <2>1
<1>. QED  BY <1>2, <1>3, <1>4, <1>5, <1>10 DEF p

LEMMA FilterKeeps ==
  ASSUME BehaviorInv, Behavior!Filter
  PROVE  BehaviorInv'
<1>1. PICK c, id, p, f, kept, l :
        /\ c = cleaner.ip /\ id = cleaner.id /\ p = heap[id] /\ f = cleaner.from /\ kept = cleaner.kept
        /\ l = events[c]
  OBVIOUS
<1>. DEFINE w == Filtered(p, f, kept)  n == Len(kept)
<1>2. /\ c \in Visitors /\ Filters(c) /\ Sweeps(c) /\ HoldsProfile(c, id)
      /\ id \in DOMAIN heap /\ p \in Profiles
      /\ f \in Nat /\ kept \in Seq(Happenings) /\ f + n <= Len(p.slots)
      /\ heap' = [heap EXCEPT ![id] = w]
      /\ cleaner' = Behavior!Idle
      /\ UNCHANGED <<profiles, req, now, night, events, single, swept>>
  BY <1>1, FilterIs
<1>3. /\ BehaviorTyped /\ now \in Nat /\ \A u \in Threads : AnalysisTyped(req[u])
      /\ heap \in Seq(Profiles)
      /\ OfAddress(c) /\ l \in Seq(Happenings)
  BY <1>1, <1>2 DEF BehaviorInv, BehaviorTyped
<1>4. /\ w \in Profiles /\ w.from = f /\ w.to = f + n /\ n \in Nat
      /\ w.sessions = p.sessions /\ w.lastSeen = p.lastSeen
      /\ Len(w.slots) = Len(p.slots) /\ DOMAIN w.slots = DOMAIN p.slots
      /\ IsPart(kept, w.slots, f, f + n)
      /\ \A i \in DOMAIN p.slots :
           IF i \in (f + 1)..(f + n) THEN i - f \in DOMAIN kept /\ w.slots[i] = kept[i - f]
                                     ELSE w.slots[i] = p.slots[i]
  BY <1>2, FilteredIs
<1>. HIDE DEF w, n
<1>5. /\ heap' \in Seq(Profiles) /\ DOMAIN heap' = DOMAIN heap /\ heap'[id] = w
      /\ \A i \in DOMAIN heap : i # id => heap'[i] = heap[i]
  BY <1>2, <1>3, <1>4
<1>6. BehaviorTyped'
  <2>1. CleanerTyped'
    BY <1>2 DEF CleanerTyped
  <2>2. \A i \in DOMAIN heap : Len(heap'[i].slots) = Len(heap[i].slots)
    BY <1>1, <1>4, <1>5
  <2>3. \A u \in Threads : AnalysisTyped(req[u])'
    BY <1>2, <1>3, <1>5, <2>2 DEF AnalysisTyped
  <2>. QED  BY <1>2, <1>3, <1>5, <2>1, <2>3 DEF BehaviorTyped
<1>7. /\ \A u \in Threads, d \in Visitors : Serves(u, d)' <=> Serves(u, d)
      /\ \A d \in Visitors : ~Filters(d)' /\ ~Sweeps(d)' /\ (d # c => ~Sweeps(d))
  BY <1>1, <1>2 DEF Serves, Behavior!Serving, Sweeps, Filters, Behavior!Idle
<1>8. \A i : HoldsProfile(c, i)' => HoldsProfile(c, i)
  BY <1>2, <1>7 DEF HoldsProfile
<1>9. StepAt(c)
  BY <1>2, <1>5, <1>7, <1>8 DEF StepAt
<1>10. Dated(events[c])'
  BY <1>2, <1>3 DEF OfAddress, Dated
<1>11. Genuine(c)'
  <2>1. Genuine(c)
    BY <1>3 DEF OfAddress
  <2>2. /\ \A j \in DOMAIN p.slots : p.slots[j] \in Happened(l)
        /\ SessionsTrue(p.sessions, l)
        /\ \A j \in DOMAIN kept : kept[j] \in Happened(l)
    BY <1>1, <1>2, <2>1 DEF Genuine
  <2>3. \A j \in DOMAIN w.slots : w.slots[j] \in Happened(l)
    BY <1>4, <2>2
  <2>4. ASSUME NEW i \in DOMAIN heap, HoldsProfile(c, i)
        PROVE  (\A j \in DOMAIN heap'[i].slots : heap'[i].slots[j] \in Happened(l)) /\ SessionsTrue(heap'[i].sessions, l)
    <3>1. CASE i = id
      BY <1>4, <1>5, <2>2, <2>3, <3>1
    <3>2. CASE i # id
      BY <1>1, <1>5, <2>1, <2>4, <3>2 DEF Genuine
    <3>. QED  BY <3>1, <3>2
  <2>. QED  BY <1>1, <1>2, <1>5, <1>7, <1>8, <2>1, <2>4 DEF Genuine
<1>12. Tallied(c)'
  <2>1. SUFFICES ASSUME ~swept[c] PROVE \A E \in Kinds : NoMore(c, E)'
    BY <1>2, <1>7 DEF Tallied, Kinds, Happenings, SessionNames
  <2>2. \A u \in Threads : ~Serves(u, c) /\ ~Serves(u, c)'
    BY <1>2, <1>3, <1>7, <2>1 DEF OfAddress, Tallied
  <2>3. ASSUME NEW E \in Kinds PROVE NoMore(c, E)'
    <3>1. NoMore(c, E)
      BY <1>3, <2>1 DEF OfAddress, Tallied
    <3>2. Unwritten(c, E)' = Unwritten(c, E)
      BY <2>2 DEF Unwritten
    <3>. DEFINE most == Count(events[c], E) - Cardinality(Unwritten(c, E))
    <3>3. most' = most
      BY <1>2, <3>2
    <3>4. /\ 0 <= most
          /\ \A i \in DOMAIN heap : HoldsProfile(c, i) => Upto(heap[i].slots, heap[i].to, E) <= most
          /\ Upto(p.slots, f, E) + Count(kept, E) <= most
      BY <1>1, <1>2, <3>1 DEF NoMore
    <3>. HIDE DEF most
    <3>5. Upto(w.slots, w.to, E) <= most
      <4>1. Upto(w.slots, f, E) + Count(kept, E) = Upto(w.slots, f + n, E)
        BY <1>4, PartUpto
      <4>2. \A i \in 1..f : w.slots[i] = p.slots[i]
        <5>1. f <= Len(p.slots) /\ Len(p.slots) \in Nat /\ DOMAIN p.slots = 1..Len(p.slots)
          <6>1. p.slots \in Seq(Happenings)
            BY <1>2 DEF Profiles
          <6>2. Len(p.slots) \in Nat /\ DOMAIN p.slots = 1..Len(p.slots)
            BY <6>1
          <6>. QED  BY <1>2, <1>4, <6>2
        <5>2. \A i \in 1..f : i \in DOMAIN p.slots /\ i \notin (f + 1)..(f + n)
          BY <1>2, <5>1
        <5>. QED  BY <1>4, <5>2
      <4>3. {i \in 1..f : w.slots[i] \in E} = {i \in 1..f : p.slots[i] \in E}
        BY <4>2
      <4>4. Upto(w.slots, f, E) = Upto(p.slots, f, E)
        BY <4>3 DEF Upto
      <4>. QED  BY <1>4, <3>4, <4>1, <4>4
    <3>6. \A i \in DOMAIN heap' : HoldsProfile(c, i)' => Upto(heap'[i].slots, heap'[i].to, E) <= most
      BY <1>5, <1>8, <3>4, <3>5
    <3>. QED  BY <1>2, <1>7, <2>2, <3>3, <3>4, <3>6 DEF NoMore, most
  <2>. QED  BY <2>3
<1>13. Warned(c)'
  <2>1. \A m : Behavior!Earned(c, m)' <=> Behavior!Earned(c, m)
    BY <1>2, EarnedStays
  <2>. QED  BY <1>2, <1>3, <1>7, <2>1 DEF OfAddress, Warned
<1>14. Alone(c)'
  <2>1. SUFFICES ASSUME single[c]
                 PROVE  /\ \A u, v \in Threads : Serves(u, c)' /\ Serves(v, c)' => u = v
                        /\ (\A u \in Threads : ~Serves(u, c)') => Rests(c)'
                        /\ \A u \in Threads : Serves(u, c)' => Works(req[u])'
                        /\ Sweeps(c)' => Cleans(c)'
    BY <1>2 DEF Alone
  <2>2. Cleans(c)
    BY <1>2, <1>3, <2>1 DEF OfAddress, Alone
  <2>3. \A u \in Threads : ~Serves(u, c)
    BY <2>2 DEF Cleans
  <2>4. Rests(c)
    BY <1>3, <2>1, <2>3 DEF OfAddress, Alone
  <2>5. /\ profiles[c] = id /\ id # None /\ f = p.from
        /\ kept = Behavior!Newer(Held(p), now - LongWindow)
    BY <1>1, <1>2, <2>2 DEF Cleans, Filters, Held
  <2>6. InStep(p, l, now) /\ SeenLast(p, l)
    BY <1>1, <2>4, <2>5 DEF Rests
  <2>7. Shows(w, l, now)
    <3>1. Shows(Filtered(p, p.from, kept), l, now)
      <4>1. Dated(l) /\ Shows(p, l, now)
        BY <1>1, <1>3, <2>6 DEF OfAddress, InStep
      <4>. QED  BY <1>2, <1>3, <2>5, <4>1, FilteredShows
    <3>. QED  BY <2>5, <3>1 DEF w
  <2>8. Recalls(w, l, now) /\ SeenLast(w, l)
    BY <1>4, <2>6 DEF InStep, Recalls, SeenLast
  <2>9. Rests(c)'
    <3>1. profiles'[c] = id /\ heap'[id] = w /\ events'[c] = l /\ now' = now
      BY <1>1, <1>2, <1>5, <2>5
    <3>. QED  BY <2>5, <2>7, <2>8, <3>1 DEF Rests, InStep
  <2>. QED  BY <1>2, <1>7, <2>3, <2>9
<1>15. OfAddress(c)'
  BY <1>10, <1>11, <1>12, <1>13, <1>14 DEF OfAddress
<1>. QED  BY <1>2, <1>6, <1>9, <1>15, AddressStepKeeps

LEMMA LaterGone ==
  ASSUME NEW x \in Nat, NEW l \in Seq(Happenings), Gone(l, x)
  PROVE  Gone(l, x + 1)
<1>1. \A i \in DOMAIN l : l[i].at \in Nat
  <2>1. \A i \in DOMAIN l : l[i] \in Happenings
    OBVIOUS
  <2>. QED  BY <2>1 DEF Happenings
<1>2. \A a \in Nat : a <= x - LongWindow => a <= (x + 1) - LongWindow
  <2>1. LongWindow \in Nat
    BY BehaviorConstants
  <2>. QED  BY <2>1
<1>. QED  BY <1>1, <1>2 DEF Gone

LEMMA LaterInStep ==
  ASSUME NEW x \in Nat, NEW p \in Profiles, NEW l \in Seq(Happenings)
  PROVE  InStep(p, l, x) => InStep(p, l, x + 1)
<1>1. LongWindow \in Nat /\ SessionWindow \in Nat
  BY BehaviorConstants
<1>2. \A i \in DOMAIN l : l[i].at \in Nat
  <2>1. \A i \in DOMAIN l : l[i] \in Happenings
    OBVIOUS
  <2>. QED  BY <2>1 DEF Happenings
<1>. DEFINE y == x - LongWindow  z == (x + 1) - LongWindow  u == x - SessionWindow  v == (x + 1) - SessionWindow
<1>3. \A a \in Nat : (a <= y => a <= z) /\ (a >= v => a >= u)
  BY <1>1
<1>. HIDE DEF y, z, u, v
<1>4. Shows(p, l, x) => Shows(p, l, x + 1)
  <2>. DEFINE n == p.to - p.from  d == Len(l) - n
  <2>1. SUFFICES ASSUME Shows(p, l, x) PROVE Shows(p, l, x + 1)
    OBVIOUS
  <2>2. /\ n <= MaxTrackedEvents /\ n <= Len(l)
        /\ \A i \in 1..n : p.slots[p.from + i] = l[d + i]
        /\ n = MaxTrackedEvents \/ \A i \in 1..d : l[i].at <= y
    BY <2>1 DEF Shows, y
  <2>3. n = MaxTrackedEvents \/ \A i \in 1..d : l[i].at <= z
    <3>1. CASE n = MaxTrackedEvents
      BY <3>1
    <3>2. CASE \A i \in 1..d : l[i].at <= y
      <4>1. ASSUME NEW i \in 1..d PROVE l[i].at <= z
        <5>1. i \in DOMAIN l
          <6>1. n \in Nat /\ Len(l) \in Nat /\ DOMAIN l = 1..Len(l)
            <7>1. p.from \in Nat /\ p.to \in Nat /\ p.from <= p.to
              BY DEF Profiles
            <7>. QED  BY <7>1
          <6>. HIDE DEF n
          <6>. QED  BY <2>2, <6>1
        <5>. QED  BY <1>2, <1>3, <3>2, <5>1
      <4>. QED  BY <4>1
    <3>. QED  BY <2>2, <3>1, <3>2
  <2>. QED  BY <2>2, <2>3 DEF Shows, z
<1>5. Recalls(p, l, x) => Recalls(p, l, x + 1)
  BY <1>2, <1>3 DEF Recalls, u, v
<1>. QED  BY <1>4, <1>5 DEF InStep

\* All is left as it was but the clock, and no request is under way.
LEMMA BehaviorTickKeeps ==
  ASSUME BehaviorInv, Behavior!Tick
  PROVE  BehaviorInv'
<1>1. /\ now' = now + 1 /\ UNCHANGED <<profiles, heap, req, cleaner, night, events, single, swept>>
      /\ cleaner = Behavior!Idle /\ \A t \in Threads : req[t] = Behavior!Idle
  BY DEF Behavior!Tick
<1>2. /\ BehaviorTyped /\ ProfilesOwned /\ now \in Nat
      /\ \A c \in Visitors : OfAddress(c)
      /\ heap \in Seq(Profiles) /\ events \in [Visitors -> Seq(Happenings)]
      /\ \A c \in Visitors : profiles[c] # None => profiles[c] \in DOMAIN heap
  BY DEF BehaviorInv, BehaviorTyped
<1>3. BehaviorTyped'
  <2>1. now + 1 \in Nat
    BY <1>2
  <2>2. CleanerTyped'
    BY <1>1 DEF CleanerTyped
  <2>3. \A t \in Threads : AnalysisTyped(req[t])'
    BY <1>1 DEF AnalysisTyped
  <2>. QED  BY <1>1, <1>2, <2>1, <2>2, <2>3 DEF BehaviorTyped
<1>4. /\ \A t \in Threads, c \in Visitors : ~Serves(t, c) /\ ~Serves(t, c)'
      /\ \A c \in Visitors : ~Sweeps(c) /\ ~Sweeps(c)' /\ ~Filters(c) /\ ~Filters(c)'
  BY <1>1 DEF Serves, Behavior!Serving, Sweeps, Filters, Behavior!Idle
<1>5. \A c \in Visitors : \A i : HoldsProfile(c, i)' <=> HoldsProfile(c, i)
  BY <1>1, <1>4 DEF HoldsProfile
<1>6. ProfilesOwned'
  BY <1>1, <1>2, <1>5 DEF ProfilesOwned
<1>7. ASSUME NEW c \in Visitors PROVE OfAddress(c)'
  <2>1. OfAddress(c) /\ events[c] \in Seq(Happenings)
    BY <1>2
  <2>2. Dated(events[c])'
    <3>1. \A i \in DOMAIN events[c] : events[c][i] \in Happenings
      BY <2>1
    <3>2. \A i \in DOMAIN events[c] : events[c][i].at \in Nat
      BY <3>1 DEF Happenings
    <3>3. \A i \in DOMAIN events[c] : events[c][i].at <= now + 1
      BY <1>2, <2>1, <3>2 DEF OfAddress, Dated
    <3>. QED  BY <1>1, <2>1, <3>3 DEF OfAddress, Dated
  <2>3. Genuine(c)'
    BY <1>1, <1>4, <1>5, <2>1 DEF OfAddress, Genuine
  <2>4. Tallied(c)'
    <3>1. SUFFICES ASSUME ~swept[c] PROVE \A E \in Kinds : NoMore(c, E)'
      BY <1>1, <1>4 DEF Tallied, Kinds, Happenings, SessionNames
    <3>2. ASSUME NEW E \in Kinds PROVE NoMore(c, E)'
      <4>1. NoMore(c, E)
        BY <2>1, <3>1 DEF OfAddress, Tallied
      <4>2. Unwritten(c, E)' = Unwritten(c, E)
        BY <1>4 DEF Unwritten
      <4>. QED  BY <1>1, <1>4, <1>5, <4>1, <4>2 DEF NoMore
    <3>. QED  BY <3>2
  <2>5. Warned(c)'
    BY <1>4 DEF Warned
  <2>6. Alone(c)'
    <3>1. SUFFICES ASSUME single[c] PROVE Rests(c)'
      BY <1>1, <1>4 DEF Alone
    <3>2. Rests(c)
      BY <1>4, <2>1, <3>1 DEF OfAddress, Alone
    <3>3. CASE profiles[c] = None
      BY <1>1, <1>2, <3>2, <3>3, LaterGone DEF Rests
    <3>4. CASE profiles[c] # None
      <4>1. PICK p, l : p = heap[profiles[c]] /\ l = events[c]
        OBVIOUS
      <4>2. p \in Profiles /\ l \in Seq(Happenings)
        BY <1>2, <2>1, <3>4, <4>1
      <4>3. InStep(p, l, now) /\ SeenLast(p, l)
        BY <3>2, <3>4, <4>1 DEF Rests
      <4>4. InStep(p, l, now + 1)
        BY <1>2, <4>2, <4>3, LaterInStep
      <4>5. profiles'[c] = profiles[c] /\ heap'[profiles[c]] = p /\ events'[c] = l
        BY <1>1, <4>1
      <4>. QED  BY <1>1, <3>4, <4>3, <4>4, <4>5 DEF Rests
    <3>. QED  BY <3>3, <3>4
  <2>. QED  BY <2>2, <2>3, <2>4, <2>5, <2>6 DEF OfAddress
<1>. QED  BY <1>3, <1>6, <1>7 DEF BehaviorInv

LEMMA BehaviorStarts == ASSUME Behavior!Init PROVE BehaviorInv
<1>1. /\ profiles = [ip \in Visitors |-> None] /\ heap = <<>> /\ req = [t \in Threads |-> Behavior!Idle]
      /\ cleaner = Behavior!Idle /\ now = 0 /\ night \in BOOLEAN
      /\ events = [ip \in Visitors |-> <<>>] /\ single = [ip \in Visitors |-> TRUE]
      /\ swept = [ip \in Visitors |-> FALSE]
  BY DEF Behavior!Init
<1>2. <<>> \in Seq(Happenings) /\ <<>> \in Seq(Profiles) /\ DOMAIN <<>> = {}
  OBVIOUS
<1>3. BehaviorTyped
  BY <1>1, <1>2 DEF BehaviorTyped, AnalysisTyped, CleanerTyped
<1>4. /\ \A t \in Threads, c \in Visitors : ~Serves(t, c)
      /\ \A c \in Visitors : ~Sweeps(c) /\ ~Filters(c)
  BY <1>1 DEF Serves, Behavior!Serving, Sweeps, Filters, Behavior!Idle
<1>5. DOMAIN heap = {} /\ \A c \in Visitors : events[c] = <<>> /\ profiles[c] = None
  BY <1>1, <1>2
<1>6. ProfilesOwned
  BY <1>5 DEF ProfilesOwned
<1>7. ASSUME NEW c \in Visitors PROVE OfAddress(c)
  <2>1. Dated(events[c]) /\ Genuine(c) /\ Warned(c)
    BY <1>2, <1>4, <1>5 DEF Dated, Genuine, Warned
  <2>2. Tallied(c)
    <3>1. ASSUME NEW E PROVE NoMore(c, E)
      <4>1. Unwritten(c, E) = {} /\ {i \in DOMAIN events[c] : events[c][i] \in E} = {}
        BY <1>2, <1>4, <1>5 DEF Unwritten
      <4>2. Count(events[c], E) = 0 /\ Cardinality(Unwritten(c, E)) = 0
        BY <4>1, FS_EmptySet DEF Count
      <4>3. 0 <= Count(events[c], E) - Cardinality(Unwritten(c, E))
        BY <4>2
      <4>. QED  BY <1>4, <1>5, <4>3 DEF NoMore
    <3>. QED  BY <1>4, <3>1 DEF Tallied
  <2>3. Alone(c)
    BY <1>2, <1>4, <1>5 DEF Alone, Rests, Gone
  <2>. QED  BY <2>1, <2>2, <2>3 DEF OfAddress
<1>. QED  BY <1>3, <1>6, <1>7 DEF BehaviorInv

LEMMA BehaviorStays == ASSUME BehaviorInv, UNCHANGED Behavior!vars PROVE BehaviorInv'
<1>1. UNCHANGED <<profiles, heap, req, cleaner, now, night, events, single, swept>>
  BY DEF Behavior!vars
<1>2. BehaviorTyped' /\ ProfilesOwned'
  BY <1>1 DEF BehaviorInv, BehaviorTyped, AnalysisTyped, CleanerTyped, ProfilesOwned, HoldsProfile,
              Serves, Behavior!Serving, Filters
<1>3. ASSUME NEW c \in Visitors PROVE OfAddress(c)'
  <2>1. OfAddress(c)
    BY DEF BehaviorInv
  <2>2. /\ \A t \in Threads : Serves(t, c)' <=> Serves(t, c)
        /\ Filters(c)' <=> Filters(c)
        /\ Sweeps(c)' <=> Sweeps(c)
        /\ \A i : HoldsProfile(c, i)' <=> HoldsProfile(c, i)
    BY <1>1 DEF Serves, Behavior!Serving, Filters, Sweeps, HoldsProfile
  <2>3. Dated(events[c])'
    BY <1>1, <2>1 DEF OfAddress, Dated
  <2>4. Genuine(c)'
    BY <1>1, <2>1, <2>2 DEF OfAddress, Genuine
  <2>5. Tallied(c)'
    <3>1. ASSUME NEW E, NoMore(c, E) PROVE NoMore(c, E)'
      <4>1. Unwritten(c, E)' = Unwritten(c, E)
        BY <1>1, <2>2 DEF Unwritten
      <4>. QED  BY <1>1, <2>2, <3>1, <4>1 DEF NoMore
    <3>2. Kinds' = Kinds
      BY DEF Kinds, Happenings, SessionNames
    <3>. QED  BY <1>1, <2>1, <2>2, <3>1, <3>2 DEF OfAddress, Tallied
  <2>6. Warned(c)'
    <3>1. \A n : Behavior!Earned(c, n)' <=> Behavior!Earned(c, n)
      BY <1>1, EarnedStays
    <3>. QED  BY <1>1, <2>1, <2>2, <3>1 DEF OfAddress, Warned
  <2>7. Alone(c)'
    <3>1. Rests(c)' <=> Rests(c)
      BY <1>1 DEF Rests
    <3>2. \A t \in Threads : Works(req[t])' <=> Works(req[t])
      <4>1. \A r : Works(r)' <=> Works(r)
        BY <1>1, WorksStays
      <4>. QED  BY <1>1, <4>1 DEF Works
    <3>3. Cleans(c)' <=> Cleans(c)
      BY <1>1, <2>2 DEF Cleans
    <3>. QED  BY <1>1, <2>1, <2>2, <3>1, <3>2, <3>3 DEF OfAddress, Alone
  <2>. QED  BY <2>3, <2>4, <2>5, <2>6, <2>7 DEF OfAddress
<1>. QED  BY <1>2, <1>3 DEF BehaviorInv

LEMMA BehaviorKeeps == ASSUME BehaviorInv, [Behavior!Next]_Behavior!vars PROVE BehaviorInv'
<1>1. CASE \E t \in Threads, c \in Visitors, a \in Answers : Behavior!Get(t, c, a)
  BY <1>1, GetKeeps
<1>2. CASE \E t \in Threads : Behavior!AnalyzeRequest(t)
  <2>1. PICK t \in Threads : Behavior!AnalyzeRequest(t)
    BY <1>2
  <2>2. CASE Behavior!ReadEvents(t)
    BY <2>2, ReadEventsKeeps
  <2>3. CASE Behavior!RecordEvent(t)
    BY <2>3, RecordEventKeeps
  <2>4. CASE Behavior!Detect(t)
    BY <2>4, DetectKeeps
  <2>5. CASE Behavior!DetectErrorRate(t)
    BY <2>5, DetectErrorRateKeeps
  <2>6. CASE Behavior!Finish(t)
    BY <2>6, FinishKeeps
  <2>. QED  BY <2>1, <2>2, <2>3, <2>4, <2>5, <2>6 DEF Behavior!AnalyzeRequest
<1>3. CASE \E c \in Visitors : Behavior!Sweep(c)
  BY <1>3, SweepKeeps
<1>4. CASE Behavior!Delete
  BY <1>4, DeleteKeeps
<1>5. CASE Behavior!Filter
  BY <1>5, FilterKeeps
<1>6. CASE Behavior!Tick
  BY <1>6, BehaviorTickKeeps
<1>7. CASE UNCHANGED Behavior!vars
  BY <1>7, BehaviorStays
<1>. QED  BY <1>1, <1>2, <1>3, <1>4, <1>5, <1>6, <1>7 DEF Behavior!Next

\* What the alerts rest on.
LEMMA BehaviorAlwaysHolds == Behavior!Spec => []BehaviorInv
<1>1. Behavior!Init => BehaviorInv
  BY BehaviorStarts
<1>2. BehaviorInv /\ [Behavior!Next]_Behavior!vars => BehaviorInv'
  BY BehaviorKeeps
<1>. QED  BY <1>1, <1>2, PTL DEF Behavior!Spec

LEMMA AlertsFollow == ASSUME BehaviorInv PROVE AlertsAreRight
<1>1. ASSUME NEW t \in Threads, Behavior!At(t, "alert")
      PROVE  /\ Behavior!Earned(req[t].ip, req[t].alert.name)
             /\ single[req[t].ip] => req[t].alert = Behavior!Called(req[t].ip, req[t].event)
  <2>1. req[t].pc = "alert" /\ req[t].pc # "idle"
    BY <1>1 DEF Behavior!At
  <2>2. /\ req[t].ip \in Visitors /\ Serves(t, req[t].ip) /\ OfAddress(req[t].ip)
        /\ single[req[t].ip] => Works(req[t])
    BY <2>1, Analyzes
  <2>3. Behavior!Earned(req[t].ip, req[t].alert.name)
    BY <2>1, <2>2 DEF OfAddress, Warned
  <2>. QED  BY <2>1, <2>2, <2>3 DEF Works
<1>. QED  BY <1>1 DEF AlertsAreRight, Behavior!AlertsAreRight

\* Whatever the requests that append to one slice and the cleanup that filters it under
\* them, an alert of the behavioral detector is about what its address did: no alert is
\* given for paths and sessions it never named or, unless a cleanup met one of its
\* requests, for fewer events than the threshold, and an address whose requests came one
\* by one gets exactly the alert its latest events call for
\* (internal/behavior/detector.go:163-182).
THEOREM AlertsAreAlwaysRight == Behavior!Spec => []AlertsAreRight
<1>1. BehaviorInv => AlertsAreRight
  BY AlertsFollow
<1>. QED  BY <1>1, BehaviorAlwaysHolds, PTL
===============================================================================
