------------------------ MODULE BlockRangeCache_proofs -------------------------
(***************************************************************************)
(* What the operators of BlockRangeCache promise: what the gap walk of      *)
(* calculate_gaps reports, what merging and inserting preserve.  The lemmas *)
(* hold for every set of cached entries whose ranges are proper, lo <= hi,  *)
(* and end below u64::MAX.  Before them, what the proofs of every module    *)
(* need of the least and the greatest member of a set, and of sums.         *)
(***************************************************************************)
EXTENDS BlockRangeCache, FiniteSetTheorems, WellFoundedInduction, TLAPS

\* A range with start <= end that ends before the last block number
Proper(r) == r.lo <= r.hi /\ r.hi < U64Max

Covers(r, b) == r.lo <= b /\ b <= r.hi

-----------------------------------------------------------------------------
(* Extrema *)

\* A non-empty set of naturals has a least element.
LEMMA SetMin ==
    ASSUME NEW S \in SUBSET Nat, S # {}
    PROVE  \E m \in S : \A x \in S : m <= x
<1> DEFINE R == OpToRel(<, Nat)
<1>1. IsWellFoundedOn(R, Nat)
  BY NatLessThanWellFounded
<1>2. \A x, y \in Nat : <<y, x>> \in R <=> y < x
  BY DEF OpToRel
<1> HIDE DEF R
<1>3. PICK m \in S : \A y \in S : ~ (<<y, m>> \in R)
  BY <1>1, WFMin
<1>4. \A y \in S : y \in Nat /\ m \in Nat
  OBVIOUS
<1>5. \A y \in S : ~ (y < m)
  BY <1>2, <1>3, <1>4, Zenon
<1>6. \A y \in S : m <= y
  BY <1>4, <1>5
<1> QED
  BY <1>6

\* Max of a non-empty bounded set of naturals is its greatest element.
LEMMA SetMax ==
    ASSUME NEW B \in Nat, NEW S \in SUBSET (0 .. B), S # {}
    PROVE  Max(S) \in S /\ \A x \in S : x <= Max(S)
<1> DEFINE T == {n \in Nat : \E x \in S : n = B - x}
<1>1. \A x \in S : x \in Int /\ 0 <= x /\ x <= B /\ B - x \in Nat
  OBVIOUS
<1>2. T \in SUBSET Nat /\ T # {}
  BY <1>1
<1>3. PICK m \in T : \A x \in T : m <= x
  BY <1>2, SetMin
<1>4. PICK s \in S : m = B - s
  BY <1>3
<1>5. \A x \in S : s >= x
  BY <1>1, <1>3, <1>4
<1> QED
  BY <1>1, <1>5 DEF Max

-----------------------------------------------------------------------------
(* Sums over finite sets *)

\* The function MapThenSumSet chooses to add up the values v of the members of S
IsSumOf(g, v, S) ==
    g = [s \in SUBSET S |-> IF s = {} THEN 0
                            ELSE v[CHOOSE x \in s : TRUE] + g[s \ {CHOOSE x \in s : TRUE}]]

SumIn(v, S) == CHOOSE g : IsSumOf(g, v, S)

\* MapThenSumSet(v, S), with v as a function
SumOf(v, S) == SumIn(v, S)[S]

\* There is such a function ...
LEMMA SumExists ==
    ASSUME NEW S, IsFiniteSet(S), NEW v, \A x \in S : v[x] \in Nat
    PROVE  \E g \in [SUBSET S -> Nat] : IsSumOf(g, v, S)
<1> DEFINE pick(s) == CHOOSE x \in s : TRUE
           rhs(g, s) == IF s = {} THEN 0 ELSE v[pick(s)] + g[s \ {pick(s)}]
           Upto(n) == \E g \in [SUBSET S -> Nat] :
                        \A s \in SUBSET S : Cardinality(s) <= n => g[s] = rhs(g, s)
           Bad == {n \in Nat : ~Upto(n)}
<1>1. ASSUME NEW s \in SUBSET S
      PROVE  /\ IsFiniteSet(s) /\ Cardinality(s) \in Nat /\ Cardinality(s) <= Cardinality(S)
             /\ Cardinality(s) = 0 => s = {}
  BY FS_Subset, FS_CardinalityType, FS_EmptySet
<1>8. ASSUME NEW s \in SUBSET S, s # {}
      PROVE  /\ pick(s) \in s /\ v[pick(s)] \in Nat /\ s \ {pick(s)} \in SUBSET S
             /\ Cardinality(s \ {pick(s)}) = Cardinality(s) - 1
  <2>1. pick(s) \in s
    BY <1>8
  <2> HIDE DEF pick
  <2> QED
    BY <1>1, <2>1, FS_RemoveElement
<1> HIDE DEF pick
<1>2. Upto(0)
  <2>1. [s \in SUBSET S |-> 0] \in [SUBSET S -> Nat]
    OBVIOUS
  <2>2. ASSUME NEW s \in SUBSET S, Cardinality(s) <= 0 PROVE s = {}
    <3>1. Cardinality(s) \in Nat
      BY <1>1
    <3> QED
      BY <1>1, <2>2, <3>1
  <2> QED
    BY <2>1, <2>2
<1>3. ASSUME NEW n \in Nat, Upto(n) PROVE Upto(n + 1)
  <2>1. PICK g \in [SUBSET S -> Nat] :
          \A s \in SUBSET S : Cardinality(s) <= n => g[s] = rhs(g, s)
    BY <1>3
  <2> DEFINE h == [s \in SUBSET S |-> IF Cardinality(s) <= n THEN g[s] ELSE rhs(g, s)]
  <2>2. \A s \in SUBSET S : rhs(g, s) \in Nat
    BY <1>8
  <2>3. h \in [SUBSET S -> Nat]
    BY <2>2
  <2>4. ASSUME NEW s \in SUBSET S, Cardinality(s) <= n + 1 PROVE h[s] = rhs(h, s)
    <3>1. h[s] = rhs(g, s)
      BY <2>1
    <3>2. CASE s = {}
      BY <3>1, <3>2
    <3>3. CASE s # {}
      <4>1. s \ {pick(s)} \in SUBSET S /\ Cardinality(s \ {pick(s)}) <= n
        <5>1. Cardinality(s) \in Nat
          BY <1>1
        <5> QED
          BY <1>8, <2>4, <3>3, <5>1
      <4>2. h[s \ {pick(s)}] = g[s \ {pick(s)}]
        BY <4>1
      <4> HIDE DEF h
      <4> QED
        BY <3>1, <3>3, <4>2
    <3> QED
      BY <3>2, <3>3
  <2> HIDE DEF h
  <2> QED
    BY <2>3, <2>4
<1> HIDE DEF Upto
<1>4. \A n \in Nat : Upto(n)
  <2> SUFFICES ASSUME Bad # {} PROVE FALSE
    OBVIOUS
  <2>1. PICK m \in Bad : \A k \in Bad : m <= k
    BY SetMin
  <2>2. m # 0
    BY <1>2, <2>1
  <2>3. m - 1 \in Nat /\ m - 1 \notin Bad
    BY <2>1, <2>2
  <2>4. m - 1 + 1 = m
    BY <2>1
  <2> QED
    BY <1>3, <2>1, <2>3, <2>4
<1>5. PICK g \in [SUBSET S -> Nat] :
        \A s \in SUBSET S : Cardinality(s) <= Cardinality(S) => g[s] = rhs(g, s)
  BY <1>1, <1>4 DEF Upto
<1>6. \A s \in SUBSET S : g[s] = rhs(g, s)
  BY <1>1, <1>5
<1>7. g = [s \in SUBSET S |-> rhs(g, s)]
  BY <1>6
<1> QED
  BY <1>7 DEF IsSumOf, pick

\* ... and two of them, for a set and a part of it, agree on the part.
LEMMA SumsAgree ==
    ASSUME NEW S, NEW T, S \subseteq T, IsFiniteSet(T), NEW v, NEW g, NEW h,
           IsSumOf(g, v, S), IsSumOf(h, v, T)
    PROVE  \A s \in SUBSET S : g[s] = h[s]
<1> DEFINE pick(s) == CHOOSE x \in s : TRUE
           Bad == {n \in Nat : \E s \in SUBSET S : Cardinality(s) = n /\ g[s] # h[s]}
<1>1. ASSUME NEW s \in SUBSET S, s # {}
      PROVE  /\ s \ {pick(s)} \in SUBSET S
             /\ Cardinality(s \ {pick(s)}) \in Nat /\ Cardinality(s \ {pick(s)}) < Cardinality(s)
             /\ g[s] = v[pick(s)] + g[s \ {pick(s)}]
             /\ h[s] = v[pick(s)] + h[s \ {pick(s)}]
  <2>1. pick(s) \in s /\ IsFiniteSet(s) /\ s \in SUBSET T
    BY <1>1, FS_Subset
  <2>2. Cardinality(s \ {pick(s)}) = Cardinality(s) - 1 /\ Cardinality(s) \in Nat
    BY <2>1, FS_RemoveElement, FS_CardinalityType
  <2>3. IsFiniteSet(s \ {pick(s)})
    BY <2>1, FS_Subset
  <2>4. Cardinality(s \ {pick(s)}) \in Nat
    BY <2>3, FS_CardinalityType
  <2>5. /\ g[s] = v[pick(s)] + g[s \ {pick(s)}]
        /\ h[s] = v[pick(s)] + h[s \ {pick(s)}]
    BY <1>1, <2>1 DEF IsSumOf
  <2> HIDE DEF pick
  <2> QED
    BY <2>1, <2>2, <2>4, <2>5
<1>2. g[{}] = h[{}]
  BY DEF IsSumOf
<1> HIDE DEF pick
<1> SUFFICES ASSUME NEW s \in SUBSET S, g[s] # h[s] PROVE FALSE
  OBVIOUS
<1>3. IsFiniteSet(s) /\ Cardinality(s) \in Nat
  BY FS_Subset, FS_CardinalityType
<1>4. PICK m \in Bad : \A k \in Bad : m <= k
  <2>1. Bad # {} /\ Bad \in SUBSET Nat
    BY <1>3
  <2> QED
    BY <2>1, SetMin
<1>5. PICK t \in SUBSET S : Cardinality(t) = m /\ g[t] # h[t]
  BY <1>4
<1>6. t # {}
  BY <1>2, <1>5
<1>7. Cardinality(t \ {pick(t)}) \notin Bad
  BY <1>1, <1>4, <1>5, <1>6
<1> QED
  BY <1>1, <1>5, <1>6, <1>7

\* So the one that is chosen is a sum.
LEMMA SumInIs ==
    ASSUME NEW S, IsFiniteSet(S), NEW v, \A x \in S : v[x] \in Nat
    PROVE  /\ SumIn(v, S) \in [SUBSET S -> Nat]
           /\ IsSumOf(SumIn(v, S), v, S)
<1>1. PICK g \in [SUBSET S -> Nat] : IsSumOf(g, v, S)
  BY SumExists
<1> DEFINE f == SumIn(v, S)
<1>2. IsSumOf(f, v, S)
  BY <1>1 DEF SumIn
<1> HIDE DEF f
<1>3. f = [s \in SUBSET S |-> f[s]]
  BY <1>2 DEF IsSumOf
<1>4. \A s \in SUBSET S : f[s] = g[s]
  BY <1>1, <1>2, SumsAgree
<1>5. f \in [SUBSET S -> Nat]
  BY <1>3, <1>4
<1> QED
  BY <1>2, <1>5 DEF f

\* The sum over a part of a set is found on the way to the sum over the set.
LEMMA SumOfPart ==
    ASSUME NEW S, IsFiniteSet(S), NEW v, \A x \in S : v[x] \in Nat, NEW s \in SUBSET S
    PROVE  SumIn(v, S)[s] = SumOf(v, s) /\ SumOf(v, s) \in Nat
<1>1. IsFiniteSet(s) /\ \A x \in s : v[x] \in Nat
  BY FS_Subset
<1>2. IsSumOf(SumIn(v, S), v, S) /\ IsSumOf(SumIn(v, s), v, s) /\ SumIn(v, S) \in [SUBSET S -> Nat]
  BY <1>1, SumInIs
<1>3. \A t \in SUBSET s : SumIn(v, s)[t] = SumIn(v, S)[t]
  <2> DEFINE g == SumIn(v, s)
             h == SumIn(v, S)
  <2>1. IsSumOf(g, v, s) /\ IsSumOf(h, v, S)
    BY <1>2
  <2> HIDE DEF g, h
  <2>2. \A t \in SUBSET s : g[t] = h[t]
    <3>1. s \subseteq S /\ IsFiniteSet(S)
      OBVIOUS
    <3> QED
      BY <2>1, <3>1, SumsAgree
  <2> QED
    BY <2>2 DEF g, h
<1> QED
  BY <1>2, <1>3 DEF SumOf

\* Nothing adds up to 0.
LEMMA SumOfNothing ==
    ASSUME NEW v
    PROVE  SumOf(v, {}) = 0
<1> DEFINE f == SumIn(v, {})
<1>1. IsSumOf(f, v, {})
  BY FS_EmptySet, SumInIs
<1> HIDE DEF f
<1>2. f[{}] = 0
  BY <1>1 DEF IsSumOf
<1> QED
  BY <1>2 DEF SumOf, f

\* The sum over a set is that over the set without one of its members, and its value.
LEMMA SumAdds ==
    ASSUME NEW S, IsFiniteSet(S), NEW v, \A x \in S : v[x] \in Nat
    PROVE  \A s \in SUBSET S : \A x \in s : SumOf(v, s) = v[x] + SumOf(v, s \ {x})
<1> DEFINE pick(s) == CHOOSE x \in s : TRUE
           Wrong(s) == \E x \in s : SumOf(v, s) # v[x] + SumOf(v, s \ {x})
           Bad == {n \in Nat : \E s \in SUBSET S : Cardinality(s) = n /\ Wrong(s)}
<1>1. ASSUME NEW s \in SUBSET S
      PROVE  /\ SumOf(v, s) \in Nat /\ IsFiniteSet(s) /\ Cardinality(s) \in Nat
             /\ s # {} => pick(s) \in s /\ SumOf(v, s) = v[pick(s)] + SumOf(v, s \ {pick(s)})
             /\ \A x \in s : v[x] \in Nat /\ Cardinality(s \ {x}) = Cardinality(s) - 1
  <2>1. SumOf(v, s) \in Nat /\ SumIn(v, S)[s] = SumOf(v, s)
    BY SumOfPart
  <2>2. IsFiniteSet(s) /\ Cardinality(s) \in Nat
    BY FS_Subset, FS_CardinalityType
  <2>3. \A x \in s : v[x] \in Nat /\ Cardinality(s \ {x}) = Cardinality(s) - 1
    BY <2>2, FS_RemoveElement
  <2>4. ASSUME s # {} PROVE pick(s) \in s /\ SumOf(v, s) = v[pick(s)] + SumOf(v, s \ {pick(s)})
    <3>1. pick(s) \in s
      BY <2>4
    <3>2. SumIn(v, S)[s] = v[pick(s)] + SumIn(v, S)[s \ {pick(s)}]
      <4> DEFINE f == SumIn(v, S)
      <4>1. f = [t \in SUBSET S |-> IF t = {} THEN 0 ELSE v[pick(t)] + f[t \ {pick(t)}]]
        <5>1. IsSumOf(f, v, S)
          BY SumInIs
        <5> HIDE DEF f
        <5> QED
          BY <5>1 DEF IsSumOf
      <4> HIDE DEF f, pick
      <4>2. f[s] = v[pick(s)] + f[s \ {pick(s)}]
        BY <2>4, <4>1
      <4> QED
        BY <4>2 DEF f
    <3>3. SumIn(v, S)[s \ {pick(s)}] = SumOf(v, s \ {pick(s)})
      <4>1. s \ {pick(s)} \in SUBSET S
        OBVIOUS
      <4> HIDE DEF pick
      <4> QED
        BY <4>1, SumOfPart
    <3> HIDE DEF pick
    <3> QED
      BY <2>1, <3>1, <3>2, <3>3
  <2> HIDE DEF pick
  <2> QED
    BY <2>1, <2>2, <2>3, <2>4
<1> HIDE DEF pick, Wrong
<1>2. \A s \in SUBSET S : ~Wrong(s)
  <2> SUFFICES ASSUME NEW u \in SUBSET S, Wrong(u) PROVE FALSE
    OBVIOUS
  <2>1. Bad \in SUBSET Nat /\ Bad # {}
    BY <1>1
  <2>2. PICK m \in Bad : \A k \in Bad : m <= k
    BY <2>1, SetMin
  <2>3. PICK s \in SUBSET S : Cardinality(s) = m /\ Wrong(s)
    BY <2>2
  <2>4. PICK x \in s : SumOf(v, s) # v[x] + SumOf(v, s \ {x})
    BY <2>3 DEF Wrong
  <2> DEFINE y == pick(s)
             rest == s \ {x, y}
  <2>5. y \in s /\ SumOf(v, s) = v[y] + SumOf(v, s \ {y}) /\ x # y
    BY <1>1, <2>4
  <2>6. ASSUME NEW t \in SUBSET S, Cardinality(t) = m - 1, NEW z \in t
        PROVE  SumOf(v, t) = v[z] + SumOf(v, t \ {z})
    <3>1. Cardinality(t) \in Nat /\ Cardinality(t) < m
      <4>1. Cardinality(t) \in Nat
        BY <1>1
      <4> QED
        BY <2>1, <2>2, <2>6, <4>1
    <3>2. Cardinality(t) \notin Bad
      BY <2>1, <2>2, <3>1
    <3>3. ~Wrong(t)
      BY <3>1, <3>2
    <3> QED
      BY <3>3 DEF Wrong
  <2> HIDE DEF y
  <2>7. Cardinality(s \ {x}) = m - 1 /\ Cardinality(s \ {y}) = m - 1
    BY <1>1, <2>3, <2>4, <2>5
  <2>8. SumOf(v, s \ {x}) = v[y] + SumOf(v, rest)
    <3>1. (s \ {x}) \ {y} = rest /\ y \in s \ {x} /\ s \ {x} \in SUBSET S
      BY <2>5
    <3> QED
      BY <2>6, <2>7, <3>1
  <2>9. SumOf(v, s \ {y}) = v[x] + SumOf(v, rest)
    <3>1. (s \ {y}) \ {x} = rest /\ x \in s \ {y} /\ s \ {y} \in SUBSET S
      BY <2>5
    <3> QED
      BY <2>6, <2>7, <3>1
  <2>10. rest \in SUBSET S /\ v[x] \in Nat /\ v[y] \in Nat
    BY <2>5
  <2>11. SumOf(v, rest) \in Nat
    BY <1>1, <2>10
  <2> HIDE DEF rest
  <2> QED
    BY <2>4, <2>5, <2>8, <2>9, <2>10, <2>11
<1> QED
  BY <1>2 DEF Wrong

\* The sum over the first numbers, one by one.
LEMMA SumOfInterval ==
    ASSUME NEW k \in Nat, NEW v, \A i \in 1 .. k : v[i] \in Nat
    PROVE  \A n \in 1 .. k : SumOf(v, 1 .. n) = v[n] + SumOf(v, 1 .. n - 1)
<1>1. IsFiniteSet(1 .. k)
  BY FS_Interval
<1>2. ASSUME NEW n \in 1 .. k
      PROVE  SumOf(v, 1 .. n) = v[n] + SumOf(v, 1 .. n - 1)
  <2>1. n \in 1 .. n /\ 1 .. n \in SUBSET (1 .. k)
    OBVIOUS
  <2>2. SumOf(v, 1 .. n) = v[n] + SumOf(v, (1 .. n) \ {n})
    BY <1>1, <2>1, SumAdds
  <2>3. (1 .. n) \ {n} = 1 .. n - 1
    OBVIOUS
  <2> QED
    BY <2>2, <2>3
<1> QED
  BY <1>2

\* A part of a set has no greater sum.
LEMMA SumGrows ==
    ASSUME NEW S, IsFiniteSet(S), NEW v, \A x \in S : v[x] \in Nat, NEW s \in SUBSET S
    PROVE  SumOf(v, s) <= SumOf(v, S)
<1> DEFINE Wrong(t) == s \subseteq t /\ ~(SumOf(v, s) <= SumOf(v, t))
           Bad == {n \in Nat : \E t \in SUBSET S : Cardinality(t) = n /\ Wrong(t)}
<1>1. \A t \in SUBSET S : SumOf(v, t) \in Nat /\ IsFiniteSet(t) /\ Cardinality(t) \in Nat
  BY SumOfPart, FS_Subset, FS_CardinalityType
<1> HIDE DEF Wrong
<1> SUFFICES ASSUME Wrong(S) PROVE FALSE
  BY DEF Wrong
<1>2. Bad \in SUBSET Nat /\ Bad # {}
  BY <1>1
<1>3. PICK m \in Bad : \A k \in Bad : m <= k
  BY <1>2, SetMin
<1>4. PICK t \in SUBSET S : Cardinality(t) = m /\ Wrong(t)
  BY <1>3
<1>5. PICK x \in t : x \notin s
  <2>1. s # t
    BY <1>1, <1>4 DEF Wrong
  <2> QED
    BY <1>4, <2>1 DEF Wrong
<1>6. /\ t \ {x} \in SUBSET S /\ Cardinality(t \ {x}) = m - 1 /\ s \subseteq t \ {x}
      /\ SumOf(v, t) = v[x] + SumOf(v, t \ {x}) /\ v[x] \in Nat
  <2>1. SumOf(v, t) = v[x] + SumOf(v, t \ {x})
    BY <1>4, <1>5, SumAdds
  <2>2. Cardinality(t \ {x}) = m - 1
    BY <1>1, <1>4, <1>5, FS_RemoveElement
  <2> QED
    BY <1>4, <1>5, <2>1, <2>2 DEF Wrong
<1>7. ~Wrong(t \ {x})
  <2>1. Cardinality(t \ {x}) \in Nat /\ Cardinality(t \ {x}) < m
    BY <1>1, <1>2, <1>6
  <2>2. Cardinality(t \ {x}) \notin Bad
    BY <1>2, <1>3, <2>1
  <2> QED
    BY <1>6, <2>1, <2>2
<1>8. SumOf(v, s) <= SumOf(v, t \ {x})
  BY <1>6, <1>7 DEF Wrong
<1>9. SumOf(v, s) \in Nat /\ SumOf(v, t) \in Nat /\ SumOf(v, t \ {x}) \in Nat
  BY <1>1, <1>6
<1> QED
  BY <1>4, <1>6, <1>8, <1>9 DEF Wrong

\* The sum over two sets apart is that of their sums.
LEMMA SumOfUnion ==
    ASSUME NEW S, IsFiniteSet(S), NEW v, \A x \in S : v[x] \in Nat,
           NEW A \in SUBSET S, NEW B \in SUBSET S, A \cap B = {}
    PROVE  SumOf(v, A \cup B) = SumOf(v, A) + SumOf(v, B)
<1> DEFINE Wrong(t) == SumOf(v, A \cup t) # SumOf(v, A) + SumOf(v, t)
           Bad == {n \in Nat : \E t \in SUBSET B : Cardinality(t) = n /\ Wrong(t)}
<1>1. \A t \in SUBSET S : SumOf(v, t) \in Nat /\ IsFiniteSet(t) /\ Cardinality(t) \in Nat
  BY SumOfPart, FS_Subset, FS_CardinalityType
<1>2. ~Wrong({})
  <2>1. SumOf(v, {}) = 0
    BY SumOfNothing
  <2>2. A \cup {} = A /\ SumOf(v, A) \in Nat
    BY <1>1
  <2> QED
    BY <2>1, <2>2
<1> HIDE DEF Wrong
<1> SUFFICES ASSUME Wrong(B) PROVE FALSE
  BY DEF Wrong
<1>3. Bad \in SUBSET Nat /\ Bad # {}
  BY <1>1
<1>4. PICK m \in Bad : \A k \in Bad : m <= k
  BY <1>3, SetMin
<1>5. PICK t \in SUBSET B : Cardinality(t) = m /\ Wrong(t)
  BY <1>4
<1>6. PICK x \in t : TRUE
  BY <1>2, <1>5
<1> DEFINE rest == t \ {x}
<1>7. ~Wrong(rest)
  <2>1. /\ Cardinality(rest) = Cardinality(t) - 1
        /\ Cardinality(rest) \in Nat /\ Cardinality(t) \in Nat
    BY <1>1, <1>6, FS_RemoveElement
  <2>2. Cardinality(rest) \notin Bad
    BY <1>4, <1>5, <2>1
  <2> QED
    BY <2>1, <2>2
<1>8. SumOf(v, t) = v[x] + SumOf(v, rest)
  BY <1>6, SumAdds
<1>9. SumOf(v, A \cup t) = v[x] + SumOf(v, A \cup rest)
  <2>1. (A \cup t) \ {x} = A \cup rest /\ x \in A \cup t /\ A \cup t \in SUBSET S
    BY <1>6
  <2> QED
    BY <2>1, SumAdds
<1>10. SumOf(v, A) \in Nat /\ SumOf(v, rest) \in Nat /\ v[x] \in Nat
  BY <1>1, <1>6
<1> HIDE DEF rest
<1> QED
  BY <1>5, <1>7, <1>8, <1>9, <1>10 DEF Wrong

\* The sum of values that are sums of two.
LEMMA SumOfTwo ==
    ASSUME NEW S, IsFiniteSet(S), NEW both, NEW v, NEW w,
           \A x \in S : v[x] \in Nat /\ w[x] \in Nat /\ both[x] = v[x] + w[x]
    PROVE  SumOf(both, S) = SumOf(v, S) + SumOf(w, S)
<1> DEFINE Wrong(s) == SumOf(both, s) # SumOf(v, s) + SumOf(w, s)
           Bad == {n \in Nat : \E s \in SUBSET S : Cardinality(s) = n /\ Wrong(s)}
<1>1. \A x \in S : both[x] \in Nat /\ v[x] \in Nat /\ w[x] \in Nat
  OBVIOUS
<1>2. \A s \in SUBSET S : /\ IsFiniteSet(s) /\ Cardinality(s) \in Nat
                           /\ SumOf(v, s) \in Nat /\ SumOf(w, s) \in Nat
  BY <1>1, SumOfPart, FS_Subset, FS_CardinalityType
<1>3. ~Wrong({})
  BY SumOfNothing
<1> HIDE DEF Wrong
<1> SUFFICES ASSUME Wrong(S) PROVE FALSE
  BY DEF Wrong
<1>4. Bad \in SUBSET Nat /\ Bad # {}
  BY <1>2
<1>5. PICK m \in Bad : \A k \in Bad : m <= k
  BY <1>4, SetMin
<1>6. PICK s \in SUBSET S : Cardinality(s) = m /\ Wrong(s)
  BY <1>5
<1>7. PICK x \in s : TRUE
  BY <1>3, <1>6
<1> DEFINE rest == s \ {x}
<1>8. ~Wrong(rest)
  <2>1. /\ Cardinality(rest) = Cardinality(s) - 1
        /\ Cardinality(rest) \in Nat /\ Cardinality(s) \in Nat
    BY <1>2, <1>7, FS_RemoveElement
  <2>2. Cardinality(rest) \notin Bad
    BY <1>4, <1>5, <1>6, <2>1
  <2> QED
    BY <2>1, <2>2
<1>9. /\ SumOf(both, s) = both[x] + SumOf(both, rest) /\ SumOf(v, s) = v[x] + SumOf(v, rest)
      /\ SumOf(w, s) = w[x] + SumOf(w, rest)
  BY <1>1, <1>7, SumAdds
<1>10. /\ SumOf(v, rest) \in Nat /\ SumOf(w, rest) \in Nat
       /\ v[x] \in Nat /\ w[x] \in Nat /\ both[x] = v[x] + w[x]
  BY <1>2, <1>7
<1> HIDE DEF rest
<1> QED
  BY <1>6, <1>8, <1>9, <1>10 DEF Wrong

-----------------------------------------------------------------------------
(* The gap walk *)

\* Whatever the entries are, `current` is a block number ...
LEMMA CurrentType ==
    ASSUME NEW W \in SUBSET Entry, NEW lo \in Blocks, NEW pos, NEW i
    PROVE  Current(W, lo, pos, i) \in Blocks
<1> DEFINE S == {lo} \cup {BlockAfter(e.hi) : e \in {f \in W : pos[f] < i}}
<1>1. \A e \in W : BlockAfter(e.hi) \in Blocks
  BY U64MaxAssumption DEF Entry, Blocks, BlockAfter
<1>2. S \in SUBSET (0 .. U64Max) /\ S # {}
  BY <1>1 DEF Blocks
<1>3. Max(S) \in S
  BY <1>2, SetMax, U64MaxAssumption
<1> QED
  BY <1>2, <1>3 DEF Current, Blocks

\* ... and every gap is a position and two block numbers.
LEMMA GapsType ==
    ASSUME NEW W \in SUBSET Entry, IsFiniteSet(W), NEW lo \in Blocks, NEW hi \in Blocks,
           NEW pos \in SortedPositions(W)
    PROVE  Gaps(W, lo, hi, pos) \subseteq [at : Nat, lo : Blocks, hi : Blocks]
<1>1. Cardinality(W) \in Nat
  BY FS_CardinalityType
<1>2. \A e \in W : pos[e] \in Nat
  BY <1>1 DEF SortedPositions
<1>3. \A i : Current(W, lo, pos, i) \in Blocks
  BY CurrentType
<1>4. \A e \in W : e.lo \in Blocks
  BY DEF Entry
<1>5. \A e \in W : Current(W, lo, pos, pos[e]) < e.lo => e.lo - 1 \in Blocks
  BY <1>3, <1>4, U64MaxAssumption DEF Blocks
<1> QED
  BY <1>1, <1>2, <1>3, <1>5 DEF Gaps

\* `current` at a position of the walk is the first block after everything
\* the walk has passed: it is past every earlier entry.
LEMMA CurrentIsPast ==
    ASSUME NEW W \in SUBSET Entry, \A e \in W : e.hi < U64Max,
           NEW lo \in Blocks, NEW pos \in [W -> Int], NEW i \in Int
    PROVE  /\ Current(W, lo, pos, i) \in Blocks
           /\ lo <= Current(W, lo, pos, i)
           /\ \A f \in W : pos[f] < i => f.hi < Current(W, lo, pos, i)
           /\ \/ Current(W, lo, pos, i) = lo
              \/ \E f \in W : pos[f] < i /\ Current(W, lo, pos, i) = f.hi + 1
<1> DEFINE Passed == {f \in W : pos[f] < i}
           S == {lo} \cup {BlockAfter(e.hi) : e \in Passed}
<1>1. \A e \in W : e.hi \in Blocks /\ BlockAfter(e.hi) = e.hi + 1 /\ e.hi + 1 \in Blocks
  BY U64MaxAssumption DEF Entry, Blocks, BlockAfter
<1>2. S \in SUBSET (0 .. U64Max) /\ S # {}
  BY <1>1 DEF Blocks
<1>3. Max(S) \in S /\ \A x \in S : x <= Max(S)
  BY <1>2, SetMax, U64MaxAssumption
<1>4. Current(W, lo, pos, i) = Max(S)
  BY DEF Current
<1>5. \A f \in W : pos[f] < i => f.hi + 1 \in S
  BY <1>1
<1>6. \A f \in W : pos[f] < i => f.hi < Max(S)
  <2>1. Max(S) \in Int /\ \A f \in W : f.hi \in Int
    BY <1>1, <1>2, <1>3 DEF Blocks
  <2>2. \A f \in W : pos[f] < i => f.hi + 1 <= Max(S)
    BY <1>3, <1>5
  <2> HIDE DEF S
  <2> QED
    BY <2>1, <2>2
<1>7. Max(S) = lo \/ \E f \in W : pos[f] < i /\ Max(S) = f.hi + 1
  BY <1>1, <1>3
<1>8. lo <= Max(S) /\ Max(S) \in Blocks
  BY <1>2, <1>3 DEF Blocks
<1> QED
  BY <1>4, <1>6, <1>7, <1>8

\* Where a gap of the walk comes from: from the entry it stops before, or from
\* the end of the window.
LEMMA GapOrigin ==
    ASSUME NEW W, NEW lo, NEW hi, NEW pos, NEW g \in Gaps(W, lo, hi, pos)
    PROVE  \/ \E e \in W : /\ Current(W, lo, pos, pos[e]) < e.lo
                           /\ g = [at |-> pos[e], lo |-> Current(W, lo, pos, pos[e]),
                                   hi |-> e.lo - 1]
           \/ /\ Current(W, lo, pos, Cardinality(W) + 1) <= hi
              /\ g = [at |-> Cardinality(W) + 1,
                      lo |-> Current(W, lo, pos, Cardinality(W) + 1), hi |-> hi]
  BY DEF Gaps

\* Every gap is a proper range inside the window, and no block of it is
\* covered by an entry whose value the caller already merged.
LEMMA GapsAreUncovered ==
    ASSUME NEW W \in SUBSET Entry, IsFiniteSet(W), NEW lo \in Blocks, NEW hi \in Blocks,
           \A e \in W : Proper(e) /\ lo <= e.lo /\ e.hi <= hi,
           NEW pos \in SortedPositions(W), NEW g \in Gaps(W, lo, hi, pos)
    PROVE  /\ g.at \in Nat /\ g.lo \in Blocks /\ g.hi \in Blocks
           /\ lo <= g.lo /\ g.lo <= g.hi /\ g.hi <= hi
           /\ \A e \in W, b \in g.lo .. g.hi : ~ Covers(e, b)
<1>1. Cardinality(W) \in Nat
  BY FS_CardinalityType
<1>2. pos \in [W -> Int] /\ \A e \in W : pos[e] \in Nat /\ pos[e] < Cardinality(W) + 1
  BY <1>1 DEF SortedPositions
<1>3. \A e, f \in W : e.lo < f.lo => pos[e] < pos[f]
  BY DEF SortedPositions
<1>4. \A e \in W : e.lo \in Blocks /\ e.hi \in Blocks /\ e.lo <= e.hi /\ e.hi < U64Max
  BY DEF Entry, Proper
<1>5. \A i \in Int : /\ Current(W, lo, pos, i) \in Blocks
                     /\ lo <= Current(W, lo, pos, i)
                     /\ \A f \in W : pos[f] < i => f.hi < Current(W, lo, pos, i)
  BY <1>2, <1>4, CurrentIsPast
<1>6. CASE \E e \in W : /\ Current(W, lo, pos, pos[e]) < e.lo
                        /\ g = [at |-> pos[e], lo |-> Current(W, lo, pos, pos[e]),
                                hi |-> e.lo - 1]
  <2>1. PICK e \in W : /\ Current(W, lo, pos, pos[e]) < e.lo
                       /\ g = [at |-> pos[e], lo |-> Current(W, lo, pos, pos[e]),
                               hi |-> e.lo - 1]
    BY <1>6
  <2>2. /\ g.at = pos[e] /\ g.lo = Current(W, lo, pos, pos[e]) /\ g.hi = e.lo - 1
        /\ pos[e] \in Nat /\ g.lo \in Blocks /\ lo <= g.lo /\ g.lo < e.lo
    BY <2>1, <1>2, <1>5
  <2>3. /\ g.hi \in Blocks /\ g.lo <= g.hi /\ g.hi <= hi
    <3>1. /\ e.lo \in Int /\ e.hi \in Int /\ g.lo \in Int /\ hi \in Int
          /\ 0 <= g.lo /\ e.lo <= U64Max /\ e.lo <= hi
      BY <2>2, <1>4 DEF Blocks
    <3> QED
      BY <2>2, <3>1, U64MaxAssumption DEF Blocks
  <2>4. ASSUME NEW f \in W, NEW b \in g.lo .. g.hi
        PROVE  ~ Covers(f, b)
    <3>1. CASE pos[f] < pos[e]
      BY <3>1, <2>2, <1>2, <1>4, <1>5 DEF Covers, Blocks
    <3>2. CASE ~ (pos[f] < pos[e])
      BY <3>2, <2>2, <1>2, <1>3, <1>4 DEF Covers, Blocks
    <3> QED
      BY <3>1, <3>2
  <2> QED
    BY <2>2, <2>3, <2>4
<1>7. CASE /\ Current(W, lo, pos, Cardinality(W) + 1) <= hi
           /\ g = [at |-> Cardinality(W) + 1,
                   lo |-> Current(W, lo, pos, Cardinality(W) + 1), hi |-> hi]
  <2>1. /\ g.at = Cardinality(W) + 1 /\ g.at \in Nat /\ g.hi = hi
        /\ g.lo = Current(W, lo, pos, Cardinality(W) + 1)
        /\ g.lo \in Blocks /\ lo <= g.lo /\ g.lo <= g.hi
    BY <1>1, <1>5, <1>7
  <2>2. \A f \in W : f.hi < g.lo
    BY <2>1, <1>1, <1>2, <1>5
  <2> QED
    BY <2>1, <2>2, <1>4 DEF Covers, Blocks
<1> QED
  BY <1>6, <1>7, GapOrigin

\* Two gaps are pushed at different positions and share no block.
LEMMA GapsAreApart ==
    ASSUME NEW W \in SUBSET Entry, IsFiniteSet(W), NEW lo \in Blocks, NEW hi \in Blocks,
           \A e \in W : Proper(e) /\ lo <= e.lo /\ e.hi <= hi,
           NEW pos \in SortedPositions(W),
           NEW g \in Gaps(W, lo, hi, pos), NEW h \in Gaps(W, lo, hi, pos), g # h
    PROVE  g.at # h.at /\ (g.hi < h.lo \/ h.hi < g.lo)
<1>1. Cardinality(W) \in Nat
  BY FS_CardinalityType
<1>2. pos \in [W -> Int] /\ \A e \in W : pos[e] \in Nat /\ pos[e] < Cardinality(W) + 1
  BY <1>1 DEF SortedPositions
<1>3. \A e, f \in W : e # f => pos[e] # pos[f]
  BY DEF SortedPositions
<1>4. \A e \in W : e.lo \in Blocks /\ e.hi \in Blocks /\ e.lo <= e.hi /\ e.hi < U64Max
  BY DEF Entry, Proper
<1>5. \A i \in Int : /\ Current(W, lo, pos, i) \in Blocks
                     /\ \A f \in W : pos[f] < i => f.hi < Current(W, lo, pos, i)
  BY <1>2, <1>4, CurrentIsPast
<1> DEFINE Before(x, e) == x = [at |-> pos[e], lo |-> Current(W, lo, pos, pos[e]),
                                hi |-> e.lo - 1]
           Last(x) == x = [at |-> Cardinality(W) + 1,
                           lo |-> Current(W, lo, pos, Cardinality(W) + 1), hi |-> hi]
<1>6. /\ Last(g) \/ \E e \in W : Before(g, e)
      /\ Last(h) \/ \E e \in W : Before(h, e)
  BY GapOrigin
<1>7. ASSUME NEW x, NEW y, NEW e \in W, NEW f \in W, Before(x, e), Before(y, f),
             pos[e] < pos[f]
      PROVE  x.at # y.at /\ x.hi < y.lo
  <2>1. x.at = pos[e] /\ y.at = pos[f] /\ x.hi = e.lo - 1 /\ y.lo = Current(W, lo, pos, pos[f])
    BY <1>7
  <2>2. e.hi < y.lo /\ y.lo \in Blocks
    BY <2>1, <1>2, <1>5, <1>7
  <2> QED
    BY <2>1, <2>2, <1>2, <1>4, <1>7 DEF Blocks
<1>8. ASSUME NEW x, NEW y, NEW e \in W, Before(x, e), Last(y)
      PROVE  x.at # y.at /\ x.hi < y.lo
  <2>1. /\ x.at = pos[e] /\ y.at = Cardinality(W) + 1 /\ x.hi = e.lo - 1
        /\ y.lo = Current(W, lo, pos, Cardinality(W) + 1)
    BY <1>8
  <2>2. e.hi < y.lo /\ y.lo \in Blocks
    BY <2>1, <1>1, <1>2, <1>5
  <2> QED
    BY <2>1, <2>2, <1>1, <1>2, <1>4 DEF Blocks
<1>9. CASE Last(g) /\ Last(h)
  BY <1>9
<1>10. CASE Last(g) /\ \E e \in W : Before(h, e)
  BY <1>8, <1>10
<1>11. CASE Last(h) /\ \E e \in W : Before(g, e)
  BY <1>8, <1>11
<1>12. ASSUME NEW e \in W, NEW f \in W, Before(g, e), Before(h, f)
       PROVE  g.at # h.at /\ (g.hi < h.lo \/ h.hi < g.lo)
  <2>1. e # f
    BY <1>12
  <2>2. pos[e] < pos[f] \/ pos[f] < pos[e]
    BY <2>1, <1>2, <1>3
  <2> HIDE DEF Before
  <2>3. CASE pos[e] < pos[f]
    BY <2>3, <1>7, <1>12
  <2>4. CASE pos[f] < pos[e]
    BY <2>4, <1>7, <1>12
  <2> QED
    BY <2>2, <2>3, <2>4
<1> QED
  BY <1>6, <1>9, <1>10, <1>11, <1>12

\* No block of the window falls between the walk's fingers: it is covered by
\* a merged entry or it is in a gap.
LEMMA GapsAreExhaustive ==
    ASSUME NEW W \in SUBSET Entry, IsFiniteSet(W), NEW lo \in Blocks, NEW hi \in Blocks,
           \A e \in W : Proper(e) /\ lo <= e.lo /\ e.hi <= hi,
           NEW pos \in SortedPositions(W), NEW b \in lo .. hi,
           \A e \in W : ~ Covers(e, b)
    PROVE  \E g \in Gaps(W, lo, hi, pos) : Covers(g, b)
<1>1. Cardinality(W) \in Nat
  BY FS_CardinalityType
<1>2. pos \in [W -> Int] /\ \A e \in W : pos[e] \in Nat /\ pos[e] < Cardinality(W) + 1
  BY <1>1 DEF SortedPositions
<1>3. \A e \in W : e.lo \in Blocks /\ e.hi \in Blocks /\ e.lo <= e.hi /\ e.hi < U64Max
  BY DEF Entry, Proper
<1>4. \A i \in Int : \/ Current(W, lo, pos, i) = lo
                     \/ \E f \in W : pos[f] < i /\ Current(W, lo, pos, i) = f.hi + 1
  BY <1>2, <1>3, CurrentIsPast
<1> DEFINE Later == {n \in Nat : \E e \in W : b < e.lo /\ n = pos[e]}
<1>5. CASE Later = {}
  <2>1. \A e \in W : e.hi < b
    BY <1>2, <1>3, <1>5 DEF Covers, Blocks
  <2>2. Current(W, lo, pos, Cardinality(W) + 1) <= b
    BY <2>1, <1>1, <1>3, <1>4 DEF Blocks
  <2>3. Current(W, lo, pos, Cardinality(W) + 1) <= hi
    <3>1. Current(W, lo, pos, Cardinality(W) + 1) \in Int
      BY <1>1, <1>3, <1>4 DEF Blocks
    <3> QED
      BY <2>2, <3>1 DEF Blocks
  <2> DEFINE g == [at |-> Cardinality(W) + 1,
                   lo |-> Current(W, lo, pos, Cardinality(W) + 1), hi |-> hi]
  <2>4. g \in Gaps(W, lo, hi, pos)
    BY <2>3 DEF Gaps
  <2>5. Covers(g, b)
    BY <2>2 DEF Covers, Blocks
  <2> QED
    BY <2>4, <2>5
<1>6. CASE Later # {}
  <2>1. PICK n \in Later : \A x \in Later : n <= x
    BY <1>6, SetMin
  <2>2. PICK e \in W : b < e.lo /\ n = pos[e]
    BY <2>1
  <2>3. \A f \in W : pos[f] < pos[e] => f.hi < b
    <3>1. \A f \in W : pos[f] < pos[e] => ~ (b < f.lo)
      BY <2>1, <2>2, <1>2
    <3> QED
      BY <3>1, <1>3 DEF Covers, Blocks
  <2>4. Current(W, lo, pos, pos[e]) <= b /\ Current(W, lo, pos, pos[e]) \in Int
    BY <2>3, <1>2, <1>3, <1>4 DEF Blocks
  <2> DEFINE g == [at |-> pos[e], lo |-> Current(W, lo, pos, pos[e]), hi |-> e.lo - 1]
  <2>5. g \in Gaps(W, lo, hi, pos)
    <3>1. Current(W, lo, pos, pos[e]) < e.lo
      BY <2>2, <2>4, <1>3 DEF Blocks
    <3> QED
      BY <3>1 DEF Gaps
  <2>6. Covers(g, b)
    BY <2>2, <2>4, <1>3 DEF Covers, Blocks
  <2> QED
    BY <2>5, <2>6
<1> QED
  BY <1>5, <1>6

-----------------------------------------------------------------------------
(* Merging and inserting *)

LEMMA MergeType ==
    ASSUME NEW a \in Aggregate, NEW b \in Aggregate
    PROVE  Merge(a, b) \in Aggregate
  BY DEF Merge, Aggregate

LEMMA MergeEntriesType ==
    ASSUME NEW W \in SUBSET Entry
    PROVE  MergeEntries(W) \in Aggregate
<1>1. \A e \in W : e.value.seen \subseteq Contributions /\ e.value.again \subseteq Contributions
  BY DEF Entry, Aggregate
<1>2. UNION {e.value.seen : e \in W} \subseteq Contributions
  BY <1>1
<1>3. UNION {e.value.again : e \in W} \subseteq Contributions
  BY <1>1
<1>4. MergeEntries(W).seen \subseteq Contributions /\ MergeEntries(W).again \subseteq Contributions
  BY <1>2, <1>3 DEF MergeEntries
<1> QED
  BY <1>4 DEF MergeEntries, Aggregate

\* An insert keeps what was there, except what it replaces, and adds at most
\* the new entry.
LEMMA InsertAdds ==
    ASSUME NEW entries, NEW key, NEW lo, NEW hi, NEW value
    PROVE  \A e \in Insert(entries, key, lo, hi, value) :
             e \in entries \/ e = [key |-> key, lo |-> lo, hi |-> hi, value |-> value]
  BY DEF Insert, Store

LEMMA InsertType ==
    ASSUME NEW entries \in SUBSET Entry, IsFiniteSet(entries),
           NEW key \in Keys, NEW lo \in Blocks, NEW hi \in Blocks, NEW value \in Aggregate
    PROVE  Insert(entries, key, lo, hi, value) \in SUBSET Entry
             /\ IsFiniteSet(Insert(entries, key, lo, hi, value))
<1> DEFINE new == [key |-> key, lo |-> lo, hi |-> hi, value |-> value]
           result == Insert(entries, key, lo, hi, value)
<1>1. result \subseteq entries \cup {new}
  BY InsertAdds
<1>2. new \in Entry
  BY DEF Entry
<1>3. IsFiniteSet(entries \cup {new})
  BY FS_AddElement
<1>4. IsFiniteSet(result)
  BY <1>1, <1>3, FS_Subset
<1> QED
  BY <1>1, <1>2, <1>4

\* Whatever is inserted, in order or not, the ranges of a key stay disjoint:
\* an entry the new range overlaps is replaced, or the new range is dropped.
LEMMA InsertKeepsApart ==
    ASSUME NEW entries, Disjoint(entries), \A e \in entries : e.lo \in Int /\ e.hi \in Int,
           NEW key, NEW lo \in Blocks, NEW hi \in Blocks, NEW value
    PROVE  Disjoint(Insert(entries, key, lo, hi, value))
<1> DEFINE new == [key |-> key, lo |-> lo, hi |-> hi, value |-> value]
           over == Overlapping(entries, key, lo, hi)
           kept == {e \in entries \ over : ~ (e.key = key /\ e.lo = lo /\ e.hi = hi)}
<1>1. \A e \in kept : e.key = key => (e.lo .. e.hi) \cap (lo .. hi) = {}
  <2>1. lo \in Int /\ hi \in Int
    BY DEF Blocks
  <2>2. \A e \in kept : e.key = key => e.hi < lo \/ e.lo > hi
    BY DEF Overlapping
  <2> QED
    BY <2>1, <2>2
<1>2. Disjoint(kept \cup {new})
  BY <1>1 DEF Disjoint
<1>3. CASE \A e \in over : e.lo >= lo /\ e.hi <= hi
  <2>1. Insert(entries, key, lo, hi, value) = kept \cup {new}
    BY <1>3 DEF Insert, Store
  <2> QED
    BY <1>2, <2>1
<1>4. CASE ~ (\A e \in over : e.lo >= lo /\ e.hi <= hi)
  BY <1>4 DEF Insert
<1> QED
  BY <1>3, <1>4

LEMMA InsertKeepsDisjoint ==
    ASSUME NEW entries \in SUBSET Entry, Disjoint(entries),
           NEW key \in Keys, NEW lo \in Blocks, NEW hi \in Blocks, NEW value
    PROVE  Disjoint(Insert(entries, key, lo, hi, value))
<1>1. \A e \in entries : e.lo \in Int /\ e.hi \in Int
  BY DEF Entry, Blocks
<1> QED
  BY <1>1, InsertKeepsApart

\* A step that only removes entries keeps them disjoint.
LEMMA SubsetKeepsDisjoint ==
    ASSUME NEW entries, Disjoint(entries), NEW fewer \in SUBSET entries
    PROVE  Disjoint(fewer)
  BY DEF Disjoint

\* Merging disjoint entries that hold contributions of their own range only
\* counts nothing twice.
LEMMA MergeEntriesCountsOnce ==
    ASSUME NEW W \in SUBSET Entry, Disjoint(W), NEW key, NEW J,
           \A e \in W : /\ e.key = key /\ e.value.again = {}
                        /\ e.value.seen \subseteq J \X (e.lo .. e.hi)
    PROVE  MergeEntries(W).again = {}
<1>1. SUFFICES ASSUME NEW e \in W, NEW f \in W, e # f, NEW c,
                      c \in e.value.seen, c \in f.value.seen
               PROVE  FALSE
  BY DEF MergeEntries
<1>2. c[2] \in (e.lo .. e.hi) \cap (f.lo .. f.hi)
  BY <1>1
<1> QED
  BY <1>1, <1>2 DEF Disjoint
==============================================================================
