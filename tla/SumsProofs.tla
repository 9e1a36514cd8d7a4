------------------------------- MODULE SumsProofs -------------------------------
(***************************************************************************)
(* Induction over the natural numbers without an operator for the          *)
(* predicate, and what it says of the sums of Sums and of the sequences of *)
(* Sublists; enumerations of finite sets.                                  *)
(***************************************************************************)
EXTENDS Sums, Sublists, SequencesExt, FiniteSetTheorems, WellFoundedInduction, TLAPS

\* A non-empty set of natural numbers has a least element.
LEMMA LeastNumber ==
  ASSUME NEW T \in SUBSET Nat, T # {}
  PROVE  \E n \in T : \A m \in T : n <= m
<1>1. IsWellFoundedOn(OpToRel(<, Nat), Nat)
  BY NatLessThanWellFounded
<1>2. PICK n \in T : \A m \in T : ~(<<m, n>> \in OpToRel(<, Nat))
  BY <1>1, WFMin
<1>3. ASSUME NEW m \in T, m < n PROVE FALSE
  <2>1. <<m, n>> \in OpToRel(<, Nat)
    BY <1>3 DEF OpToRel
  <2> QED BY <1>2, <2>1
<1> SUFFICES ASSUME NEW m \in T PROVE n <= m
  OBVIOUS
<1> QED BY <1>3

\* The largest of a bounded, non-empty set of natural numbers.
LEMMA GreatestNumber ==
  ASSUME NEW n \in Nat, NEW S \in SUBSET (0..n), S # {}
  PROVE  Max(S) \in S /\ \A y \in S : y <= Max(S)
<1> DEFINE T == {n - y : y \in S}
<1>1. T \in SUBSET Nat /\ T # {}
  <2>1. \A y \in S : n - y \in Nat
    OBVIOUS
  <2> QED  BY <2>1
<1>2. PICK t \in T : \A u \in T : t <= u
  <2> HIDE DEF T
  <2> QED  BY <1>1, LeastNumber
<1>3. PICK x \in S : t = n - x
  BY <1>2
<1>4. \A y \in S : x >= y
  BY <1>2, <1>3
<1>5. \E x1 \in S : \A y \in S : x1 >= y
  BY <1>4
<1>6. Max(S) \in S /\ \A y \in S : Max(S) >= y
  BY <1>5 DEF Max
<1> QED  BY <1>6

\* A set of natural numbers that holds 0 and every successor of its members up to n.
LEMMA UpTo ==
  ASSUME NEW n \in Nat, NEW T, 0 \in T, \A i \in 1..n : i - 1 \in T => i \in T
  PROVE  0..n \subseteq T
<1> SUFFICES ASSUME (0..n) \ T # {}
             PROVE  FALSE
  OBVIOUS
<1>1. PICK k \in (0..n) \ T : \A m \in (0..n) \ T : k <= m
  <2> DEFINE missing == (0..n) \ T
  <2>1. missing \in SUBSET Nat /\ missing # {}
    OBVIOUS
  <2> HIDE DEF missing
  <2>2. \E k \in missing : \A m \in missing : k <= m
    BY <2>1, LeastNumber
  <2> QED BY <2>2 DEF missing
<1>2. k # 0 /\ k \in 1..n /\ k - 1 \in 0..n
  BY <1>1
<1> QED BY <1>1, <1>2

\* One step of the definition of SumTo.
SumStep(f, F, k) == IF k = 0 THEN 0 ELSE F[k - 1] + f[k]

\* The partial sums of a function with natural values.
LEMMA PartialSums ==
  ASSUME NEW n \in Nat, NEW f \in [1..n -> Nat]
  PROVE  \E F \in [0..n -> Nat] :
            /\ F[0] = 0 /\ F[n] = SumTo(f, n)
            /\ \A k \in 1..n : F[k] = F[k - 1] + f[k]
<1> DEFINE Partial(k) == {F \in [0..k -> Nat] : F = [i \in 0..k |-> SumStep(f, F, i)]}
           Defined == {k \in 0..n : Partial(k) # {}}
           Recursive(F) == F = [i \in 0..n |-> SumStep(f, F, i)]
<1>1. 0 \in Defined
  <2>1. [i \in 0..0 |-> 0] \in Partial(0)
    BY DEF SumStep
  <2> HIDE DEF Partial
  <2> QED BY <2>1
<1>2. ASSUME NEW k \in 1..n, k - 1 \in Defined
      PROVE  k \in Defined
  <2>1. PICK F \in [0..(k - 1) -> Nat] : F = [i \in 0..(k - 1) |-> SumStep(f, F, i)]
    BY <1>2
  <2> DEFINE G == [i \in 0..k |-> IF i = k THEN SumStep(f, F, k) ELSE F[i]]
  <2>2. SumStep(f, F, k) \in Nat
    BY <2>1 DEF SumStep
  <2>3. G \in [0..k -> Nat]
    BY SMTT(30), <2>1, <2>2
  <2>4. ASSUME NEW i \in 0..k
        PROVE  G[i] = SumStep(f, G, i)
    <3>1. CASE i = k
      <4>1. G[k - 1] = F[k - 1]
        OBVIOUS
      <4> QED BY <3>1, <4>1 DEF SumStep
    <3>2. CASE i # k
      <4>1. i \in 0..(k - 1) /\ (i # 0 => i - 1 \in 0..(k - 1) /\ i - 1 # k)
        BY <3>2
      <4>2. G[i] = F[i] /\ (i # 0 => G[i - 1] = F[i - 1])
        BY <3>2, <4>1
      <4>3. F[i] = SumStep(f, F, i)
        BY <2>1, <4>1
      <4> QED BY <4>2, <4>3 DEF SumStep
    <3> QED BY <3>1, <3>2
  <2>5. G \in Partial(k)
    <3> HIDE DEF G
    <3>1. G = [i \in 0..k |-> G[i]]
      BY <2>3
    <3>2. G = [i \in 0..k |-> SumStep(f, G, i)]
      BY <2>4, <3>1
    <3> QED BY <2>3, <3>2
  <2> HIDE DEF Partial, G
  <2> QED BY <2>5
<1>3. n \in Defined
  <2> HIDE DEF Defined
  <2>1. 0..n \subseteq Defined
    BY <1>1, <1>2, UpTo
  <2> QED BY <2>1
<1>4. PICK E : Recursive(E)
  BY <1>3
<1> DEFINE F == CHOOSE H : Recursive(H)
<1>5. Recursive(F)
  <2> HIDE DEF Recursive
  <2> QED BY <1>4
<1>6. SumTo(f, n) = F[n]
  BY DEF SumTo, SumStep
<1> HIDE DEF F
<1>7. F[0] = 0 /\ \A k \in 1..n : F[k] = F[k - 1] + f[k]
  <2>1. F[0] = 0
    BY <1>5 DEF SumStep
  <2>2. ASSUME NEW k \in 1..n
        PROVE  F[k] = F[k - 1] + f[k]
    <3>1. k \in 0..n /\ k # 0
      OBVIOUS
    <3>2. F[k] = SumStep(f, F, k)
      BY <1>5, <3>1
    <3> QED BY <3>1, <3>2 DEF SumStep
  <2> QED BY <2>1, <2>2
<1>8. F \in [0..n -> Nat]
  <2> DEFINE Typed == {k \in 0..n : F[k] \in Nat}
  <2>1. 0 \in Typed
    BY <1>7
  <2>2. ASSUME NEW k \in 1..n, k - 1 \in Typed
        PROVE  k \in Typed
    BY <1>7, <2>2
  <2> HIDE DEF Typed
  <2>3. 0..n \subseteq Typed
    BY <2>1, <2>2, UpTo
  <2>4. \A k \in 0..n : F[k] \in Nat
    BY <2>3 DEF Typed
  <2> QED BY <1>5, <2>4
<1> QED BY <1>6, <1>7, <1>8

\* A sum of natural numbers is a natural number.
LEMMA SumType ==
  ASSUME NEW n \in Nat, NEW f \in [1..n -> Nat]
  PROVE  SumTo(f, n) \in Nat
BY PartialSums

\* The sum grows by what one of its terms grows.
LEMMA SumGrows ==
  ASSUME NEW n \in Nat, NEW f \in [1..n -> Nat], NEW g \in [1..n -> Nat], NEW j \in 1..n,
         NEW d \in Nat, g[j] = f[j] + d, \A k \in 1..n : k # j => g[k] = f[k]
  PROVE  SumTo(g, n) = SumTo(f, n) + d
<1>1. PICK F \in [0..n -> Nat] : /\ F[0] = 0 /\ F[n] = SumTo(f, n)
                                /\ \A k \in 1..n : F[k] = F[k - 1] + f[k]
  BY PartialSums
<1>2. PICK G \in [0..n -> Nat] : /\ G[0] = 0 /\ G[n] = SumTo(g, n)
                                /\ \A k \in 1..n : G[k] = G[k - 1] + g[k]
  BY PartialSums
<1> DEFINE Grown == {k \in 0..n : G[k] = F[k] + (IF k < j THEN 0 ELSE d)}
<1>3. 0 \in Grown
  BY <1>1, <1>2
<1>4. ASSUME NEW k \in 1..n, k - 1 \in Grown
      PROVE  k \in Grown
  <2>1. k \in 0..n /\ G[k - 1] \in Nat /\ F[k - 1] \in Nat /\ f[k] \in Nat /\ g[k] \in Nat
    OBVIOUS
  <2>2. G[k] = G[k - 1] + g[k] /\ F[k] = F[k - 1] + f[k]
    BY <1>1, <1>2
  <2>3. G[k - 1] = F[k - 1] + (IF k - 1 < j THEN 0 ELSE d)
    BY <1>4
  <2>4. g[k] = f[k] + (IF k = j THEN d ELSE 0)
    OBVIOUS
  <2>5. G[k] = F[k] + (IF k < j THEN 0 ELSE d)
    <3>1. CASE k < j
      BY <2>1, <2>2, <2>3, <2>4, <3>1
    <3>2. CASE k = j
      <4>1. G[k - 1] = F[k - 1] /\ g[k] = f[k] + d
        BY <2>1, <2>3, <2>4, <3>2
      <4>2. G[k] = F[k] + d
        BY SMTT(30), <2>1, <2>2, <4>1
      <4> QED BY <3>2, <4>2
    <3>3. CASE k > j
      <4>1. ~(k - 1 < j) /\ k # j /\ ~(k < j)
        BY <3>3
      <4>2. G[k - 1] = F[k - 1] + d /\ g[k] = f[k]
        BY <2>1, <2>3, <2>4, <4>1
      <4>3. G[k] = F[k] + d
        BY <2>1, <2>2, <4>2
      <4> QED BY <4>1, <4>3
    <3> QED BY <3>1, <3>2, <3>3
  <2> QED BY <2>5
<1>5. 0..n \subseteq Grown
  <2> HIDE DEF Grown
  <2> QED BY <1>3, <1>4, UpTo
<1>6. G[n] = F[n] + d
  BY <1>5
<1> QED BY <1>1, <1>2, <1>6

\* The sum of sums.
LEMMA SumAdds ==
  ASSUME NEW n \in Nat, NEW f \in [1..n -> Nat], NEW g \in [1..n -> Nat], NEW h \in [1..n -> Nat],
         \A k \in 1..n : h[k] = f[k] + g[k]
  PROVE  SumTo(h, n) = SumTo(f, n) + SumTo(g, n)
<1>1. PICK F \in [0..n -> Nat] : /\ F[0] = 0 /\ F[n] = SumTo(f, n)
                                /\ \A k \in 1..n : F[k] = F[k - 1] + f[k]
  BY PartialSums
<1>2. PICK G \in [0..n -> Nat] : /\ G[0] = 0 /\ G[n] = SumTo(g, n)
                                /\ \A k \in 1..n : G[k] = G[k - 1] + g[k]
  BY PartialSums
<1>3. PICK H \in [0..n -> Nat] : /\ H[0] = 0 /\ H[n] = SumTo(h, n)
                                /\ \A k \in 1..n : H[k] = H[k - 1] + h[k]
  BY PartialSums
<1> DEFINE Added == {k \in 0..n : H[k] = F[k] + G[k]}
<1>4. 0 \in Added
  BY <1>1, <1>2, <1>3
<1>5. ASSUME NEW k \in 1..n, k - 1 \in Added
      PROVE  k \in Added
  <2>1. k \in 0..n /\ G[k - 1] \in Nat /\ F[k - 1] \in Nat /\ f[k] \in Nat /\ g[k] \in Nat
    OBVIOUS
  <2>2. H[k] = H[k - 1] + h[k] /\ G[k] = G[k - 1] + g[k] /\ F[k] = F[k - 1] + f[k]
    BY <1>1, <1>2, <1>3
  <2>3. H[k - 1] = F[k - 1] + G[k - 1] /\ h[k] = f[k] + g[k]
    BY <1>5
  <2>4. H[k] = F[k] + G[k]
    BY <2>1, <2>2, <2>3
  <2> QED BY <2>4
<1>6. 0..n \subseteq Added
  <2> HIDE DEF Added
  <2> QED BY <1>4, <1>5, UpTo
<1> QED BY <1>1, <1>2, <1>3, <1>6

\* The greater terms have the greater sum.
LEMMA SumMonotone ==
  ASSUME NEW n \in Nat, NEW f \in [1..n -> Nat], NEW g \in [1..n -> Nat], \A k \in 1..n : f[k] <= g[k]
  PROVE  SumTo(f, n) <= SumTo(g, n)
<1> DEFINE d == [k \in 1..n |-> g[k] - f[k]]
<1>1. d \in [1..n -> Nat] /\ \A k \in 1..n : g[k] = f[k] + d[k]
  <2>1. \A k \in 1..n : f[k] \in Nat /\ g[k] \in Nat
    OBVIOUS
  <2> QED BY <2>1
<1> HIDE DEF d
<1>2. SumTo(g, n) = SumTo(f, n) + SumTo(d, n)
  BY <1>1, SumAdds
<1>3. SumTo(f, n) \in Nat /\ SumTo(d, n) \in Nat
  BY <1>1, SumType
<1> QED BY <1>2, <1>3

\* A sum of zeros.
LEMMA SumOfZeros ==
  ASSUME NEW n \in Nat, NEW f \in [1..n -> Nat], \A k \in 1..n : f[k] = 0
  PROVE  SumTo(f, n) = 0
<1>1. PICK F \in [0..n -> Nat] : /\ F[0] = 0 /\ F[n] = SumTo(f, n)
                                /\ \A k \in 1..n : F[k] = F[k - 1] + f[k]
  BY PartialSums
<1> DEFINE Zero == {k \in 0..n : F[k] = 0}
<1>2. 0 \in Zero
  BY <1>1
<1>3. ASSUME NEW k \in 1..n, k - 1 \in Zero
      PROVE  k \in Zero
  BY <1>1, <1>3
<1>4. 0..n \subseteq Zero
  <2> HIDE DEF Zero
  <2> QED BY <1>2, <1>3, UpTo
<1> QED BY <1>1, <1>4

\* Finite sets that have no common elements have as many elements together as they have apart.
LEMMA SumOfCardinalities ==
  ASSUME NEW n \in Nat, NEW A, \A k \in 1..n : IsFiniteSet(A[k]),
         \A j, k \in 1..n : j # k => A[j] \cap A[k] = {},
         NEW f \in [1..n -> Nat], \A k \in 1..n : f[k] = Cardinality(A[k])
  PROVE  LET U == UNION {A[k] : k \in 1..n}
         IN  IsFiniteSet(U) /\ Cardinality(U) = SumTo(f, n)
<1>1. PICK F \in [0..n -> Nat] : /\ F[0] = 0 /\ F[n] = SumTo(f, n)
                                /\ \A k \in 1..n : F[k] = F[k - 1] + f[k]
  BY PartialSums
<1> DEFINE U(m) == UNION {A[k] : k \in 1..m}
           Counted == {m \in 0..n : IsFiniteSet(U(m)) /\ Cardinality(U(m)) = F[m]}
<1>2. 0 \in Counted
  <2>1. U(0) = {}
    OBVIOUS
  <2> HIDE DEF U
  <2>2. IsFiniteSet(U(0)) /\ Cardinality(U(0)) = 0
    BY <2>1, FS_EmptySet
  <2> QED BY <1>1, <2>2
<1>3. ASSUME NEW m \in 1..n, m - 1 \in Counted
      PROVE  m \in Counted
  <2>1. 1..m = (1..(m - 1)) \cup {m}
    OBVIOUS
  <2>2. U(m) = U(m - 1) \cup A[m]
    BY <2>1
  <2>3. U(m - 1) \cap A[m] = {}
    <3> SUFFICES ASSUME NEW x \in U(m - 1), x \in A[m]
                 PROVE  FALSE
      OBVIOUS
    <3>1. PICK k \in 1..(m - 1) : x \in A[k]
      OBVIOUS
    <3>2. k \in 1..n /\ k # m
      OBVIOUS
    <3> QED BY <3>1, <3>2
  <2>4. IsFiniteSet(U(m - 1)) /\ Cardinality(U(m - 1)) = F[m - 1]
    BY <1>3
  <2>5. IsFiniteSet(A[m]) /\ Cardinality(A[m]) = f[m] /\ f[m] \in Nat /\ F[m - 1] \in Nat
    OBVIOUS
  <2>6. F[m] = F[m - 1] + f[m] /\ m \in 0..n
    BY <1>1
  <2> HIDE DEF U
  <2>7. /\ IsFiniteSet(U(m))
        /\ Cardinality(U(m)) = Cardinality(U(m - 1)) + Cardinality(A[m])
                                 - Cardinality(U(m - 1) \cap A[m])
    <3>1. PICK S, T : S = U(m - 1) /\ T = A[m]
      OBVIOUS
    <3>2. IsFiniteSet(S) /\ IsFiniteSet(T) /\ U(m) = S \cup T
      BY <2>2, <2>4, <2>5, <3>1
    <3>3. IsFiniteSet(S \cup T)
          /\ Cardinality(S \cup T) = Cardinality(S) + Cardinality(T) - Cardinality(S \cap T)
      BY <3>2, FS_Union
    <3> QED BY <3>1, <3>2, <3>3
  <2>8. Cardinality(U(m - 1) \cap A[m]) = 0
    BY <2>3, FS_EmptySet
  <2>9. Cardinality(U(m)) = F[m]
    BY <2>4, <2>5, <2>6, <2>7, <2>8
  <2> QED BY <2>6, <2>7, <2>9
<1>4. 0..n \subseteq Counted
  <2> HIDE DEF Counted
  <2> QED BY <1>2, <1>3, UpTo
<1>5. IsFiniteSet(U(n)) /\ Cardinality(U(n)) = F[n]
  <2>1. n \in Counted
    BY <1>4
  <2> HIDE DEF U
  <2> QED BY <2>1
<1> QED BY <1>1, <1>5

\* Tallies of the disjoint sets S[1], ..., S[n], whose union is U: p counts the members, of which e, s
\* and f are parts, and f those outside V at least.
TalliesOf(U, S, n, p, e, s, f, V) ==
  /\ U = UNION {S[k] : k \in 1..n}
  /\ p \in [1..n -> Nat] /\ e \in [1..n -> Nat] /\ s \in [1..n -> Nat] /\ f \in [1..n -> Nat]
  /\ \A k \in 1..n : IsFiniteSet(S[k])
  /\ \A j, k \in 1..n : j # k => S[j] \cap S[k] = {}
  /\ \A k \in 1..n : p[k] = Cardinality(S[k])
  /\ \A k \in 1..n : p[k] = e[k] + s[k] + f[k]
  /\ \A k \in 1..n : Cardinality(S[k] \ V) <= f[k]

\* Such tallies add up to a tally of the union.
LEMMA TalliesAddUp ==
  ASSUME NEW n \in Nat, NEW S, NEW p, NEW e, NEW s, NEW f, NEW V, NEW U,
         TalliesOf(U, S, n, p, e, s, f, V)
  PROVE  /\ SumTo(p, n) = Cardinality(U)
         /\ SumTo(p, n) = SumTo(e, n) + SumTo(s, n) + SumTo(f, n)
         /\ Cardinality(U \ V) <= SumTo(f, n)
<1> USE DEF TalliesOf
<1>1. SumTo(p, n) = Cardinality(U)
  BY SumOfCardinalities
<1>2. SumTo(p, n) = SumTo(e, n) + SumTo(s, n) + SumTo(f, n)
  <2>1. \A k \in 1..n : e[k] \in Nat /\ s[k] \in Nat /\ f[k] \in Nat /\ s[k] + f[k] \in Nat
    BY SMTT(30)
  <2>2. PICK rest \in [1..n -> Nat] : \A k \in 1..n : rest[k] = s[k] + f[k]
    <3>1. [k \in 1..n |-> s[k] + f[k]] \in [1..n -> Nat]
      BY <2>1
    <3> QED BY <3>1
  <2>3. \A k \in 1..n : p[k] = e[k] + rest[k]
    BY <2>1, <2>2
  <2>4. SumTo(rest, n) = SumTo(s, n) + SumTo(f, n)
    BY ZenonT(60), <2>2, SumAdds
  <2>5. SumTo(p, n) = SumTo(e, n) + SumTo(rest, n)
    BY <2>2, <2>3, SumAdds
  <2>6. SumTo(e, n) \in Nat /\ SumTo(s, n) \in Nat /\ SumTo(f, n) \in Nat
    BY SumType
  <2> QED BY <2>4, <2>5, <2>6
<1>3. Cardinality(U \ V) <= SumTo(f, n)
  <2>9. PICK B : \A k \in 1..n : B[k] = S[k] \ V
    <3> DEFINE B == [k \in 1..n |-> S[k] \ V]
    <3>1. \A k \in 1..n : B[k] = S[k] \ V
      OBVIOUS
    <3> QED BY <3>1
  <2>1. \A k \in 1..n : IsFiniteSet(B[k])
    BY <2>9, FS_Subset
  <2>2. \A k \in 1..n : Cardinality(B[k]) \in Nat
    BY <2>1, FS_CardinalityType
  <2>3. \A j, k \in 1..n : j # k => B[j] \cap B[k] = {}
    BY <2>9
  <2>4. PICK missing \in [1..n -> Nat] : \A k \in 1..n : missing[k] = Cardinality(B[k])
    <3>1. [k \in 1..n |-> Cardinality(B[k])] \in [1..n -> Nat]
      BY <2>2
    <3> QED BY <3>1
  <2>5. \A k \in 1..n : missing[k] <= f[k]
    BY <2>4, <2>9
  <2>6. Cardinality(UNION {B[k] : k \in 1..n}) = SumTo(missing, n)
    BY ZenonT(60), <2>1, <2>3, <2>4, SumOfCardinalities
  <2>7. UNION {B[k] : k \in 1..n} = U \ V
    <3>1. ASSUME NEW x \in U \ V PROVE \E k \in 1..n : x \in B[k]
      <4>1. PICK k \in 1..n : x \in S[k]
        OBVIOUS
      <4> QED BY <2>9, <4>1
    <3>2. ASSUME NEW k \in 1..n, NEW x \in B[k] PROVE x \in U \ V
      BY <2>9
    <3>3. \A x : x \in UNION {B[k] : k \in 1..n} <=> x \in U \ V
      BY <3>1, <3>2
    <3> QED BY <3>3
  <2>8. SumTo(missing, n) <= SumTo(f, n)
    BY <2>4, <2>5, SumMonotone
  <2> QED BY <2>6, <2>7, <2>8
<1> QED BY <1>1, <1>2, <1>3

\* An enumeration of a finite set has every element of it once.
LEMMA EnumerationIsSequence ==
  ASSUME NEW S, IsFiniteSet(S)
  PROVE  /\ SetToSeq(S) \in Seq(S) /\ Len(SetToSeq(S)) = Cardinality(S)
         /\ \A x, y \in 1..Cardinality(S) : SetToSeq(S)[x] = SetToSeq(S)[y] => x = y
<1>1. Cardinality(S) \in Nat /\ ExistsBijection(1..Cardinality(S), S)
  BY FS_CardinalityType
<1>2. PICK f \in [1..Cardinality(S) -> S] : IsInjective(f)
  <2>1. PICK f : f \in Bijection(1..Cardinality(S), S)
    BY <1>1 DEF ExistsBijection
  <2> QED BY <2>1 DEF Bijection, Injection, IsInjective
<1>3. SetToSeq(S) \in [1..Cardinality(S) -> S] /\ IsInjective(SetToSeq(S))
  BY <1>2 DEF SetToSeq
<1> QED BY <1>1, <1>3 DEF IsInjective

\* One step of the definition of Kept.
KeptStep(s, T, F, i) == IF i = 0 THEN <<>> ELSE IF s[i] \in T THEN Append(F[i - 1], s[i]) ELSE F[i - 1]

\* What is kept of a sequence is a sequence of the elements that were to be kept.
LEMMA KeptIsSequence ==
  ASSUME NEW S, NEW s \in Seq(S), NEW T
  PROVE  Kept(s, T) \in Seq(S \cap T)
<1> DEFINE Partial(n) == {F \in [0..n -> Seq(S \cap T)] : F = [i \in 0..n |-> KeptStep(s, T, F, i)]}
           Defined == {n \in 0..Len(s) : Partial(n) # {}}
           Recursive(F) == F = [i \in 0..Len(s) |-> KeptStep(s, T, F, i)]
<1>1. Len(s) \in Nat /\ \A i \in 1..Len(s) : s[i] \in S
  OBVIOUS
<1>2. 0 \in Defined
  <2>1. [i \in 0..0 |-> <<>>] \in Partial(0)
    BY DEF KeptStep
  <2> HIDE DEF Partial
  <2> QED BY <1>1, <2>1
<1>3. ASSUME NEW n \in 1..Len(s), n - 1 \in Defined
      PROVE  n \in Defined
  <2>1. PICK F \in [0..(n - 1) -> Seq(S \cap T)] :
               F = [i \in 0..(n - 1) |-> KeptStep(s, T, F, i)]
    BY <1>3
  <2> DEFINE G == [i \in 0..n |-> IF i = n THEN KeptStep(s, T, F, n) ELSE F[i]]
  <2>2. KeptStep(s, T, F, n) \in Seq(S \cap T)
    <3>1. F[n - 1] \in Seq(S \cap T) /\ s[n] \in S
      BY <1>1, <2>1
    <3> QED BY <3>1 DEF KeptStep
  <2>3. G \in [0..n -> Seq(S \cap T)]
    BY SMTT(30), <2>2, <2>1
  <2>4. ASSUME NEW i \in 0..n
        PROVE  G[i] = KeptStep(s, T, G, i)
    <3>1. CASE i = n
      <4>1. G[n - 1] = F[n - 1]
        OBVIOUS
      <4> QED BY <3>1, <4>1 DEF KeptStep
    <3>2. CASE i # n
      <4>1. i \in 0..(n - 1) /\ (i # 0 => i - 1 \in 0..(n - 1) /\ i - 1 # n)
        BY <3>2
      <4>2. G[i] = F[i] /\ (i # 0 => G[i - 1] = F[i - 1])
        BY <3>2, <4>1
      <4>3. F[i] = KeptStep(s, T, F, i)
        BY <2>1, <4>1
      <4> QED BY <4>2, <4>3 DEF KeptStep
    <3> QED BY <3>1, <3>2
  <2>5. G \in Partial(n)
    <3> HIDE DEF G
    <3>1. G = [i \in 0..n |-> G[i]]
      BY <2>3
    <3>2. G = [i \in 0..n |-> KeptStep(s, T, G, i)]
      BY <2>4, <3>1
    <3> QED BY <2>3, <3>2
  <2> HIDE DEF Partial, G
  <2> QED BY <1>1, <2>5
<1>4. Len(s) \in Defined
  <2> HIDE DEF Defined
  <2>1. 0..Len(s) \subseteq Defined
    BY <1>1, <1>2, <1>3, UpTo
  <2> QED BY <1>1, <2>1
<1>5. PICK E : Recursive(E)
  BY <1>4
<1> DEFINE F == CHOOSE H : Recursive(H)
<1>6. Recursive(F)
  <2> HIDE DEF Recursive
  <2> QED BY <1>5
<1>7. Kept(s, T) = F[Len(s)]
  BY DEF Kept, KeptStep
<1> HIDE DEF F
<1>8. 0..Len(s) \subseteq {i \in 0..Len(s) : F[i] \in Seq(S \cap T)}
  <2> DEFINE Typed == {i \in 0..Len(s) : F[i] \in Seq(S \cap T)}
  <2>1. 0 \in Typed
    BY <1>1, <1>6 DEF KeptStep
  <2>2. ASSUME NEW i \in 1..Len(s), i - 1 \in Typed
        PROVE  i \in Typed
    <3>1. F[i] = KeptStep(s, T, F, i) /\ s[i] \in S /\ i \in 0..Len(s)
      BY <1>1, <1>6
    <3>2. F[i - 1] \in Seq(S \cap T) /\ i # 0
      BY <2>2
    <3>3. F[i] \in Seq(S \cap T)
      <4>1. CASE s[i] \in T
        BY <3>1, <3>2, <4>1 DEF KeptStep
      <4>2. CASE s[i] \notin T
        BY <3>1, <3>2, <4>2 DEF KeptStep
      <4> QED BY <4>1, <4>2
    <3> QED BY <3>1, <3>3
  <2> HIDE DEF Typed
  <2>3. 0..Len(s) \subseteq Typed
    BY <1>1, <2>1, <2>2, UpTo
  <2> QED BY <2>3 DEF Typed
<1> QED BY <1>1, <1>7, <1>8
=============================================================================
