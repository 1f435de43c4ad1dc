---------------------------- MODULE OrderLemmas ----------------------------
(***************************************************************************)
(* Least and greatest elements, which the proofs use in the place of       *)
(* induction, and finite sets that are listed in order.                    *)
(***************************************************************************)
EXTENDS FiniteSetTheorems, Sequences, TLAPS

\* A nonempty set of naturals has a least element.
LEMMA LeastNumber ==
    ASSUME NEW T \in SUBSET Nat, T # {}
    PROVE  \E n \in T : \A m \in T : n <= m
<1> DEFINE Prefixes == {0..n : n \in T}
<1>1. Prefixes # {}
  OBVIOUS
<1>2. Prefixes \subseteq FiniteSubsetsOf(Nat)
  <2>1. ASSUME NEW n \in T PROVE IsFiniteSet(0..n)
    BY FS_Interval
  <2> QED BY <2>1 DEF FiniteSubsetsOf
<1>3. \E x \in Prefixes : \A y \in Prefixes : ~ (<<y, x>> \in StrictSubsetOrdering(Nat))
  BY <1>1, <1>2, FS_StrictSubsetOrderingWellFounded, WFMin
<1>4. PICK n \in T : \A m \in T : ~ (<<0..m, 0..n>> \in StrictSubsetOrdering(Nat))
  BY <1>3
<1>5. ASSUME NEW m \in T, m < n PROVE FALSE
  <2>1. 0..m \subseteq 0..n /\ n \in 0..n /\ n \notin 0..m
    BY <1>5
  <2>2. <<0..m, 0..n>> \in StrictSubsetOrdering(Nat)
    BY <2>1 DEF StrictSubsetOrdering
  <2> QED BY <2>2, <1>4
<1> QED BY <1>5

\* Induction, for a set in the place of the predicate.
LEMMA Induction ==
    ASSUME NEW S, 0 \in S, \A n \in Nat : n \in S => n + 1 \in S
    PROVE  Nat \subseteq S
<1> DEFINE Others == Nat \ S
<1>1. ASSUME Others # {} PROVE FALSE
  <2>1. PICK n \in Others : \A m \in Others : n <= m
    BY <1>1, LeastNumber
  <2>2. n \in Nat /\ n # 0 /\ n - 1 \in Nat /\ n - 1 \notin Others
    BY <2>1
  <2> QED BY <2>2
<1> QED BY <1>1

\* A nonempty finite set has a first element in every strict partial order,
\* which is given as a set of pairs.
LEMMA FirstExists ==
    ASSUME NEW S, IsFiniteSet(S), S # {}, NEW R,
           \A x \in S : <<x, x>> \notin R,
           \A x, y, z \in S : <<x, y>> \in R /\ <<y, z>> \in R => <<x, z>> \in R
    PROVE  \E m \in S : \A x \in S : <<x, m>> \notin R
<1> DEFINE Less(m) == {x \in S : <<x, m>> \in R}
           Sizes == {n \in Nat : \E m \in S : Cardinality(Less(m)) = n}
<1>1. \A m \in S : IsFiniteSet(Less(m)) /\ Cardinality(Less(m)) \in Nat
  BY FS_Subset, FS_CardinalityType
<1>2. \A m \in S : Cardinality(Less(m)) \in Sizes
  <2> HIDE DEF Less
  <2> QED BY <1>1
<1>3. PICK size \in Sizes : \A other \in Sizes : size <= other
  <2>1. Sizes \in SUBSET Nat /\ Sizes # {}
    <3> HIDE DEF Less
    <3> QED BY <1>2
  <2> HIDE DEF Sizes
  <2> QED BY <2>1, LeastNumber
<1>4. PICK m \in S : Cardinality(Less(m)) = size
  <2> HIDE DEF Less
  <2> QED BY <1>3
<1>5. ASSUME NEW x \in S, <<x, m>> \in R PROVE FALSE
  <2>1. Less(x) \in SUBSET Less(m)
    BY <1>5
  <2>2. m \notin Less(x) /\ x \in Less(m) /\ x \notin Less(x)
    BY <1>5
  <2>3. Cardinality(Less(x)) <= Cardinality(Less(m)) /\ Cardinality(Less(x)) # Cardinality(Less(m))
    <3> HIDE DEF Less
    <3> QED BY <2>1, <2>2, <1>1, FS_Subset
  <2>4. Cardinality(Less(m)) <= Cardinality(Less(x))
    <3> HIDE DEF Less, Sizes
    <3> QED BY <1>2, <1>3, <1>4, <1>5
  <2>5. Cardinality(Less(x)) \in Nat /\ Cardinality(Less(m)) \in Nat
    <3> HIDE DEF Less
    <3> QED BY <1>1, <1>5
  <2> HIDE DEF Less
  <2> QED BY <2>3, <2>4, <2>5
<1> QED BY <1>5

\* A nonempty finite set of integers has a greatest element.
LEMMA GreatestNumber ==
    ASSUME NEW S \in SUBSET Int, IsFiniteSet(S), S # {}
    PROVE  \E n \in S : \A m \in S : m <= n
<1> DEFINE R == {p \in S \X S : p[1] > p[2]}
<1>1. /\ \A x \in S : <<x, x>> \notin R
      /\ \A x, y, z \in S : <<x, y>> \in R /\ <<y, z>> \in R => <<x, z>> \in R
  <2>1. \A x, y \in S : <<x, y>> \in R <=> x > y
    OBVIOUS
  <2> HIDE DEF R
  <2> QED BY <2>1
<1>2. PICK n \in S : \A m \in S : <<m, n>> \notin R
  <2> HIDE DEF R
  <2> QED BY <1>1, FirstExists
<1>3. ASSUME NEW m \in S PROVE m <= n
  <2>1. ~ (m > n)
    BY <1>2, <1>3
  <2> QED BY <2>1
<1> QED BY <1>3

\* A nonempty finite set of positions has one that is first by two measures,
\* and by its position where both are equal.
LEMMA LexicographicFirst ==
    ASSUME NEW S \in SUBSET Nat, IsFiniteSet(S), S # {}, NEW f \in [S -> Int], NEW g \in [S -> Int]
    PROVE  \E i \in S : \A j \in S \ {i} :
              f[i] < f[j] \/ (f[i] = f[j] /\ (g[i] < g[j] \/ (g[i] = g[j] /\ i < j)))
<1> DEFINE Less(i, j) == f[i] < f[j] \/ (f[i] = f[j] /\ (g[i] < g[j] \/ (g[i] = g[j] /\ i < j)))
           R == {p \in S \X S : Less(p[1], p[2])}
<1>1. \A i, j \in S : <<i, j>> \in R <=> Less(i, j)
  <2> HIDE DEF Less
  <2> QED OBVIOUS
<1>2. \A i \in S : ~ Less(i, i)
  OBVIOUS
<1>3. \A i, j, k \in S : Less(i, j) /\ Less(j, k) => Less(i, k)
  OBVIOUS
<1>4. \A i, j \in S : i # j => Less(i, j) \/ Less(j, i)
  OBVIOUS
<1> HIDE DEF R, Less
<1>5. PICK i \in S : \A j \in S : <<j, i>> \notin R
  <2>1. \A j \in S : <<j, j>> \notin R
    BY <1>1, <1>2
  <2>2. \A j, k, l \in S : <<j, k>> \in R /\ <<k, l>> \in R => <<j, l>> \in R
    BY <1>1, <1>3
  <2> QED BY <2>1, <2>2, FirstExists
<1>6. \A j \in S \ {i} : Less(i, j)
  BY <1>1, <1>4, <1>5
<1> QED
  BY <1>6 DEF Less

\* In a strict total order of n elements every rank is taken.
StrictTotal(n, R) ==
    /\ \A i \in 1..n : <<i, i>> \notin R
    /\ \A i, j, k \in 1..n : <<i, j>> \in R /\ <<j, k>> \in R => <<i, k>> \in R
    /\ \A i, j \in 1..n : i # j => <<i, j>> \in R \/ <<j, i>> \in R
RankOf(n, R, i) == 1 + Cardinality({j \in 1..n : <<j, i>> \in R})

LEMMA RanksAreFull ==
    ASSUME NEW n \in Nat, NEW R, StrictTotal(n, R), NEW k \in 1..n
    PROVE  \E i \in 1..n : RankOf(n, R, i) = k
<1> DEFINE Below(i) == {j \in 1..n : <<j, i>> \in R}
           rank == [i \in 1..n |-> 1 + Cardinality(Below(i))]
<1>1. IsFiniteSet(1..n) /\ Cardinality(1..n) = n
  BY FS_Interval
<1>2. \A i \in 1..n : IsFiniteSet(Below(i)) /\ Cardinality(Below(i)) \in Nat /\ Cardinality(Below(i)) < n
  <2> SUFFICES ASSUME NEW i \in 1..n
               PROVE  IsFiniteSet(Below(i)) /\ Cardinality(Below(i)) \in Nat /\ Cardinality(Below(i)) < n
    OBVIOUS
  <2>1. Below(i) \in SUBSET (1..n) /\ Below(i) # 1..n
    BY DEF StrictTotal
  <2> HIDE DEF Below
  <2>2. /\ IsFiniteSet(Below(i)) /\ Cardinality(Below(i)) <= Cardinality(1..n)
        /\ Cardinality(Below(i)) = Cardinality(1..n) => Below(i) = 1..n
    BY <1>1, <2>1, FS_Subset
  <2>3. Cardinality(Below(i)) \in Nat
    BY <2>2, FS_CardinalityType
  <2> QED BY <1>1, <2>1, <2>2, <2>3
<1>3. ASSUME NEW i \in 1..n, NEW j \in 1..n, <<i, j>> \in R PROVE rank[i] # rank[j]
  <2>1. Below(i) \in SUBSET Below(j) /\ i \in Below(j) /\ i \notin Below(i)
    BY <1>3 DEF StrictTotal
  <2> HIDE DEF Below
  <2>2. Cardinality(Below(i)) # Cardinality(Below(j))
    BY <1>2, <2>1, FS_Subset
  <2> QED BY <1>2, <2>2
<1>4. \A i, j \in 1..n : i # j => rank[i] # rank[j]
  BY <1>3 DEF StrictTotal
<1>5. rank \in [1..n -> 1..n]
  <2> HIDE DEF Below
  <2> QED BY <1>2
<1>6. ASSUME \A i \in 1..n : rank[i] # k PROVE FALSE
  <2> DEFINE T == (1..n) \ {k}
  <2> HIDE DEF rank, Below
  <2>1. rank \in [1..n -> T]
    BY <1>5, <1>6
  <2>2. IsFiniteSet(T) /\ Cardinality(T) = n - 1
    BY <1>1, FS_RemoveElement
  <2>3. \E i, j \in 1..n : i # j /\ rank[i] = rank[j]
    <3> HIDE DEF T
    <3> QED BY <1>1, <2>1, <2>2, FS_PigeonHole
  <2> QED BY <1>4, <2>3
<1> QED
  BY <1>6 DEF RankOf

\* Ranks rise along a strict total order.
LEMMA RanksRise ==
    ASSUME NEW n \in Nat, NEW R, StrictTotal(n, R), NEW i \in 1..n, NEW j \in 1..n, <<i, j>> \in R
    PROVE  RankOf(n, R, i) \in Nat /\ RankOf(n, R, j) \in Nat /\ RankOf(n, R, i) < RankOf(n, R, j)
<1> DEFINE Below(k) == {m \in 1..n : <<m, k>> \in R}
<1>1. Below(i) \in SUBSET Below(j) /\ i \in Below(j) /\ i \notin Below(i)
  BY DEF StrictTotal
<1>2. IsFiniteSet(1..n)
  BY FS_Interval
<1>3. Below(j) \in SUBSET (1..n)
  OBVIOUS
<1>4. RankOf(n, R, i) = 1 + Cardinality(Below(i)) /\ RankOf(n, R, j) = 1 + Cardinality(Below(j))
  BY DEF RankOf
<1> HIDE DEF Below
<1>5. IsFiniteSet(Below(j))
  BY <1>2, <1>3, FS_Subset
<1>6. /\ IsFiniteSet(Below(i)) /\ Cardinality(Below(i)) <= Cardinality(Below(j))
      /\ Cardinality(Below(i)) = Cardinality(Below(j)) => Below(i) = Below(j)
  BY <1>1, <1>5, FS_Subset
<1>7. Cardinality(Below(i)) \in Nat /\ Cardinality(Below(j)) \in Nat
  BY <1>5, <1>6, FS_CardinalityType
<1> QED BY <1>1, <1>4, <1>6, <1>7

LEMMA RankIsPosition ==
    ASSUME NEW n \in Nat, NEW R, StrictTotal(n, R), NEW i \in 1..n
    PROVE  RankOf(n, R, i) \in 1..n
<1> DEFINE Below == {m \in 1..n : <<m, i>> \in R}
<1>1. Below \in SUBSET ((1..n) \ {i})
  BY DEF StrictTotal
<1>2. IsFiniteSet(1..n) /\ Cardinality(1..n) = n
  BY FS_Interval
<1>3. IsFiniteSet((1..n) \ {i}) /\ Cardinality((1..n) \ {i}) = n - 1
  BY <1>2, FS_RemoveElement
<1>4. RankOf(n, R, i) = 1 + Cardinality(Below)
  BY DEF RankOf
<1> HIDE DEF Below
<1>5. IsFiniteSet(Below) /\ Cardinality(Below) <= n - 1
  <2>1. IsFiniteSet(Below) /\ Cardinality(Below) <= Cardinality((1..n) \ {i})
    BY <1>1, <1>3, FS_Subset
  <2> QED BY <2>1, <1>3
<1>6. Cardinality(Below) \in Nat
  BY <1>5, FS_CardinalityType
<1> QED BY <1>4, <1>5, <1>6

\* A finite set can be listed, and a list without repetitions of as many elements
\* lists them all.
LEMMA Enumerated ==
    ASSUME NEW S, IsFiniteSet(S)
    PROVE  /\ Cardinality(S) \in Nat
           /\ \E f \in [1..Cardinality(S) -> S] : \A i, j \in 1..Cardinality(S) : f[i] = f[j] => i = j
<1>1. Cardinality(S) \in Nat /\ ExistsBijection(1..Cardinality(S), S)
  BY FS_CardinalityType
<1> QED BY <1>1 DEF ExistsBijection, Bijection, Injection, IsInjective

LEMMA EnumerationOnto ==
    ASSUME NEW S, IsFiniteSet(S), NEW f \in [1..Cardinality(S) -> S],
           \A i, j \in 1..Cardinality(S) : f[i] = f[j] => i = j
    PROVE  \A x \in S : \E i \in 1..Cardinality(S) : f[i] = x
<1>1. Cardinality(S) \in Nat
  BY FS_CardinalityType
<1>2. Cardinality(1..Cardinality(S)) = Cardinality(S)
  BY <1>1, FS_Interval
<1>3. f \in Injection(1..Cardinality(S), S)
  BY DEF Injection, IsInjective
<1>4. f \in Surjection(1..Cardinality(S), S)
  BY <1>2, <1>3, FS_Injection
<1> QED BY <1>4 DEF Surjection

\* A list in order holds what it orders, each of it once.
Orders(S, R) ==
    /\ \A x \in S : <<x, x>> \notin R
    /\ \A x, y, z \in S : <<x, y>> \in R /\ <<y, z>> \in R => <<x, z>> \in R
    /\ \A x, y \in S : x # y => <<x, y>> \in R \/ <<y, x>> \in R
SortedBy(t, S, R) ==
    /\ t \in Seq(S) /\ Len(t) = Cardinality(S)
    /\ \A x \in S : \E i \in 1..Len(t) : t[i] = x
    /\ \A i, j \in 1..Len(t) : i < j => <<t[i], t[j]>> \in R

\* By rank: the k-th has k - 1 before it.
LEMMA SortedByRank ==
    ASSUME NEW S, IsFiniteSet(S), NEW R, Orders(S, R), NEW t, t = [k \in 1..Cardinality(S) |-> t[k]],
           NEW Under, \A x \in S : Under[x] = Cardinality({y \in S : <<y, x>> \in R}),
           \A k \in 1..Cardinality(S) : \A x \in S : Under[x] = k - 1 => t[k] \in S /\ Under[t[k]] = k - 1
    PROVE  SortedBy(t, S, R)
<1> DEFINE n == Cardinality(S)
<1>1. n \in Nat
  BY Enumerated
<1>0. IsFiniteSet(1..n)
  <2> HIDE DEF n
  <2> QED BY <1>1, FS_Interval
<1>2. PICK s \in [1..n -> S] : \A i, j \in 1..n : s[i] = s[j] => i = j
  BY Enumerated
<1>3. \A x \in S : \E i \in 1..n : s[i] = x
  <2>1. \A f \in [1..Cardinality(S) -> S] :
           (\A i, j \in 1..Cardinality(S) : f[i] = f[j] => i = j)
           => \A x \in S : \E i \in 1..Cardinality(S) : f[i] = x
    BY EnumerationOnto
  <2> QED BY <1>2, <2>1, ZenonT(60)
<1> DEFINE Q == {x \in (1..n) \X (1..n) : <<s[x[1]], s[x[2]]>> \in R}
<1>4. \A i, j \in 1..n : <<i, j>> \in Q <=> <<s[i], s[j]>> \in R
  <2> HIDE DEF n
  <2> QED OBVIOUS
<1>5. StrictTotal(n, Q)
  <2> HIDE DEF n, Q
  <2>1. \A i \in 1..n : s[i] \in S
    BY <1>2
  <2>2. \A i \in 1..n : <<i, i>> \notin Q
    BY <1>4, <2>1 DEF Orders
  <2>3. \A i, j, k \in 1..n : <<i, j>> \in Q /\ <<j, k>> \in Q => <<i, k>> \in Q
    BY <1>4, <2>1 DEF Orders
  <2>4. \A i, j \in 1..n : i # j => <<i, j>> \in Q \/ <<j, i>> \in Q
    BY <1>2, <1>4, <2>1 DEF Orders
  <2> QED BY <2>2, <2>3, <2>4 DEF StrictTotal
<1>6. ASSUME NEW i \in 1..n PROVE RankOf(n, Q, i) = 1 + Under[s[i]]
  <2> DEFINE Above == {j \in 1..n : <<j, i>> \in Q}
             Images == {y \in S : <<y, s[i]>> \in R}
             f == [j \in Above |-> s[j]]
  <2>1. s[i] \in S
    <3> HIDE DEF n
    <3> QED BY <1>2
  <2>2. \A j \in Above : j \in 1..n /\ f[j] = s[j] /\ s[j] \in Images
    <3> HIDE DEF n, Q
    <3> QED BY <1>2, <1>4
  <2>3. \A y \in Images : \E j \in Above : f[j] = y
    <3> HIDE DEF n, Q
    <3> QED BY <1>3, <1>4
  <2>4. IsFiniteSet(Above)
    <3>1. Above \in SUBSET (1..n)
      <4> HIDE DEF n, Q
      <4> QED OBVIOUS
    <3> HIDE DEF Above
    <3> QED BY <3>1, <1>0, FS_Subset
  <2> HIDE DEF Q
  <2>5. Cardinality(Above) = Cardinality(Images)
    <3>1. f \in [Above -> Images]
      <4> HIDE DEF Above, Images
      <4> QED BY <2>2
    <3>2. \A j, k \in Above : f[j] = f[k] => j = k
      <4> HIDE DEF Above, Images, n
      <4> QED BY <2>2, <1>2
    <3> HIDE DEF f, Above, Images
    <3>3. ExistsBijection(Above, Images)
      BY <3>1, <3>2, <2>3 DEF ExistsBijection, Bijection, Injection, Surjection, IsInjective
    <3> QED BY <3>3, <2>4, FS_Bijection
  <2>6. Under[s[i]] = Cardinality(Images)
    BY <2>1
  <2>7. RankOf(n, Q, i) = 1 + Cardinality(Above)
    <3> HIDE DEF n
    <3> QED BY DEF RankOf
  <2> QED BY <2>5, <2>6, <2>7
<1> HIDE DEF Q
<1>7. ASSUME NEW k \in 1..n
      PROVE  \E i \in 1..n : t[k] = s[i] /\ RankOf(n, Q, i) = k
  <2>1. PICK i \in 1..n : RankOf(n, Q, i) = k
    <3> HIDE DEF n
    <3> QED BY <1>1, <1>5, RanksAreFull
  <2>2. s[i] \in S /\ Under[s[i]] \in Nat
    <3>1. s[i] \in S
      <4> HIDE DEF n
      <4> QED BY <1>2
    <3>2. Under[s[i]] = Cardinality({y \in S : <<y, s[i]>> \in R})
      BY <3>1
    <3>3. IsFiniteSet({y \in S : <<y, s[i]>> \in R})
      BY FS_Subset
    <3> QED BY <3>1, <3>2, <3>3, FS_CardinalityType
  <2>3. Under[s[i]] = k - 1
    <3> HIDE DEF n
    <3> QED BY <2>1, <2>2, <1>6, <1>1
  <2>4. t[k] \in S /\ Under[t[k]] = k - 1
    BY <2>2, <2>3
  <2>5. PICK j \in 1..n : s[j] = t[k]
    <3> HIDE DEF n
    <3> QED BY <1>3, <2>4
  <2>6. RankOf(n, Q, j) = k
    <3>1. RankOf(n, Q, j) = 1 + (k - 1)
      BY <1>6, <2>4, <2>5
    <3> HIDE DEF n
    <3> QED BY <3>1, <1>1
  <2> QED BY <2>5, <2>6
<1> HIDE DEF n
<1>8. \A k \in 1..n : t[k] \in S
  BY <1>7, <1>2
<1>9. t \in Seq(S) /\ Len(t) = n
  <2>1. t \in [1..n -> S]
    BY <1>8 DEF n
  <2>2. \A r \in [1..n -> S] : r \in Seq(S) /\ Len(r) = n
    BY <1>1
  <2> QED BY <2>1, <2>2
<1>10. \A i, j \in 1..n : RankOf(n, Q, i) = RankOf(n, Q, j) => i = j
  <2>1. \A i, j \in 1..n : <<i, j>> \in Q => RankOf(n, Q, i) \in Nat /\ RankOf(n, Q, j) \in Nat /\ RankOf(n, Q, i) < RankOf(n, Q, j)
    BY <1>1, <1>5, RanksRise
  <2>2. \A i, j \in 1..n : i # j => <<i, j>> \in Q \/ <<j, i>> \in Q
    BY <1>5 DEF StrictTotal
  <2> SUFFICES ASSUME NEW i \in 1..n, NEW j \in 1..n, RankOf(n, Q, i) = RankOf(n, Q, j), i # j PROVE FALSE
    OBVIOUS
  <2>3. <<i, j>> \notin Q
    BY <2>1
  <2>4. <<j, i>> \notin Q
    BY <2>1
  <2> QED BY <2>2, <2>3, <2>4
<1>11. ASSUME NEW x \in S PROVE \E k \in 1..n : t[k] = x
  <2>1. PICK i \in 1..n : s[i] = x
    BY <1>3
  <2>2. RankOf(n, Q, i) \in 1..n
    BY <1>1, <1>5, RankIsPosition
  <2>3. PICK j \in 1..n : t[RankOf(n, Q, i)] = s[j] /\ RankOf(n, Q, j) = RankOf(n, Q, i)
    BY <1>7, <2>2
  <2>4. j = i
    BY <2>3, <1>10
  <2> QED BY <2>1, <2>2, <2>3, <2>4
<1>12. ASSUME NEW k \in 1..n, NEW l \in 1..n, k < l PROVE <<t[k], t[l]>> \in R
  <2>1. PICK i \in 1..n : t[k] = s[i] /\ RankOf(n, Q, i) = k
    BY <1>7
  <2>2. PICK j \in 1..n : t[l] = s[j] /\ RankOf(n, Q, j) = l
    BY <1>7
  <2>3. i # j
    BY <2>1, <2>2, <1>12
  <2>4. <<j, i>> \notin Q
    <3> SUFFICES ASSUME <<j, i>> \in Q PROVE FALSE
      OBVIOUS
    <3>1. RankOf(n, Q, j) < RankOf(n, Q, i)
      BY <1>1, <1>5, RanksRise
    <3> QED BY <3>1, <2>1, <2>2, <1>12
  <2>5. <<i, j>> \in Q
    BY <2>3, <2>4, <1>5 DEF StrictTotal
  <2> QED BY <2>1, <2>2, <2>5, <1>4
<1> QED BY <1>9, <1>11, <1>12 DEF SortedBy, n

\* The values of a function on a finite set are finitely many.
LEMMA ImageFinite ==
    ASSUME NEW S, IsFiniteSet(S), NEW f
    PROVE  IsFiniteSet({f[x] : x \in S})
<1> DEFINE T == {f[x] : x \in S}
           g == [x \in S |-> f[x]]
<1>1. g \in Surjection(S, T)
  BY DEF Surjection
<1> HIDE DEF g, T
<1>2. IsFiniteSet(T)
  BY <1>1, FS_Surjection
<1> QED BY <1>2 DEF T
=============================================================================
