--------------------------- MODULE ArchGrids_proofs ---------------------------
(***************************************************************************)
(* What holds of every architecture that can be built, and of the grids    *)
(* that are made of its bus groups or of any other call.                   *)
(*                                                                         *)
(* First the grids alone: they are safe, they leave out no atom that can   *)
(* be moved, and on a bus whose destinations are no sources the merging    *)
(* passes have nothing to do.  The sets of rectangles are functions of     *)
(* `call`, which no step changes; the invariant says in which of them the  *)
(* variables are.                                                          *)
(*                                                                         *)
(* Then the architectures, for any calls in any order: ArchInv says what   *)
(* the zones of the builder and what build made of them are, and that a    *)
(* group asked for is one of its groups.  What build returns does not      *)
(* change, so that the properties follow from what one looks like.  The    *)
(* last is about the search for paths: a shortest way comes by its ends    *)
(* once, and every step of it is clear for all atoms of the bus.           *)
(***************************************************************************)
EXTENDS ArchGrids, OrderLemmas

LOCAL INSTANCE SequencesExt

----------------------------------------------------------------------------
(***************************************************************************)
(* Finite sets of numbers can be put in order.                             *)
(***************************************************************************)

Enumerates(s, S) ==
    /\ s \in [1..Cardinality(S) -> S]
    /\ \A i, j \in DOMAIN s : i < j => s[i] < s[j]

\* Every finite set of naturals has an increasing enumeration: a smallest one
\* without would, but for its greatest element, have one.
LEMMA CanBeOrdered ==
    ASSUME NEW S \in SUBSET Nat, IsFiniteSet(S)
    PROVE  \E s : Enumerates(s, S)
<1> SUFFICES ASSUME ~ \E s : Enumerates(s, S) PROVE FALSE
  OBVIOUS
<1> DEFINE Bad == {T \in SUBSET S : ~ \E s : Enumerates(s, T)}
           Sizes == {Cardinality(T) : T \in Bad}
<1>1. ASSUME NEW T \in SUBSET S PROVE IsFiniteSet(T) /\ Cardinality(T) \in Nat
  BY FS_Subset, FS_CardinalityType
<1>2. Sizes \in SUBSET Nat /\ Sizes # {}
  BY <1>1
<1>3. PICK size \in Sizes : \A other \in Sizes : size <= other
  BY <1>2, LeastNumber
<1>4. PICK T \in Bad : size = Cardinality(T)
  BY <1>3
<1>5. T # {}
  <2> SUFFICES ASSUME T = {} PROVE FALSE
    OBVIOUS
  <2>1. Cardinality(T) = 0
    BY FS_EmptySet
  <2>2. Enumerates(<< >>, T)
    BY <2>1 DEF Enumerates
  <2> QED BY <2>2, <1>4
<1>6. PICK top \in T : \A m \in T : m <= top
  <2>1. T \in SUBSET Nat /\ IsFiniteSet(T)
    BY <1>1, <1>4
  <2> QED BY <2>1, <1>5, GreatestNumber
<1> DEFINE U == T \ {top}
           n == Cardinality(T)
<1>7. n \in Nat /\ n >= 1 /\ Cardinality(U) = n - 1
  <2>1. Cardinality(U) = n - 1 /\ Cardinality(U) \in Nat
    BY <1>1, <1>4, <1>6, FS_RemoveElement
  <2> QED BY <2>1, <1>1, <1>4
<1>8. PICK s : Enumerates(s, U)
  <2>1. U \in SUBSET S /\ ~ (size <= Cardinality(U))
    BY <1>4, <1>7
  <2>2. U \notin Bad
    BY <2>1, <1>3
  <2> QED BY <2>1, <2>2
<1> DEFINE longer == [i \in 1..n |-> IF i = n THEN top ELSE s[i]]
<1>9. s \in [1..(n - 1) -> U] /\ \A i, j \in 1..(n - 1) : i < j => s[i] < s[j]
  BY <1>7, <1>8 DEF Enumerates
<1>10. longer \in [1..n -> T]
  BY <1>6, <1>7, <1>9
<1>11. ASSUME NEW i \in 1..n, NEW j \in 1..n, i < j PROVE longer[i] < longer[j]
  <2>1. i \in 1..(n - 1) /\ longer[i] = s[i] /\ s[i] \in U
    BY <1>7, <1>9, <1>11
  <2>2. CASE j = n
    <3>1. s[i] \in Nat /\ top \in Nat /\ s[i] <= top /\ s[i] # top
      BY <1>4, <1>6, <2>1
    <3> QED BY <2>1, <2>2, <3>1
  <2>3. CASE j # n
    <3>1. j \in 1..(n - 1) /\ longer[j] = s[j]
      BY <1>7, <2>3
    <3> QED BY <2>1, <3>1, <1>9, <1>11
  <2> QED BY <2>2, <2>3
<1>12. Enumerates(longer, T)
  BY <1>10, <1>11 DEF Enumerates
<1> QED BY <1>4, <1>12

\* What Ordered returns has every member of the set, once each.
LEMMA OrderedIsFair ==
    ASSUME NEW S \in SUBSET Nat, IsFiniteSet(S)
    PROVE  /\ Cardinality(S) \in Nat
           /\ Ordered(S) \in [1..Cardinality(S) -> S]
           /\ \A i, j \in 1..Cardinality(S) : Ordered(S)[i] = Ordered(S)[j] => i = j
           /\ \A m \in S : \E i \in 1..Cardinality(S) : Ordered(S)[i] = m
<1> DEFINE n == Cardinality(S)
           s == Ordered(S)
<1>1. n \in Nat
  BY FS_CardinalityType
<1>2. s \in [1..n -> S] /\ \A i, j \in 1..n : i < j => s[i] < s[j]
  <2>1. PICK t : Enumerates(t, S)
    BY CanBeOrdered
  <2>2. t \in [1..n -> S] /\ \A i, j \in DOMAIN t : i < j => t[i] < t[j]
    BY <2>1 DEF Enumerates
  <2>3. s \in [1..n -> S] /\ \A i, j \in DOMAIN s : i < j => s[i] < s[j]
    BY <2>2 DEF Ordered
  <2> QED BY <2>3
<1>3. ASSUME NEW i \in 1..n, NEW j \in 1..n, s[i] = s[j] PROVE i = j
  <2>1. s[i] \in Nat /\ s[j] \in Nat
    BY <1>2
  <2>2. ~ (i < j) /\ ~ (j < i)
    BY <1>2, <1>3, <2>1
  <2> QED BY <1>1, <2>2
<1>4. \A m \in S : \E i \in 1..n : s[i] = m
  <2>1. \A f \in [1..Cardinality(S) -> S] :
           (\A i, j \in 1..Cardinality(S) : f[i] = f[j] => i = j)
           => \A x \in S : \E i \in 1..Cardinality(S) : f[i] = x
    BY EnumerationOnto
  <2>2. \A i, j \in 1..n : s[i] = s[j] => i = j
    BY <1>3
  <2> QED BY <1>2, <2>1, <2>2, Zenon
<1> QED BY <1>1, <1>2, <1>3, <1>4
----------------------------------------------------------------------------
(***************************************************************************)
(* Rectangles.                                                             *)
(***************************************************************************)
Rects == [xs : SUBSET Int, ys : SUBSET Int]
ValidRects == {r \in Rects : ValidRect(r)}
Covering(l) == {r \in Rects : l \in SourcesIn(r)}
Clashing(l) == {r \in Rects : ~ ValidRect(Union(r, Point(l)))}
Apart == {p \in Rects \X Rects : ~ ValidRect(Union(p[1], p[2]))}
Movable == {l \in call.entries : ValidRect(Point(l))}
Inside(r, s) == r.xs \subseteq s.xs /\ r.ys \subseteq s.ys

\* A call as the grids are built for it, of Calls or of an architecture.
CallOk ==
    /\ call.sources \subseteq Nat /\ IsFiniteSet(call.sources)
    /\ call.entries \subseteq call.sources \cap call.occupied
    /\ \A l \in call.sources : At(l) \in Int \X Int

\* A step that keeps the call keeps all of these.
LEMMA SameCall ==
    ASSUME call' = call
    PROVE  /\ ValidRects' = ValidRects /\ Apart' = Apart /\ Movable' = Movable
           /\ \A l : Covering(l)' = Covering(l) /\ Clashing(l)' = Clashing(l)
           /\ OneWay' = OneWay /\ CallOk' = CallOk
BY DEF ValidRects, Apart, Movable, Covering, Clashing, OneWay, ValidRect, Cleared, SourcesIn, Point, At,
       Union, CallOk

LEMMA CallsAreOk == ASSUME call \in Calls PROVE CallOk
<1>1. /\ call.entries \subseteq call.sources \cap call.occupied /\ call.sources \subseteq Locations
      /\ Locations \subseteq Nat /\ IsFiniteSet(Locations) /\ call.position \in [Locations -> Nat \X Nat]
  BY GridAssumption
<1>2. IsFiniteSet(call.sources)
  BY <1>1, FS_Subset
<1>3. ASSUME NEW l \in call.sources PROVE At(l) \in Int \X Int
  <2>1. l \in Locations
    BY <1>1
  <2>2. At(l) \in Nat \X Nat
    BY <1>1, <2>1 DEF At
  <2>3. \A p \in Nat \X Nat : p \in Int \X Int
    OBVIOUS
  <2> QED BY <2>2, <2>3
<1> QED BY <1>1, <1>2, <1>3 DEF CallOk

LEMMA CallTypes ==
    ASSUME CallOk
    PROVE  /\ call.entries \in SUBSET Nat /\ IsFiniteSet(call.entries)
           /\ call.entries \subseteq call.sources
           /\ \A l \in call.sources : Point(l) \in Rects /\ Point(l) \in Covering(l)
<1>1. call.entries \in SUBSET call.sources /\ call.sources \subseteq Nat
  BY DEF CallOk
<1>2. IsFiniteSet(call.entries)
  BY <1>1, FS_Subset DEF CallOk
<1>3. ASSUME NEW l \in call.sources PROVE Point(l) \in Rects /\ Point(l) \in Covering(l)
  <2>1. At(l) \in Int \X Int
    BY DEF CallOk
  <2>2. Point(l) \in Rects
    BY <2>1 DEF Point, Rects
  <2> QED BY <2>2 DEF Covering, SourcesIn, Point
<1> QED BY <1>1, <1>2, <1>3

LEMMA NoRectIsValid == NoRect \in ValidRects /\ \A l : NoRect \notin Covering(l)
BY DEF NoRect, ValidRects, Rects, ValidRect, SourcesIn, Covering

LEMMA UnionFacts ==
    ASSUME NEW r \in Rects, NEW s \in Rects
    PROVE  /\ Union(r, s) \in Rects /\ Union(r, s) = Union(s, r)
           /\ Union(NoRect, s) = s
           /\ Inside(r, Union(r, s)) /\ Inside(s, Union(r, s))
           /\ \A l : r \in Covering(l) \/ s \in Covering(l) => Union(r, s) \in Covering(l)
           /\ \A t \in Rects : Inside(r, s) => Inside(Union(t, r), Union(t, s))
<1>1. Union(r, s) \in Rects
  BY DEF Union, Rects
<1>2. Union(r, s) = Union(s, r)
  BY DEF Union
<1>3. Union(NoRect, s) = s
  BY DEF Union, NoRect, Rects
<1>4. Inside(r, Union(r, s)) /\ Inside(s, Union(r, s))
  BY DEF Union, Inside
<1>5. \A l : r \in Covering(l) \/ s \in Covering(l) => Union(r, s) \in Covering(l)
  BY <1>1 DEF Covering, SourcesIn, Union
<1>6. \A t \in Rects : Inside(r, s) => Inside(Union(t, r), Union(t, s))
  BY DEF Union, Inside
<1> QED BY <1>1, <1>2, <1>3, <1>4, <1>5, <1>6

\* On a bus that leads away from its sources, a part of a rectangle that can be
\* shot can be shot: no lane needs another one to clear its end.
LEMMA PartsAreValid ==
    ASSUME OneWay, NEW r, NEW s, Inside(r, s), ValidRect(s), CallOk
    PROVE  ValidRect(r)
<1>1. SourcesIn(r) \subseteq SourcesIn(s)
  BY DEF SourcesIn, Inside
<1>2. ASSUME NEW l \in SourcesIn(r) PROVE Cleared(r, l)
  <2>1. Cleared(s, l) /\ l \in call.sources
    BY <1>1 DEF ValidRect, SourcesIn
  <2>2. call.dest[l] \notin call.entries
    BY <2>1, CallTypes DEF OneWay
  <2> QED BY <2>1, <2>2 DEF Cleared
<1>3. \A x \in r.xs, y \in r.ys : \E l \in call.sources : At(l) = <<x, y>>
  BY DEF ValidRect, Inside
<1> QED BY <1>2, <1>3 DEF ValidRect

----------------------------------------------------------------------------
(***************************************************************************)
(* The invariant: the rectangles are valid, every movable atom is still to *)
(* be looked at or is covered, and on a one-way bus the clusters exclude   *)
(* each other and whatever is still to be looked at.                       *)
(***************************************************************************)
Listed(s, l) == \E k \in 1..Len(s) : s[k] = l

Typed ==
    /\ CallOk
    /\ phase \in {"greedy", "merge", "done"}
    /\ remaining \in Seq(call.entries) /\ leftover \in Seq(call.entries)
    /\ rect \in ValidRects /\ clusters \in Seq(ValidRects) /\ solved \in Seq(ValidRects)
    /\ pair \in Nat \X Nat /\ 1 <= pair[1] /\ pair[1] < pair[2]
    /\ consumed \subseteq merged /\ merged \subseteq 1..Len(clusters)
    /\ phase # "merge" => merged = {}
    /\ phase = "greedy" => solved = << >>

Kept(l) ==
    \/ \E k \in 1..Len(clusters) : k \notin consumed /\ clusters[k] \in Covering(l)
    \/ \E k \in 1..Len(solved) : solved[k] \in Covering(l)

Covered ==
    /\ \A l \in Movable :
         \/ phase = "greedy" /\ (Listed(remaining, l) \/ Listed(leftover, l) \/ rect \in Covering(l))
         \/ Kept(l)
    /\ rect = NoRect => \A l \in Movable : ~ Listed(leftover, l)
    /\ phase = "done" => clusters = << >>

Exclusive ==
    OneWay =>
        /\ merged = {}
        /\ phase = "merge" => solved = << >>
        /\ \A i, j \in 1..Len(clusters) : i # j => <<clusters[i], clusters[j]>> \in Apart
        /\ phase = "greedy" =>
              /\ \A k \in 1..Len(clusters) : \A l \in call.entries :
                    Listed(remaining, l) \/ Listed(leftover, l) => clusters[k] \in Clashing(l)
              /\ \A l \in call.entries : Listed(leftover, l) => rect \in Clashing(l)
              /\ rect # NoRect => \A k \in 1..Len(clusters) : <<clusters[k], rect>> \in Apart
        /\ phase = "done" =>
              \A i, j \in 1..Len(solved) : i # j => <<solved[i], solved[j]>> \in Apart

GridInv == Typed /\ Covered /\ Exclusive
----------------------------------------------------------------------------
(***************************************************************************)
(* Sequences.                                                              *)
(***************************************************************************)
LEMMA AppendMembers ==
    ASSUME NEW S, NEW s \in Seq(S), NEW e \in S
    PROVE  /\ Append(s, e) \in Seq(S) /\ Len(Append(s, e)) = Len(s) + 1
           /\ \A k \in 1..Len(s) : Append(s, e)[k] = s[k]
           /\ Append(s, e)[Len(s) + 1] = e
           /\ \A l : Listed(Append(s, e), l) <=> Listed(s, l) \/ l = e
<1>1. /\ Append(s, e) \in Seq(S) /\ Len(Append(s, e)) = Len(s) + 1
      /\ \A k \in 1..Len(s) : Append(s, e)[k] = s[k]
      /\ Append(s, e)[Len(s) + 1] = e
      /\ Len(s) \in Nat
  OBVIOUS
<1>2. ASSUME NEW l PROVE Listed(Append(s, e), l) <=> Listed(s, l) \/ l = e
  BY <1>1 DEF Listed
<1> QED BY <1>1, <1>2

LEMMA TailMembers ==
    ASSUME NEW S, NEW s \in Seq(S), s # << >>
    PROVE  /\ Tail(s) \in Seq(S) /\ Head(s) \in S /\ Listed(s, Head(s))
           /\ \A l : Listed(s, l) <=> l = Head(s) \/ Listed(Tail(s), l)
<1>1. /\ Tail(s) \in Seq(S) /\ Len(Tail(s)) = Len(s) - 1 /\ Len(s) \in Nat /\ Len(s) >= 1
      /\ Head(s) = s[1] /\ \A k \in 1..(Len(s) - 1) : Tail(s)[k] = s[k + 1]
      /\ Head(s) \in S
  OBVIOUS
<1>2. ASSUME NEW l, Listed(s, l) PROVE l = Head(s) \/ Listed(Tail(s), l)
  <2>1. PICK k \in 1..Len(s) : s[k] = l
    BY <1>2 DEF Listed
  <2>2. CASE k = 1
    BY <2>1, <2>2, <1>1
  <2>3. CASE k # 1
    <3>1. k - 1 \in 1..(Len(s) - 1) /\ Tail(s)[k - 1] = l
      BY <2>1, <2>3, <1>1
    <3> QED BY <3>1, <1>1 DEF Listed
  <2> QED BY <2>2, <2>3
<1>3. ASSUME NEW l, Listed(Tail(s), l) PROVE Listed(s, l)
  <2>1. PICK k \in 1..(Len(s) - 1) : Tail(s)[k] = l
    BY <1>1, <1>3 DEF Listed
  <2>2. k + 1 \in 1..Len(s) /\ s[k + 1] = l
    BY <2>1, <1>1
  <2> QED BY <2>2 DEF Listed
<1>4. Listed(s, Head(s))
  <2>1. 1 \in 1..Len(s) /\ s[1] = Head(s)
    BY <1>1
  <2> QED BY <2>1 DEF Listed
<1> QED BY <1>1, <1>2, <1>3, <1>4

\* The clusters at a set of indices: those, each of them once.
LEMMA ClustersOfMembers ==
    ASSUME NEW T, clusters \in Seq(T), NEW S \in SUBSET (1..Len(clusters))
    PROVE  /\ ClustersOf(S) \in Seq(T)
           /\ \A m \in S : \E k \in 1..Len(ClustersOf(S)) : ClustersOf(S)[k] = clusters[m]
           /\ \A i, j \in 1..Len(ClustersOf(S)) :
                i # j => \E m, n \in S : /\ m # n /\ ClustersOf(S)[i] = clusters[m]
                                         /\ ClustersOf(S)[j] = clusters[n]
<1> DEFINE n == Cardinality(S)
           chosen == Ordered(S)
<1>1. S \in SUBSET Nat /\ IsFiniteSet(S)
  <2>1. Len(clusters) \in Nat
    OBVIOUS
  <2>2. IsFiniteSet(1..Len(clusters))
    BY <2>1, FS_Interval
  <2>3. IsFiniteSet(S)
    BY <2>2, FS_Subset
  <2>4. S \in SUBSET Nat
    BY <2>1
  <2> QED BY <2>3, <2>4
<1>2. /\ n \in Nat /\ chosen \in [1..n -> S]
      /\ \A i, j \in 1..n : chosen[i] = chosen[j] => i = j
      /\ \A m \in S : \E i \in 1..n : chosen[i] = m
  BY <1>1, OrderedIsFair
<1>3. ClustersOf(S) = [k \in 1..n |-> clusters[chosen[k]]]
  BY DEF ClustersOf
<1> HIDE DEF n, chosen
<1>4. ClustersOf(S) \in Seq(T) /\ Len(ClustersOf(S)) = n
  <2>1. ASSUME NEW k \in 1..n PROVE clusters[chosen[k]] \in T
    <3>1. chosen[k] \in 1..Len(clusters)
      BY <1>2
    <3> QED BY <3>1
  <2> QED BY <2>1, <1>2, <1>3
<1>5. \A m \in S : \E k \in 1..n : ClustersOf(S)[k] = clusters[m]
  BY <1>2, <1>3
<1>6. ASSUME NEW i \in 1..n, NEW j \in 1..n, i # j
      PROVE  \E m, o \in S : m # o /\ ClustersOf(S)[i] = clusters[m] /\ ClustersOf(S)[j] = clusters[o]
  <2>1. /\ chosen[i] \in S /\ chosen[j] \in S /\ chosen[i] # chosen[j]
        /\ ClustersOf(S)[i] = clusters[chosen[i]] /\ ClustersOf(S)[j] = clusters[chosen[j]]
    BY <1>2, <1>3, <1>6
  <2> QED BY <2>1
<1> QED BY <1>4, <1>5, <1>6

----------------------------------------------------------------------------
THEOREM InitGridInv == Init => GridInv
<1> SUFFICES ASSUME Init PROVE GridInv
  OBVIOUS
<1> USE DEF Init
<1>1. CallOk /\ call.entries \in SUBSET Nat /\ IsFiniteSet(call.entries)
  BY CallsAreOk, CallTypes
<1>2. /\ remaining \in Seq(call.entries)
      /\ \A l \in call.entries : Listed(remaining, l)
  <2> DEFINE n == Cardinality(call.entries)
  <2>1. /\ n \in Nat /\ remaining \in [1..n -> call.entries]
        /\ \A l \in call.entries : \E i \in 1..n : remaining[i] = l
    BY <1>1, OrderedIsFair
  <2>2. remaining \in Seq(call.entries) /\ Len(remaining) = n
    BY <2>1
  <2> QED BY <2>1, <2>2 DEF Listed
<1>3. Typed
  BY <1>1, <1>2, NoRectIsValid DEF Typed
<1>4. Covered
  BY <1>1, <1>2 DEF Covered, Movable, Listed, Kept
<1>5. Exclusive
  BY <1>1, <1>2 DEF Exclusive, Listed
<1> QED BY <1>3, <1>4, <1>5 DEF GridInv
----------------------------------------------------------------------------
(***************************************************************************)
(* Grow: an entry is covered, joins the rectangle, or is left over.        *)
(***************************************************************************)
LEMMA GrowStep == GridInv /\ Grow => GridInv'
<1> SUFFICES ASSUME GridInv, Grow PROVE GridInv'
  OBVIOUS
<1> DEFINE l == Head(remaining)
           larger == Union(rect, Point(l))
<1>1. /\ phase = "greedy" /\ remaining # << >> /\ remaining' = Tail(remaining)
      /\ UNCHANGED <<call, phase, clusters, pair, consumed, merged, solved>>
      /\ \/ rect \in Covering(l) /\ UNCHANGED <<rect, leftover>>
         \/ ValidRect(larger) /\ rect' = larger /\ UNCHANGED leftover
         \/ ~ ValidRect(larger) /\ leftover' = Append(leftover, l) /\ UNCHANGED rect
  BY DEF GridInv, Typed, ValidRects, Grow, Fits, LeftOver, Covering
<1>2. /\ CallOk /\ rect \in Rects /\ leftover \in Seq(call.entries)
      /\ remaining \in Seq(call.entries)
  BY DEF GridInv, Typed, ValidRects
<1>3. /\ Tail(remaining) \in Seq(call.entries) /\ l \in call.entries /\ Listed(remaining, l)
      /\ \A m : Listed(remaining, m) <=> m = l \/ Listed(Tail(remaining), m)
  BY <1>1, <1>2, TailMembers
<1>4. /\ Append(leftover, l) \in Seq(call.entries)
      /\ \A m : Listed(Append(leftover, l), m) <=> Listed(leftover, m) \/ m = l
  BY <1>2, <1>3, AppendMembers
<1>5. /\ Point(l) \in Rects /\ Point(l) \in Covering(l)
      /\ larger \in Rects /\ larger \in Covering(l)
      /\ Inside(rect, larger) /\ Inside(Point(l), larger)
      /\ \A m : rect \in Covering(m) => larger \in Covering(m)
      /\ rect = NoRect => larger = Point(l)
  BY <1>2, <1>3, CallTypes, UnionFacts
<1>6. larger # NoRect
  BY <1>5, NoRectIsValid
<1>7. /\ ValidRects' = ValidRects /\ Apart' = Apart /\ Movable' = Movable
      /\ \A m : Covering(m)' = Covering(m) /\ Clashing(m)' = Clashing(m)
      /\ OneWay' = OneWay /\ call' = call /\ CallOk' = CallOk
  BY <1>1, SameCall
<1> HIDE DEF l, larger
<1>8. rect' \in ValidRects
  BY <1>1, <1>5 DEF GridInv, Typed, ValidRects
<1>9. leftover' \in Seq(call.entries) /\ \A m : Listed(leftover', m) => Listed(leftover, m) \/ m = l
  BY <1>1, <1>2, <1>4
<1>10. Typed'
  BY <1>1, <1>3, <1>7, <1>8, <1>9 DEF GridInv, Typed
<1>11. Covered'
  <2>1. ASSUME NEW m \in Movable
        PROVE  Listed(remaining', m) \/ Listed(leftover', m) \/ rect' \in Covering(m) \/ Kept(m)
    <3>1. Listed(remaining, m) \/ Listed(leftover, m) \/ rect \in Covering(m) \/ Kept(m)
      BY DEF GridInv, Covered
    <3>2. CASE Listed(remaining, m)
      BY <3>2, <1>1, <1>3, <1>4, <1>5
    <3>3. CASE Listed(leftover, m)
      BY <3>3, <1>1, <1>4
    <3>4. CASE rect \in Covering(m)
      BY <3>4, <1>1, <1>5
    <3> QED BY <3>1, <3>2, <3>3, <3>4
  <2>2. ASSUME rect' = NoRect, NEW m \in Movable PROVE ~ Listed(leftover', m)
    <3>1. rect = NoRect
      BY <2>2, <1>1, <1>6
    <3>2. ~ Listed(leftover, m)
      BY <3>1 DEF GridInv, Covered
    <3>3. ASSUME m = l PROVE leftover' = leftover
      <4>1. ValidRect(larger)
        BY <3>1, <3>3, <1>5 DEF Movable
      <4> QED BY <4>1, <1>1
    <3> QED BY <3>2, <3>3, <1>9
  <2>3. \A m : Kept(m)' = Kept(m)
    BY <1>1, <1>7 DEF Kept
  <2> QED BY <2>1, <2>2, <2>3, <1>1, <1>7 DEF Covered
<1>12. Exclusive'
  <2> SUFFICES ASSUME OneWay PROVE Exclusive'
    BY <1>7 DEF Exclusive
  <2>1. /\ merged = {}
        /\ \A i, j \in 1..Len(clusters) : i # j => <<clusters[i], clusters[j]>> \in Apart
        /\ \A k \in 1..Len(clusters) : \A m \in call.entries :
              Listed(remaining, m) \/ Listed(leftover, m) => clusters[k] \in Clashing(m)
        /\ \A m \in call.entries : Listed(leftover, m) => rect \in Clashing(m)
        /\ rect # NoRect => \A k \in 1..Len(clusters) : <<clusters[k], rect>> \in Apart
    BY <1>1 DEF GridInv, Exclusive
  <2>2. \A k \in 1..Len(clusters) : clusters[k] \in Rects
    BY DEF GridInv, Typed, ValidRects
  <2>3. ASSUME NEW k \in 1..Len(clusters), NEW m \in call.entries,
               Listed(remaining', m) \/ Listed(leftover', m)
        PROVE  clusters[k] \in Clashing(m)
    BY <2>1, <2>3, <1>1, <1>3, <1>9
  <2>4. ASSUME NEW m \in call.entries, Listed(leftover', m) PROVE rect' \in Clashing(m)
    <3>1. CASE Listed(leftover, m) /\ rect' = rect
      BY <3>1, <2>1
    <3>2. CASE Listed(leftover, m) /\ rect' = larger
      <4>1. ~ ValidRect(Union(rect, Point(m))) /\ Point(m) \in Rects
        BY <3>2, <2>1, <1>2, CallTypes DEF Clashing
      <4>2. Inside(Union(rect, Point(m)), Union(larger, Point(m)))
        BY <4>1, <1>2, <1>5, UnionFacts
      <4>3. ~ ValidRect(Union(larger, Point(m)))
        BY <4>1, <4>2, <1>2, PartsAreValid
      <4> QED BY <4>3, <3>2, <1>5 DEF Clashing
    <3>3. CASE ~ Listed(leftover, m)
      <4>1. m = l /\ ~ ValidRect(larger) /\ rect' = rect
        BY <3>3, <2>4, <1>1, <1>9
      <4> QED BY <4>1, <1>2 DEF Clashing, larger
    <3> QED BY <3>1, <3>2, <3>3, <1>1
  <2>5. ASSUME rect' # NoRect, NEW k \in 1..Len(clusters) PROVE <<clusters[k], rect'>> \in Apart
    <3>1. CASE rect' = rect
      BY <3>1, <2>5, <2>1
    <3>2. CASE rect' = larger
      <4>1. ~ ValidRect(Union(clusters[k], Point(l)))
        BY <2>1, <1>3 DEF Clashing
      <4>2. Inside(Union(clusters[k], Point(l)), Union(clusters[k], larger))
        BY <2>2, <1>5, UnionFacts
      <4>3. ~ ValidRect(Union(clusters[k], larger))
        BY <4>1, <4>2, <1>2, PartsAreValid
      <4> QED BY <4>3, <3>2, <2>2, <1>5 DEF Apart
    <3> QED BY <3>1, <3>2, <1>1
  <2> QED BY <2>1, <2>3, <2>4, <2>5, <1>1, <1>7 DEF Exclusive
<1> QED BY <1>10, <1>11, <1>12 DEF GridInv

(***************************************************************************)
(* EndRound: the rectangle, if there is one, becomes a cluster.            *)
(***************************************************************************)
LEMMA EndRoundStep == GridInv /\ EndRound => GridInv'
<1> SUFFICES ASSUME GridInv, EndRound PROVE GridInv'
  OBVIOUS
<1>1. /\ phase = "greedy" /\ remaining = << >> /\ rect' = NoRect
      /\ remaining' = leftover /\ leftover' = << >>
      /\ UNCHANGED <<call, pair, consumed, merged, solved>>
      /\ clusters' = IF rect = NoRect THEN clusters ELSE Append(clusters, rect)
      /\ phase' = IF rect = NoRect \/ leftover = << >> THEN "merge" ELSE "greedy"
  BY DEF EndRound
<1>2. /\ rect \in ValidRects /\ clusters \in Seq(ValidRects) /\ Len(clusters) \in Nat
      /\ merged = {} /\ consumed = {}
  BY <1>1 DEF GridInv, Typed
<1>3. /\ ValidRects' = ValidRects /\ Apart' = Apart /\ Movable' = Movable
      /\ \A m : Covering(m)' = Covering(m) /\ Clashing(m)' = Clashing(m)
      /\ OneWay' = OneWay /\ call' = call /\ CallOk' = CallOk
  BY <1>1, SameCall
<1>4. /\ Append(clusters, rect) \in Seq(ValidRects)
      /\ Len(Append(clusters, rect)) = Len(clusters) + 1
      /\ \A k \in 1..Len(clusters) : Append(clusters, rect)[k] = clusters[k]
      /\ Append(clusters, rect)[Len(clusters) + 1] = rect
  BY <1>2, AppendMembers
<1>5. \A m : ~ Listed(<< >>, m)
  BY DEF Listed
<1>6. Typed'
  <2>1. clusters' \in Seq(ValidRects)
    BY <1>1, <1>2, <1>4
  <2>2. remaining' \in Seq(call.entries) /\ leftover' \in Seq(call.entries)
    BY <1>1 DEF GridInv, Typed
  <2> QED BY <1>1, <1>2, <1>3, <2>1, <2>2, NoRectIsValid DEF GridInv, Typed
<1>7. Covered'
  <2>1. ASSUME NEW m \in Movable
        PROVE  (phase' = "greedy" /\ Listed(remaining', m)) \/ Kept(m)'
    <3>1. Listed(leftover, m) \/ rect \in Covering(m) \/ Kept(m)
      BY <1>1, <1>5 DEF GridInv, Covered
    <3>2. CASE Listed(leftover, m)
      <4>1. rect # NoRect
        BY <3>2 DEF GridInv, Covered
      <4> QED BY <3>2, <4>1, <1>1, <1>5
    <3>3. CASE rect \in Covering(m)
      <4>1. rect # NoRect
        BY <3>3, NoRectIsValid
      <4>2. Len(clusters) + 1 \in 1..Len(clusters') /\ clusters'[Len(clusters) + 1] \in Covering(m)
        BY <3>3, <4>1, <1>1, <1>2, <1>4
      <4> QED BY <4>2, <1>1, <1>2, <1>3 DEF Kept
    <3>4. CASE Kept(m)
      <4>1. ASSUME NEW k \in 1..Len(clusters)
            PROVE  k \in 1..Len(clusters') /\ clusters'[k] = clusters[k]
        BY <1>1, <1>2, <1>4
      <4> QED BY <3>4, <4>1, <1>1, <1>3 DEF Kept
    <3> QED BY <3>1, <3>2, <3>3, <3>4
  <2> QED BY <2>1, <1>1, <1>3, <1>5 DEF Covered
<1>8. Exclusive'
  <2> SUFFICES ASSUME OneWay PROVE Exclusive'
    BY <1>3 DEF Exclusive
  <2>1. /\ \A i, j \in 1..Len(clusters) : i # j => <<clusters[i], clusters[j]>> \in Apart
        /\ \A k \in 1..Len(clusters) : \A m \in call.entries :
              Listed(leftover, m) => clusters[k] \in Clashing(m)
        /\ \A m \in call.entries : Listed(leftover, m) => rect \in Clashing(m)
        /\ rect # NoRect => \A k \in 1..Len(clusters) : <<clusters[k], rect>> \in Apart
    BY <1>1 DEF GridInv, Exclusive
  <2>2. ASSUME NEW k \in 1..Len(clusters'), NEW m \in call.entries, Listed(leftover, m)
        PROVE  clusters'[k] \in Clashing(m)
    <3>1. clusters'[k] = rect \/ (k \in 1..Len(clusters) /\ clusters'[k] = clusters[k])
      BY <1>1, <1>2, <1>4
    <3> QED BY <3>1, <2>1, <2>2
  <2>3. ASSUME NEW i \in 1..Len(clusters'), NEW j \in 1..Len(clusters'), i # j
        PROVE  <<clusters'[i], clusters'[j]>> \in Apart
    <3>1. CASE rect = NoRect
      BY <3>1, <2>1, <2>3, <1>1
    <3>2. CASE rect # NoRect
      <4>1. \A k \in 1..Len(clusters) : <<rect, clusters[k]>> \in Apart
        <5>1. \A k \in 1..Len(clusters) : clusters[k] \in Rects /\ rect \in Rects
          BY <1>2 DEF ValidRects
        <5> QED BY <5>1, <3>2, <2>1, UnionFacts DEF Apart
      <4>2. /\ i \in 1..Len(clusters) \/ i = Len(clusters) + 1
            /\ j \in 1..Len(clusters) \/ j = Len(clusters) + 1
        BY <3>2, <1>1, <1>2, <1>4
      <4> QED BY <4>1, <4>2, <3>2, <2>1, <2>3, <1>1, <1>4
    <3> QED BY <3>1, <3>2
  <2>4. solved' = << >>
    BY <1>1 DEF GridInv, Typed
  <2> QED BY <2>2, <2>3, <2>4, <1>1, <1>2, <1>3, <1>5 DEF Exclusive
<1> QED BY <1>6, <1>7, <1>8 DEF GridInv
(***************************************************************************)
(* TryPair: one cluster absorbs another, or neither changes.               *)
(***************************************************************************)
LEMMA TryPairStep == GridInv /\ TryPair => GridInv'
<1> SUFFICES ASSUME GridInv, TryPair PROVE GridInv'
  OBVIOUS
<1> DEFINE i == pair[1]
           j == pair[2]
           union == Union(clusters[i], clusters[j])
<1>1. /\ phase = "merge" /\ pair' = NextPair
      /\ UNCHANGED <<call, phase, remaining, leftover, rect, solved>>
      /\ \/ UNCHANGED <<clusters, consumed, merged>>
         \/ /\ i \notin consumed /\ j \notin consumed /\ ValidRect(union)
            /\ clusters' = [clusters EXCEPT ![i] = union]
            /\ consumed' = consumed \cup {j} /\ merged' = merged \cup {i, j}
  BY DEF TryPair
<1>2. /\ clusters \in Seq(ValidRects) /\ Len(clusters) \in Nat
      /\ pair \in Nat \X Nat /\ i \in 1..Len(clusters) /\ j \in 1..Len(clusters) /\ i < j
  BY DEF GridInv, Typed, TryPair
<1>3. /\ ValidRects' = ValidRects /\ Apart' = Apart /\ Movable' = Movable
      /\ \A m : Covering(m)' = Covering(m) /\ Clashing(m)' = Clashing(m)
      /\ OneWay' = OneWay /\ call' = call /\ CallOk' = CallOk
  BY <1>1, SameCall
<1>4. /\ clusters[i] \in Rects /\ clusters[j] \in Rects /\ union \in Rects
      /\ \A m : clusters[i] \in Covering(m) \/ clusters[j] \in Covering(m) => union \in Covering(m)
  <2>1. clusters[i] \in Rects /\ clusters[j] \in Rects
    BY <1>2 DEF ValidRects
  <2> QED BY <2>1, UnionFacts
<1>5. pair' \in Nat \X Nat /\ 1 <= pair'[1] /\ pair'[1] < pair'[2]
  BY <1>1, <1>2 DEF GridInv, Typed, NextPair
<1> HIDE DEF i, j, union
<1>6. /\ clusters' \in Seq(ValidRects) /\ Len(clusters') = Len(clusters)
      /\ consumed' \subseteq merged' /\ merged' \subseteq 1..Len(clusters)
  <2>1. CASE UNCHANGED <<clusters, consumed, merged>>
    BY <2>1 DEF GridInv, Typed
  <2>2. CASE /\ ValidRect(union) /\ clusters' = [clusters EXCEPT ![i] = union]
             /\ consumed' = consumed \cup {j} /\ merged' = merged \cup {i, j}
    <3>1. union \in ValidRects
      BY <2>2, <1>4 DEF ValidRects
    <3> QED BY <3>1, <2>2, <1>2 DEF GridInv, Typed
  <2> QED BY <1>1, <2>1, <2>2
<1>7. Typed'
  BY <1>1, <1>3, <1>5, <1>6 DEF GridInv, Typed
<1>8. Covered'
  <2>1. ASSUME NEW m \in Movable PROVE Kept(m)'
    <3>1. Kept(m)
      BY <1>1 DEF GridInv, Covered
    <3>2. CASE UNCHANGED <<clusters, consumed, merged>>
      BY <3>1, <3>2, <1>1, <1>3 DEF Kept
    <3>3. CASE /\ i \notin consumed /\ clusters' = [clusters EXCEPT ![i] = union]
               /\ consumed' = consumed \cup {j}
      <4>1. CASE \E k \in 1..Len(solved) : solved[k] \in Covering(m)
        BY <4>1, <1>1, <1>3 DEF Kept
      <4>2. ASSUME NEW k \in 1..Len(clusters), k \notin consumed, clusters[k] \in Covering(m)
            PROVE  \E n \in 1..Len(clusters') : n \notin consumed' /\ clusters'[n] \in Covering(m)
        <5>1. CASE k = i \/ k = j
          <6>1. clusters'[i] \in Covering(m) /\ i \notin consumed'
            BY <5>1, <4>2, <3>3, <1>2, <1>4
          <6> QED BY <6>1, <1>2, <1>6
        <5>2. CASE k # i /\ k # j
          <6>1. clusters'[k] \in Covering(m) /\ k \notin consumed'
            BY <5>2, <4>2, <3>3, <1>2
          <6> QED BY <6>1, <1>6
        <5> QED BY <5>1, <5>2
      <4> QED BY <3>1, <4>1, <4>2, <1>1, <1>3 DEF Kept
    <3> QED BY <1>1, <3>2, <3>3
  <2> QED BY <2>1, <1>1, <1>3 DEF GridInv, Covered
<1>9. Exclusive'
  <2> SUFFICES ASSUME OneWay PROVE Exclusive'
    BY <1>3 DEF Exclusive
  <2>1. <<clusters[i], clusters[j]>> \in Apart
    BY <1>2 DEF GridInv, Exclusive
  <2>2. UNCHANGED <<clusters, consumed, merged>>
    BY <2>1, <1>1 DEF Apart, union
  <2> QED BY <2>2, <1>1, <1>3 DEF GridInv, Exclusive
<1> QED BY <1>7, <1>8, <1>9 DEF GridInv

\* A sequence that has the clusters at a set of indices, each of them once.
Picks(s, S) ==
    /\ s \in Seq(ValidRects)
    /\ \A m \in S : \E k \in 1..Len(s) : s[k] = clusters[m]
    /\ \A i, j \in 1..Len(s) :
          i # j => \E m, n \in S : m # n /\ s[i] = clusters[m] /\ s[j] = clusters[n]

(***************************************************************************)
(* EndPass: the clusters that did not merge are solved, the others stay.   *)
(***************************************************************************)
LEMMA EndPassStep == GridInv /\ EndPass => GridInv'
<1> SUFFICES ASSUME GridInv, EndPass PROVE GridInv'
  OBVIOUS
<1> DEFINE I == 1..Len(clusters)
           left == ClustersOf(I \ consumed)
           loners == ClustersOf(I \ merged)
           stay == ClustersOf(merged \ consumed)
<1>1. /\ phase = "merge" /\ pair' = <<1, 2>> /\ consumed' = {} /\ merged' = {}
      /\ UNCHANGED <<call, remaining, leftover, rect>>
      /\ \/ /\ merged = {} /\ solved' = solved \o left
            /\ clusters' = << >> /\ phase' = "done"
         \/ /\ merged # {} /\ solved' = solved \o loners
            /\ clusters' = stay /\ phase' = phase
  BY DEF EndPass, PromoteLoners
<1>2. /\ clusters \in Seq(ValidRects) /\ solved \in Seq(ValidRects)
      /\ consumed \subseteq merged /\ merged \subseteq I
  BY DEF GridInv, Typed
<1>3. /\ ValidRects' = ValidRects /\ Apart' = Apart /\ Movable' = Movable
      /\ \A m : Covering(m)' = Covering(m) /\ Clashing(m)' = Clashing(m)
      /\ OneWay' = OneWay /\ call' = call /\ CallOk' = CallOk
  BY <1>1, SameCall
<1>4. Picks(left, I \ consumed) /\ Picks(loners, I \ merged) /\ Picks(stay, merged \ consumed)
  <2>1. \A S \in SUBSET (1..Len(clusters)) : Picks(ClustersOf(S), S)
    BY <1>2, ClustersOfMembers DEF Picks
  <2>2. (I \ consumed) \in SUBSET I /\ (I \ merged) \in SUBSET I /\ (merged \ consumed) \in SUBSET I
    BY <1>2
  <2> QED BY <2>1, <2>2
<1>5. /\ left \in Seq(ValidRects) /\ loners \in Seq(ValidRects) /\ stay \in Seq(ValidRects)
      /\ \A m \in I \ consumed : \E k \in 1..Len(left) : left[k] = clusters[m]
      /\ \A m \in I \ merged : \E k \in 1..Len(loners) : loners[k] = clusters[m]
      /\ \A m \in merged \ consumed : \E k \in 1..Len(stay) : stay[k] = clusters[m]
  <2> HIDE DEF I, left, loners, stay
  <2> QED BY <1>4 DEF Picks
<1> HIDE DEF I, left, loners, stay
<1>6. /\ solved \o left \in Seq(ValidRects) /\ solved \o loners \in Seq(ValidRects)
      /\ \A k \in 1..Len(solved) :
            /\ \E m \in 1..Len(solved \o left) : (solved \o left)[m] = solved[k]
            /\ \E m \in 1..Len(solved \o loners) : (solved \o loners)[m] = solved[k]
      /\ \A k \in 1..Len(left) : \E m \in 1..Len(solved \o left) : (solved \o left)[m] = left[k]
      /\ \A k \in 1..Len(loners) : \E m \in 1..Len(solved \o loners) : (solved \o loners)[m] = loners[k]
  <2>1. solved \in Seq(ValidRects) /\ left \in Seq(ValidRects) /\ loners \in Seq(ValidRects)
    BY <1>2, <1>5
  <2>2. ASSUME NEW t \in Seq(ValidRects)
        PROVE  /\ solved \o t \in Seq(ValidRects)
               /\ \A k \in 1..Len(solved) : \E m \in 1..Len(solved \o t) : (solved \o t)[m] = solved[k]
               /\ \A k \in 1..Len(t) : \E m \in 1..Len(solved \o t) : (solved \o t)[m] = t[k]
    <3>1. /\ solved \o t \in Seq(ValidRects) /\ Len(solved) \in Nat /\ Len(t) \in Nat
          /\ Len(solved \o t) = Len(solved) + Len(t)
      BY <2>1
    <3>2. ASSUME NEW k \in 1..Len(solved) PROVE \E m \in 1..Len(solved \o t) : (solved \o t)[m] = solved[k]
      <4>1. k \in 1..Len(solved \o t) /\ (solved \o t)[k] = solved[k]
        BY <2>1, <3>1
      <4> QED BY <4>1
    <3>3. ASSUME NEW k \in 1..Len(t) PROVE \E m \in 1..Len(solved \o t) : (solved \o t)[m] = t[k]
      <4>1. Len(solved) + k \in 1..Len(solved \o t) /\ (solved \o t)[Len(solved) + k] = t[k]
        BY <2>1, <3>1
      <4> QED BY <4>1
    <3> QED BY <3>1, <3>2, <3>3
  <2> QED BY <2>1, <2>2, Zenon
<1>7. Typed'
  <2>1. << >> \in Seq(ValidRects)
    OBVIOUS
  <2>2. solved' \in Seq(ValidRects) /\ clusters' \in Seq(ValidRects)
    BY <1>1, <1>5, <1>6, <2>1, Zenon
  <2> QED BY <2>1, <2>2, <1>1, <1>3 DEF GridInv, Typed
<1>8. Covered'
  <2>1. ASSUME NEW m \in Movable PROVE Kept(m)'
    <3>1. (\E k \in I : k \notin consumed /\ clusters[k] \in Covering(m))
          \/ (\E k \in 1..Len(solved) : solved[k] \in Covering(m))
      BY <1>1 DEF GridInv, Covered, Kept, I
    <3>2. CASE \E k \in 1..Len(solved) : solved[k] \in Covering(m)
      <4>1. \E k \in 1..Len(solved') : solved'[k] \in Covering(m)
        BY <3>2, <1>1, <1>6
      <4> QED BY <4>1, <1>3 DEF Kept
    <3>3. ASSUME NEW k \in I, k \notin consumed, clusters[k] \in Covering(m) PROVE Kept(m)'
      <4>1. CASE merged = {}
        <5>1. \E n \in 1..Len(left) : left[n] \in Covering(m)
          BY <3>3, <1>5
        <5>2. \E n \in 1..Len(solved') : solved'[n] \in Covering(m)
          BY <5>1, <4>1, <1>1, <1>6
        <5> QED BY <5>2, <1>3 DEF Kept
      <4>2. CASE merged # {} /\ k \notin merged
        <5>1. \E n \in 1..Len(loners) : loners[n] \in Covering(m)
          BY <3>3, <4>2, <1>5
        <5>2. \E n \in 1..Len(solved') : solved'[n] \in Covering(m)
          BY <5>1, <4>2, <1>1, <1>6
        <5> QED BY <5>2, <1>3 DEF Kept
      <4>3. CASE merged # {} /\ k \in merged
        <5>1. \E n \in 1..Len(stay) : stay[n] \in Covering(m)
          BY <3>3, <4>3, <1>5
        <5>2. \E n \in 1..Len(clusters') : n \notin consumed' /\ clusters'[n] \in Covering(m)
          BY <5>1, <4>3, <1>1
        <5> QED BY <5>2, <1>3 DEF Kept
      <4> QED BY <4>1, <4>2, <4>3
    <3> QED BY <3>1, <3>2, <3>3
  <2> QED BY <2>1, <1>1, <1>3 DEF GridInv, Covered
<1>9. Exclusive'
  <2> SUFFICES ASSUME OneWay PROVE Exclusive'
    BY <1>3 DEF Exclusive
  <2>1. /\ merged = {} /\ solved = << >>
        /\ \A i, j \in I : i # j => <<clusters[i], clusters[j]>> \in Apart
    BY <1>1 DEF GridInv, Exclusive, I
  <2>2. solved' = left /\ clusters' = << >> /\ phase' = "done"
    <3>1. << >> \o left = left
      BY <1>5
    <3> QED BY <3>1, <2>1, <1>1
  <2>3. \A i, j \in 1..Len(solved') : i # j => <<solved'[i], solved'[j]>> \in Apart
    <3>1. ASSUME NEW m \in 1..Len(left), NEW n \in 1..Len(left), m # n
          PROVE  <<left[m], left[n]>> \in Apart
      <4>1. PICK o \in I \ consumed, q \in I \ consumed :
                   o # q /\ left[m] = clusters[o] /\ left[n] = clusters[q]
        BY <1>4, <3>1 DEF Picks
      <4> QED BY <4>1, <2>1
    <3> QED BY <3>1, <2>2
  <2> QED BY <2>2, <2>3, <1>1, <1>3 DEF Exclusive
<1> QED BY <1>7, <1>8, <1>9 DEF GridInv

----------------------------------------------------------------------------
(***************************************************************************)
(* The theorems.                                                           *)
(***************************************************************************)

\* The invariant of build_aod_grids: every rectangle can be shot, every movable
\* atom is still to be looked at or is in one, and on a one-way bus the clusters
\* exclude each other.
THEOREM GridInvariant == Spec => []GridInv
<1>1. Init => GridInv
  BY InitGridInv
<1>2. GridInv /\ [Next]_vars => GridInv'
  <2> SUFFICES ASSUME GridInv, [Next]_vars PROVE GridInv'
    OBVIOUS
  <2>1. CASE Grow
    BY <2>1, GrowStep
  <2>2. CASE EndRound
    BY <2>2, EndRoundStep
  <2>3. CASE TryPair
    BY <2>3, TryPairStep
  <2>4. CASE EndPass
    BY <2>4, EndPassStep
  <2>5. CASE UNCHANGED vars
    <3>1. /\ ValidRects' = ValidRects /\ Apart' = Apart /\ Movable' = Movable
          /\ \A m : Covering(m)' = Covering(m) /\ Clashing(m)' = Clashing(m)
          /\ OneWay' = OneWay /\ CallOk' = CallOk
      BY <2>5, SameCall DEF vars
    <3>2. Typed'
      BY <3>1, <2>5 DEF vars, GridInv, Typed
    <3>3. Covered'
      BY <3>1, <2>5 DEF vars, GridInv, Covered, Kept, Listed
    <3>4. Exclusive'
      BY <3>1, <2>5 DEF vars, GridInv, Exclusive, Listed
    <3> QED BY <3>2, <3>3, <3>4 DEF GridInv
  <2> QED BY <2>1, <2>2, <2>3, <2>4, <2>5 DEF Next
<1> QED BY <1>1, <1>2, PTL DEF Spec

LEMMA SafeByInvariant == GridInv => GridsSafe
<1> SUFFICES ASSUME GridInv, LeadsApart, NEW r \in Grids
             PROVE  /\ call.occupied \cap SourcesIn(r) \subseteq call.entries
                    /\ \A l, m \in call.occupied : Shot(r, l) = Shot(r, m) => l = m
  BY DEF GridsSafe
<1>1. ValidRect(r)
  BY DEF GridInv, Typed, Grids, ValidRects
<1>2. \A l \in SourcesIn(r) : Cleared(r, l) /\ l \in call.sources
  BY <1>1 DEF ValidRect, SourcesIn
<1>3. call.occupied \cap SourcesIn(r) \subseteq call.entries
  BY <1>2 DEF Cleared
<1>4. ASSUME NEW l \in SourcesIn(r), NEW m \in call.occupied, call.dest[l] = m PROVE m \in SourcesIn(r)
  BY <1>2, <1>4 DEF Cleared
<1>5. ASSUME NEW l \in call.occupied, NEW m \in call.occupied, Shot(r, l) = Shot(r, m) PROVE l = m
  <2>1. CASE l \in SourcesIn(r) /\ m \in SourcesIn(r)
    BY <2>1, <1>2, <1>5 DEF Shot, LeadsApart
  <2>2. CASE l \in SourcesIn(r) /\ m \notin SourcesIn(r)
    BY <2>2, <1>4, <1>5 DEF Shot
  <2>3. CASE l \notin SourcesIn(r) /\ m \in SourcesIn(r)
    BY <2>3, <1>4, <1>5 DEF Shot
  <2>4. CASE l \notin SourcesIn(r) /\ m \notin SourcesIn(r)
    BY <2>4, <1>5 DEF Shot
  <2> QED BY <2>1, <2>2, <2>3, <2>4
<1> QED BY <1>3, <1>5

LEMMA CoveredByInvariant == GridInv => MoversCovered
<1> SUFFICES ASSUME GridInv, phase = "done", NEW l \in call.entries, ValidRect(Point(l))
             PROVE  \E r \in Grids : l \in SourcesIn(r)
  BY DEF MoversCovered
<1>1. Kept(l) /\ clusters = << >>
  BY DEF GridInv, Covered, Movable
<1>2. PICK k \in 1..Len(solved) : solved[k] \in Covering(l)
  BY <1>1 DEF Kept
<1> QED BY <1>2 DEF Grids, Covering

LEMMA IdleByInvariant == GridInv => NothingToMerge
BY DEF GridInv, Exclusive, NothingToMerge, Apart

----------------------------------------------------------------------------
(***************************************************************************)
(* The lanes of an architecture.                                           *)
(***************************************************************************)
LanesSorted(a) ==
    /\ DOMAIN a.zones = 1..Len(a.zones) /\ Len(a.zones) \in Nat
    /\ DOMAIN a.words = 1..Len(a.words) /\ Len(a.words) \in Nat
    /\ \A type \in {"site", "word", "zone"}, z \in DOMAIN a.zones :
          /\ DOMAIN BusesOf(a, type, z) \subseteq Nat
          /\ \A b \in DOMAIN BusesOf(a, type, z) : DOMAIN BusesOf(a, type, z)[b].src \subseteq Nat

LEMMA DirectionsAre == Entries(Directions) = {"forward", "backward"}
<1>1. DOMAIN Directions = 1..2 /\ Directions[1] = "forward" /\ Directions[2] = "backward"
  BY DEF Directions
<1> QED BY <1>1 DEF Entries

LEMMA MoveTypesAre == Entries(MoveTypes) = {"site", "word", "zone"}
<1>1. /\ DOMAIN MoveTypes = 1..3
      /\ MoveTypes[1] = "site" /\ MoveTypes[2] = "word" /\ MoveTypes[3] = "zone"
  BY DEF MoveTypes
<1>2. \A i \in 1..3 : i = 1 \/ i = 2 \/ i = 3
  OBVIOUS
<1> QED BY <1>1, <1>2 DEF Entries

LEMMA LaneFields ==
    ASSUME NEW type, NEW dir, NEW bus, NEW z, NEW w, NEW s, NEW l, l = Lane(type, dir, bus, Loc(z, w, s))
    PROVE  /\ l.type = type /\ l.dir = dir /\ l.bus = bus /\ l.zone = z /\ l.word = w /\ l.site = s
           /\ Origin(l) = Loc(z, w, s) /\ Origin(l).zone = z /\ Origin(l).word = w /\ Origin(l).site = s
BY DEF Lane, Loc, Origin

\* The first of some naturals, as FirstIn returns it.
LEMMA FirstInIsOne ==
    ASSUME NEW S, S \subseteq Nat, S # {}
    PROVE  \E i \in S : FirstIn(S) = {i} /\ \A j \in S : i <= j
<1>1. PICK i \in S : \A j \in S : i <= j
  BY LeastNumber
<1>2. \A j \in FirstIn(S) : j = i
  BY <1>1 DEF FirstIn
<1> QED BY <1>1, <1>2 DEF FirstIn

LEMMA ResolvesToOne ==
    ASSUME NEW bus, NEW from, DOMAIN bus.src \subseteq Nat, ResolveForward(bus, from) # {}
    PROVE  \E i \in DOMAIN bus.src : /\ bus.src[i] = from /\ i \in DOMAIN bus.dst
                                     /\ ResolveForward(bus, from) = {bus.dst[i]}
                                     /\ \A j \in DOMAIN bus.src : bus.src[j] = from => i <= j
<1> DEFINE S == {j \in DOMAIN bus.src : bus.src[j] = from}
<1>1. S # {}
  BY DEF ResolveForward, FirstIn
<1>2. PICK i \in S : FirstIn(S) = {i} /\ \A j \in S : i <= j
  BY <1>1, FirstInIsOne
<1>3. ResolveForward(bus, from) = {bus.dst[k] : k \in {i} \cap DOMAIN bus.dst}
  BY <1>2 DEF ResolveForward
<1>4. i \in DOMAIN bus.dst
  BY <1>3
<1>5. ResolveForward(bus, from) = {bus.dst[i]}
  BY <1>3, <1>4
<1> QED BY <1>2, <1>4, <1>5

\* A lane that the validator accepts has its two ends.
LEMMA EndsAreOne ==
    ASSUME NEW a, LanesSorted(a), NEW l, l.type \in {"site", "word", "zone"}, CheckLane(a, l)
    PROVE  \E e : /\ e \in ResolveForward(BusesOf(a, l.type, l.zone)[l.bus], EndOf(l.type, Origin(l)))
                  /\ LaneEndpoints(a, l) = {Directed(l.dir, Origin(l), AddressOf(l.type, Origin(l), e))}
                  /\ EndsOf(a, l) = Directed(l.dir, Origin(l), AddressOf(l.type, Origin(l), e))
<1> DEFINE at == Origin(l)
           bus == BusesOf(a, l.type, at.zone)[l.bus]
           from == EndOf(l.type, at)
<1>0. at.zone = l.zone
  BY DEF Origin, Loc
<1>1. /\ at.zone \in DOMAIN a.zones /\ l.bus \in DOMAIN BusesOf(a, l.type, at.zone)
      /\ ResolveForward(bus, from) # {}
  BY DEF CheckLane, InRange, LanesSorted
<1>2. DOMAIN bus.src \subseteq Nat
  BY <1>1 DEF LanesSorted
<1>3. \E i \in DOMAIN bus.src : ResolveForward(bus, from) = {bus.dst[i]}
  BY <1>1, <1>2, ResolvesToOne
<1>4. PICK e : ResolveForward(bus, from) = {e}
  BY <1>3
<1>5. LaneEndpoints(a, l) = {Directed(l.dir, at, AddressOf(l.type, at, x)) : x \in ResolveForward(bus, from)}
  BY DEF LaneEndpoints
<1>6. LaneEndpoints(a, l) = {Directed(l.dir, at, AddressOf(l.type, at, e))}
  BY <1>4, <1>5
<1>7. EndsOf(a, l) = Directed(l.dir, at, AddressOf(l.type, at, e))
  BY <1>6 DEF EndsOf
<1> QED BY <1>0, <1>4, <1>6, <1>7

LEMMA OnlyCheckedEnd ==
    ASSUME NEW a, NEW l, LaneEndpoints(a, l) # {}
    PROVE  CheckLane(a, l)
BY DEF LaneEndpoints

LEMMA SiteLaneForm ==
    ASSUME NEW a, NEW z, NEW dir, NEW l
    PROVE  l \in SiteLanes(a, z, dir) <=>
             \E b \in DOMAIN a.zones[z].site_buses :
                \E w \in a.zones[z].words_with_site_buses, s \in Entries(a.zones[z].site_buses[b].src) :
                   l = Lane("site", dir, b, Loc(z, w, s))
BY DEF SiteLanes

LEMMA WordLaneForm ==
    ASSUME NEW a, NEW z, NEW dir, NEW l
    PROVE  l \in WordLanes(a, z, dir) <=>
             \E b \in DOMAIN a.zones[z].word_buses :
                \E w \in Entries(a.zones[z].word_buses[b].src), s \in a.zones[z].sites_with_word_buses :
                   l = Lane("word", dir, b, Loc(z, w, s))
BY DEF WordLanes

LEMMA IndexedForm ==
    ASSUME NEW a, NEW l
    PROVE  l \in IndexedLanes(a) <=>
             /\ LaneEndpoints(a, l) # {}
             /\ \E z \in DOMAIN a.zones, dir \in {"forward", "backward"} :
                   l \in SiteLanes(a, z, dir) \/ l \in WordLanes(a, z, dir)
<1>1. l \in UNION {SiteLanes(a, z, dir) \cup WordLanes(a, z, dir) :
                     z \in DOMAIN a.zones, dir \in Entries(Directions)}
      <=> \E z \in DOMAIN a.zones, dir \in {"forward", "backward"} :
             l \in SiteLanes(a, z, dir) \/ l \in WordLanes(a, z, dir)
  <2> DEFINE Of(z, dir) == SiteLanes(a, z, dir) \cup WordLanes(a, z, dir)
  <2> DEFINE All == {Of(z, dir) : z \in DOMAIN a.zones, dir \in Entries(Directions)}
  <2>1. ASSUME NEW S \in All, l \in S PROVE \E z \in DOMAIN a.zones, dir \in Entries(Directions) : l \in Of(z, dir)
    <3> HIDE DEF Of
    <3> QED BY <2>1
  <2>2. ASSUME NEW z \in DOMAIN a.zones, NEW dir \in Entries(Directions) PROVE Of(z, dir) \in All
    <3> HIDE DEF Of
    <3> QED OBVIOUS
  <2>3. l \in UNION All <=> \E z \in DOMAIN a.zones, dir \in Entries(Directions) : l \in Of(z, dir)
    <3> HIDE DEF Of, All
    <3> QED BY <2>1, <2>2
  <2> QED BY <2>3, DirectionsAre
<1> QED BY <1>1 DEF IndexedLanes

\* A lane of the index.
LEMMA IndexedIsLane ==
    ASSUME NEW a, NEW l \in IndexedLanes(a)
    PROVE  /\ CheckLane(a, l) /\ LaneEndpoints(a, l) # {}
           /\ l.type \in {"site", "word"} /\ l.dir \in {"forward", "backward"}
           /\ l.zone \in DOMAIN a.zones /\ l.bus \in DOMAIN BusesOf(a, l.type, l.zone)
           /\ Origin(l) = Loc(l.zone, l.word, l.site)
           /\ l = Lane(l.type, l.dir, l.bus, Origin(l))
<1>1. PICK z \in DOMAIN a.zones, dir \in {"forward", "backward"} :
             l \in SiteLanes(a, z, dir) \/ l \in WordLanes(a, z, dir)
  BY IndexedForm
<1>2. PICK b, w, s : \E type \in {"site", "word"} :
         b \in DOMAIN BusesOf(a, type, z) /\ l = Lane(type, dir, b, Loc(z, w, s))
  BY <1>1, SiteLaneForm, WordLaneForm DEF BusesOf
<1>5. PICK type \in {"site", "word"} : b \in DOMAIN BusesOf(a, type, z) /\ l = Lane(type, dir, b, Loc(z, w, s))
  BY <1>2
<1>3. /\ l.type = type /\ l.dir = dir /\ l.bus = b /\ l.zone = z /\ l.word = w /\ l.site = s
      /\ Origin(l) = Loc(z, w, s)
  BY <1>5, LaneFields
<1>4. LaneEndpoints(a, l) # {}
  BY IndexedForm
<1> QED BY <1>1, <1>3, <1>4, <1>5, OnlyCheckedEnd

\* The index holds the site and word lanes that the validator accepts.
LEMMA IndexedAreAccepted ==
    ASSUME NEW a, LanesSorted(a), NEW l
    PROVE  l \in IndexedLanes(a) <=>
             /\ CheckLane(a, l)
             /\ \E type \in {"site", "word"}, dir \in {"forward", "backward"} :
                   \E z \in DOMAIN a.zones, w \in DOMAIN a.words, s \in 1..SitesPerWord(a) :
                      \E b \in DOMAIN BusesOf(a, type, z) : l = Lane(type, dir, b, Loc(z, w, s))
<1>1. ASSUME l \in IndexedLanes(a)
      PROVE  /\ CheckLane(a, l)
             /\ \E type \in {"site", "word"}, dir \in {"forward", "backward"} :
                   \E z \in DOMAIN a.zones, w \in DOMAIN a.words, s \in 1..SitesPerWord(a) :
                      \E b \in DOMAIN BusesOf(a, type, z) : l = Lane(type, dir, b, Loc(z, w, s))
  <2>1. /\ CheckLane(a, l) /\ l.type \in {"site", "word"} /\ l.dir \in {"forward", "backward"}
        /\ l.zone \in DOMAIN a.zones /\ l.bus \in DOMAIN BusesOf(a, l.type, l.zone)
        /\ Origin(l) = Loc(l.zone, l.word, l.site) /\ l = Lane(l.type, l.dir, l.bus, Origin(l))
    BY <1>1, IndexedIsLane
  <2>2. InRange(a, Loc(l.zone, l.word, l.site))
    BY <2>1 DEF CheckLane
  <2>3. l.word \in DOMAIN a.words /\ l.site \in 1..SitesPerWord(a)
    BY <2>2 DEF InRange, Loc, LanesSorted
  <2> QED BY <2>1, <2>3
<1>2. ASSUME CheckLane(a, l), NEW type \in {"site", "word"}, NEW dir \in {"forward", "backward"},
             NEW z \in DOMAIN a.zones, NEW w, NEW s, NEW b \in DOMAIN BusesOf(a, type, z),
             l = Lane(type, dir, b, Loc(z, w, s))
      PROVE  l \in IndexedLanes(a)
  <2>1. /\ l.type = type /\ l.dir = dir /\ l.bus = b /\ l.zone = z /\ l.word = w /\ l.site = s
        /\ Origin(l) = Loc(z, w, s) /\ Origin(l).zone = z /\ Origin(l).word = w /\ Origin(l).site = s
    BY <1>2, LaneFields
  <2>2. LaneEndpoints(a, l) # {}
    <3>1. l.type \in {"site", "word", "zone"}
      BY <2>1
    <3> QED BY <1>2, <3>1, EndsAreOne
  <2>3. /\ Member(a, type, Origin(l))
        /\ ResolveForward(BusesOf(a, type, z)[b], EndOf(type, Origin(l))) # {}
    BY <1>2, <2>1 DEF CheckLane
  <2>4. EndOf(type, Origin(l)) \in Entries(BusesOf(a, type, z)[b].src)
    BY <2>3 DEF ResolveForward, FirstIn, Entries
  <2>5. CASE type = "site"
    <3>1. l \in SiteLanes(a, z, dir)
      BY <1>2, <2>1, <2>3, <2>4, <2>5, SiteLaneForm DEF BusesOf, Member, EndOf
    <3> QED BY <2>2, <3>1, IndexedForm
  <2>6. CASE type = "word"
    <3>1. l \in WordLanes(a, z, dir)
      BY <1>2, <2>1, <2>3, <2>4, <2>6, WordLaneForm DEF BusesOf, Member, EndOf
    <3> QED BY <2>2, <3>1, IndexedForm
  <2> QED BY <2>5, <2>6
<1> QED BY <1>1, <1>2

(***************************************************************************)
(* The lane that is found between two ends.                                *)
(***************************************************************************)
LEMMA BetweenForm ==
    ASSUME NEW a, NEW o, NEW t, NEW dir, NEW l
    PROVE  l \in LanesBetween(a, o, t, dir) <=>
             /\ InRange(a, o) /\ LaneEndpoints(a, l) = {Directed(dir, o, t)}
             /\ \E type \in {"site", "word", "zone"} :
                   \E bus \in DOMAIN BusesOf(a, type, o.zone) : l = Lane(type, dir, bus, o)
<1> DEFINE Tried == {t1 \in Entries(MoveTypes) : InRange(a, o)}
           Of(type) == {Lane(type, dir, bus, o) : bus \in DOMAIN BusesOf(a, type, o.zone)}
<1>1. l \in UNION {Of(type) : type \in Tried} <=> \E type \in Tried : l \in Of(type)
  <2> HIDE DEF Of, Tried
  <2> QED OBVIOUS
<1>2. \A type : type \in Tried <=> InRange(a, o) /\ type \in {"site", "word", "zone"}
  BY MoveTypesAre
<1>3. l \in LanesBetween(a, o, t, dir)
      <=> l \in UNION {Of(type) : type \in Tried} /\ LaneEndpoints(a, l) = {Directed(dir, o, t)}
  BY DEF LanesBetween
<1> HIDE DEF Tried
<1> QED BY <1>1, <1>2, <1>3

TypeRank(type) == CHOOSE i \in DOMAIN MoveTypes : MoveTypes[i] = type

LEMMA TypeRanks ==
    /\ TypeRank("site") = 1 /\ TypeRank("word") = 2 /\ TypeRank("zone") = 3
    /\ \A l, m : TriedBefore(l, m) <=>
                    TypeRank(l.type) < TypeRank(m.type) \/ (l.type = m.type /\ l.bus <= m.bus)
<1>1. /\ DOMAIN MoveTypes = 1..3
      /\ MoveTypes[1] = "site" /\ MoveTypes[2] = "word" /\ MoveTypes[3] = "zone"
  BY DEF MoveTypes
<1>2. \A i \in 1..3 : i = 1 \/ i = 2 \/ i = 3
  OBVIOUS
<1>3. TypeRank("site") = 1
  BY <1>1, <1>2 DEF TypeRank
<1>4. TypeRank("word") = 2
  BY <1>1, <1>2 DEF TypeRank
<1>5. TypeRank("zone") = 3
  BY <1>1, <1>2 DEF TypeRank
<1>6. \A l, m : TriedBefore(l, m) <=>
                   TypeRank(l.type) < TypeRank(m.type) \/ (l.type = m.type /\ l.bus <= m.bus)
  BY DEF TriedBefore, TypeRank
<1> QED BY <1>3, <1>4, <1>5, <1>6

\* Of some lanes one is tried first.
LEMMA OneIsFirst ==
    ASSUME NEW S, S # {}, \A l \in S : l.type \in {"site", "word", "zone"} /\ l.bus \in Nat
    PROVE  \E l \in S : \A m \in S : TriedBefore(l, m)
<1> DEFINE Ranks == {TypeRank(l.type) : l \in S}
<1>1. Ranks \in SUBSET Nat /\ Ranks # {}
  BY TypeRanks
<1>2. PICK r \in Ranks : \A q \in Ranks : r <= q
  BY <1>1, LeastNumber
<1> DEFINE Low == {l \in S : TypeRank(l.type) = r}
           Numbers == {l.bus : l \in Low}
<1>3. Numbers \in SUBSET Nat /\ Numbers # {}
  BY <1>2
<1>4. PICK b \in Numbers : \A c \in Numbers : b <= c
  BY <1>3, LeastNumber
<1>5. PICK l \in Low : l.bus = b
  BY <1>4
<1>6. ASSUME NEW m \in S PROVE TriedBefore(l, m)
  <2>1. r <= TypeRank(m.type) /\ TypeRank(l.type) = r /\ l \in S
    BY <1>2, <1>5
  <2>2. CASE TypeRank(m.type) = r
    <3>1. l.bus <= m.bus
      BY <1>4, <1>5, <2>2
    <3>2. l.type = m.type
      BY <2>1, <2>2, TypeRanks
    <3> QED BY <3>1, <3>2, TypeRanks
  <2>3. CASE TypeRank(m.type) # r
    <3>1. TypeRank(m.type) \in {1, 2, 3} /\ TypeRank(l.type) \in {1, 2, 3}
      BY <2>1, TypeRanks
    <3>2. TypeRank(l.type) < TypeRank(m.type)
      BY <2>1, <2>3, <3>1
    <3> QED BY <3>2, TypeRanks
  <2> QED BY <2>2, <2>3
<1> QED BY <1>5, <1>6

LEMMA EndsAreFound ==
    ASSUME NEW a, LanesSorted(a), NEW l \in IndexedLanes(a)
    PROVE  /\ LaneForEndpoints(a, EndsOf(a, l)[1], EndsOf(a, l)[2]) # {}
           /\ \A m \in LaneForEndpoints(a, EndsOf(a, l)[1], EndsOf(a, l)[2]) : EndsOf(a, m) = EndsOf(a, l)
<1> DEFINE at == Origin(l)
<1>1. /\ CheckLane(a, l) /\ l.type \in {"site", "word"} /\ l.dir \in {"forward", "backward"}
      /\ l.zone \in DOMAIN a.zones /\ l.bus \in DOMAIN BusesOf(a, l.type, l.zone)
      /\ l = Lane(l.type, l.dir, l.bus, at) /\ at.zone = l.zone
  BY IndexedIsLane DEF Origin, Loc
<1>2. PICK e : /\ LaneEndpoints(a, l) = {Directed(l.dir, at, e)}
               /\ EndsOf(a, l) = Directed(l.dir, at, e)
  BY <1>1, EndsAreOne
<1>3. PICK src, dst : src = EndsOf(a, l)[1] /\ dst = EndsOf(a, l)[2]
  OBVIOUS
<1>4. EndsOf(a, l) = <<src, dst>> /\ (IF l.dir = "forward" THEN src = at /\ dst = e ELSE src = e /\ dst = at)
  BY <1>2, <1>3 DEF Directed
<1>5. InRange(a, at)
  BY <1>1 DEF CheckLane
<1>6. l \in LanesBetween(a, at, e, l.dir)
  BY <1>1, <1>2, <1>5, BetweenForm
<1> DEFINE forward == LanesBetween(a, src, dst, "forward")
           backward == LanesBetween(a, dst, src, "backward")
           found == IF forward # {} THEN forward ELSE backward
<1>7. found # {}
  BY <1>1, <1>4, <1>6
<1>8. ASSUME NEW m \in found
      PROVE  m.type \in {"site", "word", "zone"} /\ m.bus \in Nat /\ EndsOf(a, m) = <<src, dst>>
  <2>0. PICK dir \in {"forward", "backward"} :
               \E o, t : m \in LanesBetween(a, o, t, dir) /\ Directed(dir, o, t) = <<src, dst>>
    <3>1. CASE m \in forward
      BY <3>1 DEF Directed
    <3>2. CASE m \in backward
      BY <3>2 DEF Directed
    <3> QED BY <1>8, <3>1, <3>2
  <2>1. PICK o, t : m \in LanesBetween(a, o, t, dir) /\ Directed(dir, o, t) = <<src, dst>>
    BY <2>0
  <2>2. InRange(a, o) /\ LaneEndpoints(a, m) = {<<src, dst>>}
    BY <2>1, BetweenForm
  <2>3. PICK type \in {"site", "word", "zone"} :
               \E bus \in DOMAIN BusesOf(a, type, o.zone) : m = Lane(type, dir, bus, o)
    BY <2>1, BetweenForm
  <2>4. PICK bus \in DOMAIN BusesOf(a, type, o.zone) : m = Lane(type, dir, bus, o)
    BY <2>3
  <2>5. o.zone \in DOMAIN a.zones
    BY <2>2 DEF InRange, LanesSorted
  <2>6. bus \in Nat
    BY <2>4, <2>5 DEF LanesSorted
  <2>7. m.type = type /\ m.bus = bus
    BY <2>4 DEF Lane
  <2>8. EndsOf(a, m) = <<src, dst>>
    BY <2>2 DEF EndsOf
  <2> QED BY <2>3, <2>6, <2>7, <2>8
<1>9. LaneForEndpoints(a, src, dst) = {k \in found : \A m \in found : TriedBefore(k, m)}
  BY DEF LaneForEndpoints
<1> HIDE DEF found
<1>10. \E k \in found : \A m \in found : TriedBefore(k, m)
  BY <1>7, <1>8, OneIsFirst
<1> QED BY <1>3, <1>4, <1>8, <1>9, <1>10

----------------------------------------------------------------------------
(***************************************************************************)
(* Numbers.                                                                *)
(***************************************************************************)
LEMMA Product == ASSUME NEW a \in Nat, NEW b \in Nat PROVE a * b \in Nat /\ a * b = b * a
OBVIOUS
LEMMA ProductRises == ASSUME NEW a \in Nat, NEW b \in Nat, NEW c \in Nat, b <= c PROVE a * b <= a * c
<1>1. PICK d \in Nat : c = b + d
  OBVIOUS
<1>2. a * c = a * b + a * d
  BY <1>1
<1> QED BY <1>2
LEMMA DivMod == ASSUME NEW a \in Nat \ {0}, NEW m \in Nat
    PROVE /\ m \div a \in Nat /\ m % a \in Nat /\ m % a < a /\ m = a * (m \div a) + (m % a)
OBVIOUS
\* The cells of a grid of a columns and b rows, row by row.
LEMMA Cells ==
    ASSUME NEW a \in Nat, NEW b \in Nat, NEW k \in 1..(a * b)
    PROVE  1 + ((k - 1) % a) \in 1..a /\ 1 + ((k - 1) \div a) \in 1..b
<1>1. a # 0
  <2>1. ASSUME a = 0 PROVE FALSE
    <3>1. a * b = 0
      BY <2>1
    <3> QED BY <3>1
  <2> QED BY <2>1
<1>2. k - 1 \in Nat /\ a \in Nat \ {0}
  BY <1>1
<1>3. PICK m \in Nat : m = k - 1
  BY <1>2
<1>4. PICK q \in Nat, r \in Nat : q = m \div a /\ r = m % a /\ r < a /\ m = a * q + r
  BY <1>2, <1>3, DivMod
<1>5. q < b
  <2>1. ASSUME b <= q PROVE FALSE
    <3>1. a * b <= a * q
      BY <2>1, ProductRises
    <3>2. PICK x, y \in Nat : x = a * b /\ y = a * q
      BY Product
    <3>3. m < x
      BY <1>3, <3>2
    <3> QED BY <1>4, <3>1, <3>2, <3>3
  <2> QED BY <2>1
<1> QED BY <1>3, <1>4, <1>5
----------------------------------------------------------------------------
(***************************************************************************)
(* What the builder keeps.                                                 *)
(***************************************************************************)
ZoneRecords ==
    [words : Seq(Seq(Nat \X Nat)), hasSiteBus : Seq(BOOLEAN), site_buses : Seq(Buses), word_buses : Seq(Buses),
     pairs : Seq(Int \X Int), radius : Nat]

\* A zone on a grid of some shape: its words have as many sites as the shape, on
\* the grid, and its buses and pairs name sites and words that there are.
RecordOk(g, b) ==
    LET sites == g.shape[1] * g.shape[2]
    IN  /\ Len(b.hasSiteBus) = Len(b.words)
        /\ \A w \in DOMAIN b.words : /\ Len(b.words[w]) = sites
                                     /\ \A s \in DOMAIN b.words[w] : /\ b.words[w][s][1] \in DOMAIN g.xs
                                                                     /\ b.words[w][s][2] \in DOMAIN g.ys
        /\ \A n \in DOMAIN b.site_buses : Matched(b.site_buses[n], 1..sites)
        /\ \A n \in DOMAIN b.word_buses : Matched(b.word_buses[n], DOMAIN b.words)
        /\ \A k \in DOMAIN b.pairs : Entries(b.pairs[k]) \subseteq DOMAIN b.words

ZonesOk ==
    /\ zone \in [DOMAIN job.zones -> ZoneRecords]
    /\ \A z \in DOMAIN job.zones : RecordOk(job.zones[z], zone[z])

RegisteredOk ==
    /\ registered \in Seq(DOMAIN job.zones) /\ offsets \in Seq(Nat) /\ Len(offsets) = Len(registered)
    /\ Distinct(registered) /\ total \in Nat
    /\ registered # << >> => offsets[1] = 0
    /\ registered = << >> => total = 0
    /\ \A i, j \in DOMAIN registered : Sites(registered[i]) = Sites(registered[j])

EndOk(end) == Registered(end[1]) /\ Entries(end[2]) \subseteq Local(end[1])
ClientOk ==
    /\ connections \in Seq(((DOMAIN job.zones) \X Seq(Nat \ {0})) \X ((DOMAIN job.zones) \X Seq(Nat \ {0})))
    /\ \A n \in DOMAIN connections : EndOk(connections[n][1]) /\ EndOk(connections[n][2])
    /\ modes \in Seq(Seq(DOMAIN job.zones))
    /\ \A n \in DOMAIN modes : \A z \in Entries(modes[n]) : Registered(z)
    /\ radius \in Nat

PartsOk == JobOk(job) /\ ZonesOk /\ RegisteredOk /\ ClientOk

\* Its paths are those of ways that were found for routes of the builder.
Routed ==
    \E way : /\ arch.paths = Paths(way)
             /\ \A route \in DOMAIN way : route \in Routes /\ way[route] \in Ways(route)

\* The architecture is that of the builder's parts.
AsBuilt ==
    /\ arch.words = FlattenSeq([i \in DOMAIN registered |-> zone[registered[i]].words])
    /\ arch.zones = [i \in DOMAIN registered |-> BuiltZone(i)]
    /\ arch.zone_buses = [k \in DOMAIN connections |-> BuiltConnection(connections[k])]
    /\ arch.modes = [k \in DOMAIN modes |-> Bits(modes[k])]
    /\ Routed
    /\ Validate(arch)

LEMMA NewZoneOk == NewZone \in ZoneRecords /\ \A g : RecordOk(g, NewZone)
<1>1. NewZone \in ZoneRecords
  BY DEF NewZone, ZoneRecords, NoRadius
<1>2. DOMAIN << >> = {} /\ Len(<< >>) = 0
  OBVIOUS
<1>3. /\ NewZone.words = << >> /\ NewZone.hasSiteBus = << >> /\ NewZone.site_buses = << >>
      /\ NewZone.word_buses = << >> /\ NewZone.pairs = << >>
  BY DEF NewZone
<1> QED BY <1>1, <1>2, <1>3 DEF RecordOk

LEMMA BuilderInitOk == BuilderInit => PartsOk /\ arch = Unbuilt
<1> SUFFICES ASSUME BuilderInit PROVE PartsOk /\ arch = Unbuilt
  OBVIOUS
<1>1. JobOk(job) /\ arch = Unbuilt
  BY JobsAssumption DEF BuilderInit
<1>2. ZonesOk
  <2>1. zone = [z \in DOMAIN job.zones |-> NewZone]
    BY DEF BuilderInit
  <2> QED BY <2>1, NewZoneOk DEF ZonesOk
<1>3. registered = << >> /\ offsets = << >> /\ total = 0 /\ connections = << >> /\ modes = << >> /\ radius = 0
  BY DEF BuilderInit, NoRadius
<1>4. \A S : << >> \in Seq(S) /\ DOMAIN << >> = {} /\ Len(<< >>) = 0
  OBVIOUS
<1>5. RegisteredOk
  BY <1>3, <1>4 DEF RegisteredOk, Distinct
<1>6. ClientOk
  BY <1>3, <1>4 DEF ClientOk
<1> QED BY <1>1, <1>2, <1>5, <1>6 DEF PartsOk

\* A call on a zone builder leaves the parts in order if the zone is, and if no
\* word of it is lost.
LEMMA ZoneChange ==
    ASSUME PartsOk, ZoneCall, NEW z \in DOMAIN job.zones, NEW b \in ZoneRecords, RecordOk(job.zones[z], b),
           Len(zone[z].words) <= Len(b.words), zone' = [zone EXCEPT ![z] = b]
    PROVE  PartsOk'
<1>1. /\ job' = job /\ registered' = registered /\ offsets' = offsets /\ total' = total
      /\ connections' = connections /\ modes' = modes /\ radius' = radius
  BY DEF ZoneCall
<1>2. zone \in [DOMAIN job.zones -> ZoneRecords] /\ \A y \in DOMAIN job.zones : RecordOk(job.zones[y], zone[y])
  BY DEF PartsOk, ZonesOk
<1>3. zone' \in [DOMAIN job.zones -> ZoneRecords] /\ \A y \in DOMAIN job.zones : zone'[y] = IF y = z THEN b ELSE zone[y]
  BY <1>2
<1>4. ZonesOk'
  BY <1>1, <1>2, <1>3 DEF ZonesOk
<1>5. RegisteredOk'
  <2>1. \A y : Sites(y)' = Sites(y)
    BY <1>1 DEF Sites, Shape
  <2> QED BY <1>1, <2>1 DEF PartsOk, RegisteredOk
<1>6. \A y \in DOMAIN job.zones : Local(y) \subseteq Local(y)'
  <2> SUFFICES ASSUME NEW y \in DOMAIN job.zones PROVE DOMAIN zone[y].words \subseteq DOMAIN zone'[y].words
    BY DEF Local
  <2>1. zone[z].words \in Seq(Seq(Nat \X Nat)) /\ b.words \in Seq(Seq(Nat \X Nat))
    BY <1>2 DEF ZoneRecords
  <2>2. DOMAIN zone[z].words \subseteq DOMAIN b.words
    <3>1. PICK s, t \in Seq(Seq(Nat \X Nat)) : s = zone[z].words /\ t = b.words
      BY <2>1
    <3> QED BY <3>1
  <2> QED BY <1>3, <2>2
<1>7. ClientOk'
  <2>1. \A y : Registered(y)' <=> Registered(y)
    BY <1>1 DEF Registered
  <2>2. \A y : Registered(y) => y \in DOMAIN job.zones
    BY DEF PartsOk, RegisteredOk, Registered, Entries
  <2>3. \A end : EndOk(end) => EndOk(end)'
    BY <1>6, <2>1, <2>2 DEF EndOk
  <2> QED BY <1>1, <2>1, <2>3 DEF PartsOk, ClientOk
<1> QED BY <1>1, <1>4, <1>5, <1>7 DEF PartsOk

(***************************************************************************)
(* The calls on a zone.                                                    *)
(***************************************************************************)
LEMMA Appended ==
    ASSUME NEW T, NEW s \in Seq(T), NEW e \in T
    PROVE  /\ Append(s, e) \in Seq(T) /\ Len(Append(s, e)) = Len(s) + 1 /\ Len(s) <= Len(Append(s, e))
           /\ DOMAIN s \subseteq DOMAIN Append(s, e)
           /\ \A k \in DOMAIN Append(s, e) : (k \in DOMAIN s /\ Append(s, e)[k] = s[k]) \/ Append(s, e)[k] = e
OBVIOUS

LEMMA ListedIn ==
    ASSUME NEW n \in Nat, NEW T, NEW f \in [1..n -> T]
    PROVE  f \in Seq(T) /\ Len(f) = n /\ DOMAIN f = 1..n
OBVIOUS

LEMMA ZoneFacts ==
    ASSUME PartsOk, NEW z \in DOMAIN job.zones
    PROVE  /\ zone[z] \in ZoneRecords /\ RecordOk(job.zones[z], zone[z]) /\ job.zones[z] \in ZoneGrids
           /\ Sites(z) \in Nat /\ Sites(z) = job.zones[z].shape[1] * job.zones[z].shape[2]
           /\ zone \in [DOMAIN job.zones -> ZoneRecords]
<1>1. zone[z] \in ZoneRecords /\ RecordOk(job.zones[z], zone[z]) /\ zone \in [DOMAIN job.zones -> ZoneRecords]
  BY DEF PartsOk, ZonesOk
<1>2. job.zones[z] \in ZoneGrids
  BY DEF PartsOk, JobOk
<1>3. job.zones[z].shape \in Nat \X Nat
  BY <1>2 DEF ZoneGrids
<1>4. Sites(z) = job.zones[z].shape[1] * job.zones[z].shape[2]
  BY DEF Sites, Shape
<1>5. job.zones[z].shape[1] \in Nat /\ job.zones[z].shape[2] \in Nat
  BY <1>3
<1> QED BY <1>1, <1>2, <1>4, <1>5, Product

LEMMA SitesAtOk ==
    ASSUME PartsOk, NEW z \in DOMAIN job.zones, NEW xs \in Seq(Int), NEW ys \in Seq(Int),
           <<Len(xs), Len(ys)>> = Shape(z),
           Entries(xs) \subseteq DOMAIN job.zones[z].xs, Entries(ys) \subseteq DOMAIN job.zones[z].ys
    PROVE  /\ SitesAt(z, xs, ys) \in Seq(Nat \X Nat) /\ Len(SitesAt(z, xs, ys)) = Sites(z)
           /\ \A s \in DOMAIN SitesAt(z, xs, ys) : /\ SitesAt(z, xs, ys)[s][1] \in DOMAIN job.zones[z].xs
                                                   /\ SitesAt(z, xs, ys)[s][2] \in DOMAIN job.zones[z].ys
<1> DEFINE at == SitesAt(z, xs, ys)
<1>1. PICK a, b \in Nat : a = Len(xs) /\ b = Len(ys)
  OBVIOUS
<1>2. Sites(z) = a * b /\ Sites(z) \in Nat
  <2>1. Shape(z)[1] = a /\ Shape(z)[2] = b
    <3>1. Shape(z) = <<a, b>>
      BY <1>1
    <3> QED BY <3>1
  <2> QED BY <2>1, ZoneFacts DEF Sites
<1>3. at = [k \in 1..Sites(z) |-> <<xs[1 + ((k - 1) % a)], ys[1 + ((k - 1) \div a)]>>]
  BY <1>1 DEF SitesAt
<1>4. DOMAIN job.zones[z].xs \subseteq Nat /\ DOMAIN job.zones[z].ys \subseteq Nat
  <2>1. job.zones[z].xs \in Seq(Int) /\ job.zones[z].ys \in Seq(Int)
    BY ZoneFacts DEF ZoneGrids
  <2>2. \A s \in Seq(Int) : DOMAIN s \subseteq Nat
    OBVIOUS
  <2> QED BY <2>1, <2>2
<1>5. ASSUME NEW k \in 1..Sites(z)
      PROVE  at[k][1] \in DOMAIN job.zones[z].xs /\ at[k][2] \in DOMAIN job.zones[z].ys /\ at[k] \in Nat \X Nat
  <2>1. 1 + ((k - 1) % a) \in 1..a /\ 1 + ((k - 1) \div a) \in 1..b
    BY <1>2, Cells
  <2>2. PICK i \in 1..a, j \in 1..b : i = 1 + ((k - 1) % a) /\ j = 1 + ((k - 1) \div a)
    BY <2>1
  <2>3. at[k] = <<xs[i], ys[j]>>
    BY <1>3, <2>2
  <2>4. xs[i] \in Entries(xs) /\ ys[j] \in Entries(ys)
    BY <1>1, SMTT(60) DEF Entries
  <2> QED BY <1>4, <2>3, <2>4
<1>6. DOMAIN at = 1..Sites(z)
  BY <1>3
<1>7. at \in [1..Sites(z) -> Nat \X Nat]
  BY <1>3, <1>5
<1> HIDE DEF at
<1>8. at \in Seq(Nat \X Nat) /\ Len(at) = Sites(z)
  BY <1>2, <1>7, ListedIn
<1> QED BY <1>5, <1>6, <1>8 DEF at

LEMMA AddWordStep ==
    ASSUME PartsOk, NEW z \in DOMAIN job.zones, NEW w \in job.words[z], AddWord(z, w[1], w[2], w[3])
    PROVE  PartsOk'
<1>1. w \in Seq(Int) \X Seq(Int) \X BOOLEAN
  BY DEF PartsOk, JobOk
<1>2. PICK xs \in Seq(Int), ys \in Seq(Int), has \in BOOLEAN : xs = w[1] /\ ys = w[2] /\ has = w[3]
  BY <1>1
<1>3. /\ ZoneCall /\ <<Len(xs), Len(ys)>> = Shape(z)
      /\ Entries(xs) \subseteq DOMAIN job.zones[z].xs /\ Entries(ys) \subseteq DOMAIN job.zones[z].ys
      /\ zone' = [zone EXCEPT ![z].words = Append(@, SitesAt(z, xs, ys)), ![z].hasSiteBus = Append(@, has)]
  BY <1>2 DEF AddWord
<1>4. PICK at : /\ at = SitesAt(z, xs, ys) /\ at \in Seq(Nat \X Nat) /\ Len(at) = Sites(z)
                /\ \A s \in DOMAIN at : at[s][1] \in DOMAIN job.zones[z].xs /\ at[s][2] \in DOMAIN job.zones[z].ys
  BY <1>2, <1>3, SitesAtOk
<1>5. PICK b \in ZoneRecords : b = zone[z] /\ RecordOk(job.zones[z], b)
  BY ZoneFacts
<1>6. b.words \in Seq(Seq(Nat \X Nat)) /\ b.hasSiteBus \in Seq(BOOLEAN)
  BY DEF ZoneRecords
<1>7. PICK words \in Seq(Seq(Nat \X Nat)), flags \in Seq(BOOLEAN) :
         words = Append(b.words, at) /\ flags = Append(b.hasSiteBus, has)
  BY <1>4, <1>6, Appended
<1> DEFINE c == [b EXCEPT !.words = words, !.hasSiteBus = flags]
<1>8. /\ c \in ZoneRecords /\ c.words = words /\ c.hasSiteBus = flags
      /\ c.site_buses = b.site_buses /\ c.word_buses = b.word_buses /\ c.pairs = b.pairs
  BY DEF ZoneRecords
<1>9. zone' = [zone EXCEPT ![z] = c]
  <2>1. zone' = [zone EXCEPT ![z].words = words, ![z].hasSiteBus = flags]
    BY <1>3, <1>4, <1>5, <1>7, ZoneFacts
  <2> QED BY <2>1, <1>5, ZoneFacts
<1> HIDE DEF c
<1>10. /\ Len(words) = Len(b.words) + 1 /\ Len(b.words) <= Len(words) /\ DOMAIN b.words \subseteq DOMAIN words
       /\ \A k \in DOMAIN words : (k \in DOMAIN b.words /\ words[k] = b.words[k]) \/ words[k] = at
  BY <1>4, <1>6, <1>7, Appended, SMTT(60)
<1>11. Len(flags) = Len(b.hasSiteBus) + 1
  BY <1>6, <1>7, Appended
<1>12. RecordOk(job.zones[z], c)
  <2>1. Sites(z) = job.zones[z].shape[1] * job.zones[z].shape[2]
    BY ZoneFacts
  <2>2. Len(flags) = Len(words)
    BY <1>5, <1>10, <1>11 DEF RecordOk
  <2>3. \A v \in DOMAIN words : /\ Len(words[v]) = Sites(z)
                                /\ \A s \in DOMAIN words[v] : /\ words[v][s][1] \in DOMAIN job.zones[z].xs
                                                              /\ words[v][s][2] \in DOMAIN job.zones[z].ys
    BY <1>4, <1>5, <1>10, <2>1 DEF RecordOk
  <2>4. \A n \in DOMAIN c.word_buses : Matched(c.word_buses[n], DOMAIN words)
    BY <1>5, <1>8, <1>10 DEF RecordOk, Matched
  <2>5. \A k \in DOMAIN c.pairs : Entries(c.pairs[k]) \subseteq DOMAIN words
    BY <1>5, <1>8, <1>10 DEF RecordOk
  <2>6. \A n \in DOMAIN c.site_buses : Matched(c.site_buses[n], 1..Sites(z))
    BY <1>5, <1>8, <2>1 DEF RecordOk
  <2> QED BY <1>8, <2>1, <2>2, <2>3, <2>4, <2>5, <2>6 DEF RecordOk
<1> QED BY <1>3, <1>5, <1>8, <1>9, <1>10, <1>12, ZoneChange

(***************************************************************************)
(* Pairs in their order.                                                   *)
(***************************************************************************)
\* The pairs of a set, each once and in order.
LEMMA InOrderIs ==
    ASSUME NEW S \in SUBSET (Int \X Int), IsFiniteSet(S)
    PROVE  /\ InOrder(S) \in Seq(S) /\ Len(InOrder(S)) = Cardinality(S) /\ Cardinality(S) \in Nat
           /\ \A i, j \in 1..Cardinality(S) : InOrder(S)[i] = InOrder(S)[j] => i = j
           /\ \A p \in S : \E i \in 1..Cardinality(S) : InOrder(S)[i] = p
<1> DEFINE n == Cardinality(S)
           R == {p \in S \X S : Before(p[1], p[2])}
           Under == [x \in S |-> Cardinality({y \in S : <<y, x>> \in R})]
           kth(k) == CHOOSE x \in S : Under[x] = k - 1
           t == [k \in 1..n |-> kth(k)]
<1>1. n \in Nat
  BY Enumerated
<1>2. \A x, y \in S : <<x, y>> \in R <=> Before(x, y)
  OBVIOUS
<1>3. Orders(S, R)
  <2>1. \A x \in S : ~ Before(x, x)
    BY DEF Before
  <2>2. \A x, y, z \in S : Before(x, y) /\ Before(y, z) => Before(x, z)
    <3>1. \A x, y, z \in Int \X Int : Before(x, y) /\ Before(y, z) => Before(x, z)
      BY DEF Before
    <3> QED BY <3>1
  <2>3. \A x, y \in S : x # y => Before(x, y) \/ Before(y, x)
    <3>1. ASSUME NEW x \in Int \X Int, NEW y \in Int \X Int, x # y PROVE Before(x, y) \/ Before(y, x)
      <4>1. x = <<x[1], x[2]>> /\ y = <<y[1], y[2]>>
        OBVIOUS
      <4>2. x[1] # y[1] \/ x[2] # y[2]
        BY <3>1, <4>1
      <4> QED BY <4>2 DEF Before
    <3> QED BY <3>1
  <2> HIDE DEF R
  <2> QED BY <1>2, <2>1, <2>2, <2>3 DEF Orders
<1>4. SortedBy(t, S, R)
  <2>1. t = [k \in 1..Cardinality(S) |-> t[k]]
    <3> HIDE DEF kth
    <3> QED OBVIOUS
  <2>2. \A x \in S : Under[x] = Cardinality({y \in S : <<y, x>> \in R})
    OBVIOUS
  <2>3. \A k \in 1..Cardinality(S) : \A x \in S : Under[x] = k - 1 => t[k] \in S /\ Under[t[k]] = k - 1
    <3> HIDE DEF Under
    <3> QED OBVIOUS
  <2> HIDE DEF t, Under, R
  <2> QED BY <1>3, <2>1, <2>2, <2>3, SortedByRank
<1>5. t \in [1..n -> S] /\ \A i, j \in DOMAIN t : i < j => Before(t[i], t[j])
  <2>1. t \in Seq(S) /\ Len(t) = n /\ \A i, j \in 1..Len(t) : i < j => <<t[i], t[j]>> \in R
    BY <1>4 DEF SortedBy
  <2> HIDE DEF t, R, n
  <2>2. t \in [1..n -> S] /\ DOMAIN t = 1..n
    BY <2>1
  <2> QED BY <1>2, <2>1, <2>2
<1>6. PICK s : s = InOrder(S)
  OBVIOUS
<1>7. s \in [1..n -> S] /\ \A i, j \in DOMAIN s : i < j => Before(s[i], s[j])
  <2> HIDE DEF t
  <2> QED BY <1>5, <1>6 DEF InOrder
<1> HIDE DEF t, R
<1>8. ASSUME NEW i \in 1..n, NEW j \in 1..n, s[i] = s[j] PROVE i = j
  <2>1. s[i] \in Int \X Int /\ s[j] \in Int \X Int
    BY <1>7
  <2>2. ~ Before(s[i], s[j]) /\ ~ Before(s[j], s[i])
    BY <1>8, <2>1 DEF Before
  <2>3. ~ (i < j) /\ ~ (j < i)
    BY <1>7, <2>2
  <2> QED BY <1>1, <2>3
<1>9. \A p \in S : \E i \in 1..n : s[i] = p
  <2>1. \A f \in [1..Cardinality(S) -> S] :
           (\A i, j \in 1..Cardinality(S) : f[i] = f[j] => i = j)
           => \A x \in S : \E i \in 1..Cardinality(S) : f[i] = x
    BY EnumerationOnto
  <2>2. \A i, j \in 1..n : s[i] = s[j] => i = j
    BY <1>8
  <2> QED BY <1>7, <2>1, <2>2, Zenon
<1>10. s \in Seq(S) /\ Len(s) = n
  BY <1>1, <1>7, ListedIn
<1> QED BY <1>1, <1>6, <1>8, <1>9, <1>10

LEMMA BlockadedOk ==
    ASSUME PartsOk, NEW z \in DOMAIN job.zones, NEW r
    PROVE  /\ Blockaded(z, r) \in SUBSET (Int \X Int) /\ IsFiniteSet(Blockaded(z, r))
           /\ Blockaded(z, r) \subseteq Local(z) \X Local(z)
           /\ InOrder(Blockaded(z, r)) \in Seq(Int \X Int)
           /\ \A k \in DOMAIN InOrder(Blockaded(z, r)) : Entries(InOrder(Blockaded(z, r))[k]) \subseteq Local(z)
<1>1. PICK n \in Nat : Local(z) = 1..n
  <2>1. zone[z].words \in Seq(Seq(Nat \X Nat))
    BY ZoneFacts DEF ZoneRecords
  <2>2. \A s \in Seq(Seq(Nat \X Nat)) : Len(s) \in Nat /\ DOMAIN s = 1..Len(s)
    OBVIOUS
  <2> QED BY <2>1, <2>2 DEF Local
<1>2. PICK S : S = Blockaded(z, r)
  OBVIOUS
<1>3. S \subseteq (1..n) \X (1..n)
  BY <1>1, <1>2 DEF Blockaded
<1>4. S \in SUBSET (Int \X Int)
  BY <1>3
<1>5. IsFiniteSet(S)
  <2>1. IsFiniteSet(1..n)
    BY FS_Interval
  <2>2. IsFiniteSet((1..n) \X (1..n))
    BY <2>1, FS_Product
  <2> QED BY <1>3, <2>2, FS_Subset
<1>6. PICK s : s = InOrder(S)
  OBVIOUS
<1>7. s \in Seq(S)
  BY <1>4, <1>5, <1>6, InOrderIs
<1>8. s \in Seq(Int \X Int)
  BY <1>4, <1>7
<1>9. ASSUME NEW k \in DOMAIN s PROVE Entries(s[k]) \subseteq Local(z)
  <2>1. s[k] \in (1..n) \X (1..n)
    BY <1>3, <1>7
  <2>2. PICK x \in 1..n, y \in 1..n : s[k] = <<x, y>>
    BY <2>1
  <2> QED BY <1>1, <2>2 DEF Entries
<1> QED BY <1>1, <1>2, <1>3, <1>4, <1>5, <1>6, <1>8, <1>9

LEMMA BusStep ==
    ASSUME PartsOk, NEW z \in DOMAIN job.zones, NEW bus \in Buses, AddSiteBus(z, bus) \/ AddWordBus(z, bus)
    PROVE  PartsOk'
<1>1. PICK b \in ZoneRecords : b = zone[z] /\ RecordOk(job.zones[z], b)
  BY ZoneFacts
<1>2. b.site_buses \in Seq(Buses) /\ b.word_buses \in Seq(Buses)
  BY DEF ZoneRecords
<1>3. Sites(z) = job.zones[z].shape[1] * job.zones[z].shape[2] /\ Local(z) = DOMAIN b.words
  BY <1>1, ZoneFacts DEF Local
<1>4. b.words \in Seq(Seq(Nat \X Nat)) /\ Len(b.words) <= Len(b.words)
  <2>1. b.words \in Seq(Seq(Nat \X Nat))
    BY DEF ZoneRecords
  <2> QED BY <2>1
<1>5. CASE AddSiteBus(z, bus)
  <2>1. ZoneCall /\ Matched(bus, 1..Sites(z)) /\ zone' = [zone EXCEPT ![z].site_buses = Append(@, bus)]
    BY <1>5 DEF AddSiteBus
  <2>2. PICK s \in Seq(Buses) : s = Append(b.site_buses, bus)
    BY <1>2, Appended
  <2> DEFINE c == [b EXCEPT !.site_buses = s]
  <2>3. /\ c \in ZoneRecords /\ c.site_buses = s /\ c.words = b.words /\ c.hasSiteBus = b.hasSiteBus
        /\ c.word_buses = b.word_buses /\ c.pairs = b.pairs
    BY DEF ZoneRecords
  <2>4. zone' = [zone EXCEPT ![z] = c]
    BY <1>1, <2>1, <2>2, ZoneFacts
  <2> HIDE DEF c
  <2>5. \A k \in DOMAIN s : (k \in DOMAIN b.site_buses /\ s[k] = b.site_buses[k]) \/ s[k] = bus
    BY <1>2, <2>2, Appended
  <2>6. RecordOk(job.zones[z], c)
    BY <1>1, <1>3, <2>1, <2>3, <2>5 DEF RecordOk
  <2> QED BY <1>1, <1>4, <2>1, <2>3, <2>4, <2>6, ZoneChange
<1>6. CASE AddWordBus(z, bus)
  <2>1. ZoneCall /\ Matched(bus, Local(z)) /\ zone' = [zone EXCEPT ![z].word_buses = Append(@, bus)]
    BY <1>6 DEF AddWordBus
  <2>2. PICK s \in Seq(Buses) : s = Append(b.word_buses, bus)
    BY <1>2, Appended
  <2> DEFINE c == [b EXCEPT !.word_buses = s]
  <2>3. /\ c \in ZoneRecords /\ c.word_buses = s /\ c.words = b.words /\ c.hasSiteBus = b.hasSiteBus
        /\ c.site_buses = b.site_buses /\ c.pairs = b.pairs
    BY DEF ZoneRecords
  <2>4. zone' = [zone EXCEPT ![z] = c]
    BY <1>1, <2>1, <2>2, ZoneFacts
  <2> HIDE DEF c
  <2>5. \A k \in DOMAIN s : (k \in DOMAIN b.word_buses /\ s[k] = b.word_buses[k]) \/ s[k] = bus
    BY <1>2, <2>2, Appended
  <2>6. RecordOk(job.zones[z], c)
    BY <1>1, <1>3, <2>1, <2>3, <2>5 DEF RecordOk
  <2> QED BY <1>1, <1>4, <2>1, <2>3, <2>4, <2>6, ZoneChange
<1> QED BY <1>5, <1>6

\* New pairs and a new radius.
LEMMA PairsChange ==
    ASSUME PartsOk, ZoneCall, NEW z \in DOMAIN job.zones, NEW s \in Seq(Int \X Int), NEW r \in Nat,
           \A k \in DOMAIN s : Entries(s[k]) \subseteq Local(z),
           zone' = [zone EXCEPT ![z].pairs = s, ![z].radius = r]
    PROVE  PartsOk'
<1>1. PICK b \in ZoneRecords : b = zone[z] /\ RecordOk(job.zones[z], b)
  BY ZoneFacts
<1>2. Sites(z) = job.zones[z].shape[1] * job.zones[z].shape[2] /\ Local(z) = DOMAIN b.words
  BY <1>1, ZoneFacts DEF Local
<1>3. Len(b.words) <= Len(b.words)
  <2>1. b.words \in Seq(Seq(Nat \X Nat))
    BY DEF ZoneRecords
  <2> QED BY <2>1
<1> DEFINE c == [b EXCEPT !.pairs = s, !.radius = r]
<1>4. /\ c \in ZoneRecords /\ c.pairs = s /\ c.words = b.words /\ c.hasSiteBus = b.hasSiteBus
      /\ c.site_buses = b.site_buses /\ c.word_buses = b.word_buses
  BY DEF ZoneRecords
<1>5. zone' = [zone EXCEPT ![z] = c]
  BY <1>1, ZoneFacts
<1> HIDE DEF c
<1>6. RecordOk(job.zones[z], c)
  BY <1>1, <1>2, <1>4 DEF RecordOk
<1> QED BY <1>1, <1>3, <1>4, <1>5, <1>6, ZoneChange

LEMMA SmallestIs ==
    ASSUME NEW S \in SUBSET Nat, S # {}
    PROVE  Smallest(S) \in S /\ \A n \in S : Smallest(S) <= n
<1>1. \E m \in S : \A n \in S : m <= n
  BY LeastNumber
<1> QED BY <1>1 DEF Smallest

LEMMA PrefixIs ==
    ASSUME NEW T, NEW s \in Seq(T), NEW m \in Nat, m <= Len(s)
    PROVE  /\ SubSeq(s, 1, m) \in Seq(T) /\ Len(SubSeq(s, 1, m)) = m
           /\ \A i \in 1..m : SubSeq(s, 1, m)[i] = s[i]
OBVIOUS

LEMMA JoinedIs ==
    ASSUME NEW T, NEW s \in Seq(T), NEW t \in Seq(T)
    PROVE  /\ s \o t \in Seq(T) /\ Len(s \o t) = Len(s) + Len(t) /\ DOMAIN (s \o t) = 1..(Len(s) + Len(t))
           /\ \A k \in DOMAIN (s \o t) : (s \o t)[k] = IF k <= Len(s) THEN s[k] ELSE t[k - Len(s)]
OBVIOUS

LEMMA AddPairsStep ==
    ASSUME PartsOk, NEW z \in DOMAIN job.zones, NEW pairs \in Seq(Int \X Int), AddEntanglingPairs(z, pairs)
    PROVE  PartsOk'
<1> DEFINE bad == {i \in DOMAIN pairs : ~ (Entries(pairs[i]) \subseteq Local(z))}
           good == IF bad = {} THEN Len(pairs) ELSE Smallest(bad) - 1
<1>1. PICK m \in Nat : m = good /\ m <= Len(pairs) /\ \A i \in 1..m : i \in DOMAIN pairs /\ i \notin bad
  <2>1. Len(pairs) \in Nat /\ DOMAIN pairs = 1..Len(pairs) /\ bad \subseteq 1..Len(pairs)
    OBVIOUS
  <2>2. CASE bad = {}
    <3>1. PICK m \in Nat : m = Len(pairs)
      BY <2>1
    <3>2. m = good /\ m <= Len(pairs) /\ \A i \in 1..m : i \in DOMAIN pairs /\ i \notin bad
      <4> HIDE DEF bad
      <4> QED BY <2>1, <2>2, <3>1
    <3> HIDE DEF good
    <3> QED BY <3>2
  <2>3. CASE bad # {}
    <3>1. bad \in SUBSET Nat
      BY <2>1
    <3> HIDE DEF bad
    <3>2. Smallest(bad) \in bad /\ \A n \in bad : Smallest(bad) <= n
      BY <2>3, <3>1, SmallestIs
    <3>3. PICK l \in 1..Len(pairs) : l = Smallest(bad)
      BY <2>1, <3>2
    <3>4. l - 1 \in Nat /\ l - 1 <= Len(pairs) /\ \A i \in 1..(l - 1) : i \in 1..Len(pairs) /\ i \notin bad
      BY <2>1, <3>2, <3>3, SMTT(60)
    <3>5. good = l - 1
      BY <2>3, <3>3
    <3> QED BY <2>1, <3>4, <3>5
  <2> HIDE DEF bad
  <2> QED BY <2>2, <2>3
<1>2. PICK b \in ZoneRecords : b = zone[z] /\ RecordOk(job.zones[z], b)
  BY ZoneFacts
<1>3. b.pairs \in Seq(Int \X Int) /\ b.radius \in Nat
  BY DEF ZoneRecords
<1>4. PICK s \in Seq(Int \X Int) : s = b.pairs \o SubSeq(pairs, 1, m)
  <2>1. SubSeq(pairs, 1, m) \in Seq(Int \X Int)
    BY <1>1, PrefixIs
  <2> QED BY <1>3, <2>1, JoinedIs
<1>5. PICK r \in Nat : r = IF bad = {} THEN NoRadius ELSE b.radius
  BY <1>3 DEF NoRadius
<1>6. ZoneCall /\ zone' = [zone EXCEPT ![z].pairs = s, ![z].radius = r]
  <2>1. /\ ZoneCall
        /\ zone' = [zone EXCEPT ![z].pairs = @ \o SubSeq(pairs, 1, good),
                                ![z].radius = IF bad = {} THEN NoRadius ELSE @]
    BY DEF AddEntanglingPairs
  <2> HIDE DEF good, bad
  <2> QED BY <2>1, <1>1, <1>2, <1>4, <1>5, ZoneFacts
<1>7. ASSUME NEW k \in DOMAIN s PROVE Entries(s[k]) \subseteq Local(z)
  <2>1. PICK l \in Nat : l = Len(b.pairs) /\ DOMAIN b.pairs = 1..l
    BY <1>3
  <2>2. k \in 1..(l + m) /\ s[k] = IF k <= l THEN b.pairs[k] ELSE pairs[k - l]
    <3>1. PICK t \in Seq(Int \X Int) : t = SubSeq(pairs, 1, m)
      BY <1>1, PrefixIs
    <3>2. Len(t) = m /\ \A i \in 1..m : t[i] = pairs[i]
      BY <1>1, <3>1, PrefixIs, ZenonT(60)
    <3>3. s = b.pairs \o t
      BY <1>4, <3>1
    <3>4. k \in 1..(l + m) /\ s[k] = IF k <= l THEN b.pairs[k] ELSE t[k - l]
      BY <1>3, <2>1, <3>2, <3>3, JoinedIs
    <3>5. ~ (k <= l) => k - l \in 1..m
      BY <3>4, SMTT(60)
    <3> QED BY <3>2, <3>4, <3>5
  <2>3. CASE k <= l
    <3>1. k \in DOMAIN b.pairs
      BY <2>1, <2>2, <2>3
    <3> QED BY <1>2, <2>2, <2>3, <3>1 DEF RecordOk, Local
  <2>4. CASE ~ (k <= l)
    <3>1. k - l \in 1..m
      BY <2>2, <2>4, SMTT(60)
    <3> QED BY <1>1, <2>2, <2>4, <3>1
  <2> QED BY <2>3, <2>4
<1> QED BY <1>6, <1>7, PairsChange

LEMMA SetRadiusStep ==
    ASSUME PartsOk, NEW z \in DOMAIN job.zones, NEW r \in Nat, SetBlockadeRadius(z, r)
    PROVE  PartsOk'
<1>1. PICK s \in Seq(Int \X Int) : /\ s = InOrder(Blockaded(z, r))
                                    /\ \A k \in DOMAIN s : Entries(s[k]) \subseteq Local(z)
  BY BlockadedOk
<1>2. ZoneCall /\ zone' = [zone EXCEPT ![z].pairs = s, ![z].radius = r]
  BY <1>1 DEF SetBlockadeRadius
<1> QED BY <1>1, <1>2, PairsChange

----------------------------------------------------------------------------
(***************************************************************************)
(* The calls on the architecture.                                          *)
(***************************************************************************)
LEMMA AddZoneStep == ASSUME PartsOk, NEW z \in DOMAIN job.zones, AddZone(z) PROVE PartsOk'
<1>1. /\ job' = job /\ zone' = zone /\ connections' = connections /\ modes' = modes /\ radius' = radius
      /\ ~ Registered(z) /\ (registered # << >> => Sites(z) = Sites(registered[1]))
      /\ registered' = Append(registered, z) /\ offsets' = Append(offsets, total)
      /\ total' = total + Len(zone[z].words)
  BY DEF AddZone
<1>2. /\ registered \in Seq(DOMAIN job.zones) /\ offsets \in Seq(Nat) /\ Len(offsets) = Len(registered)
      /\ Distinct(registered) /\ total \in Nat
      /\ (registered # << >> => offsets[1] = 0) /\ (registered = << >> => total = 0)
      /\ \A i, j \in DOMAIN registered : Sites(registered[i]) = Sites(registered[j])
  BY DEF PartsOk, RegisteredOk
<1>3. PICK n \in Nat : n = Len(registered) /\ DOMAIN registered = 1..n /\ Len(offsets) = n
  BY <1>2
<1>4. /\ registered' \in Seq(DOMAIN job.zones) /\ Len(registered') = n + 1 /\ DOMAIN registered' = 1..(n + 1)
      /\ registered'[n + 1] = z /\ \A i \in 1..n : registered'[i] = registered[i]
  BY <1>1, <1>2, <1>3
<1>5. /\ offsets' \in Seq(Nat) /\ Len(offsets') = n + 1
      /\ offsets'[n + 1] = total /\ \A i \in 1..n : offsets'[i] = offsets[i]
  BY <1>1, <1>2, <1>3
<1>6. \A y : Sites(y)' = Sites(y) /\ Local(y)' = Local(y)
  BY <1>1 DEF Sites, Shape, Local
<1>7. \A i \in 1..n : registered[i] # z
  BY <1>1, <1>3 DEF Registered, Entries
<1>8. \A i \in 1..(n + 1) : i = n + 1 \/ i \in 1..n
  BY <1>3
<1>9. Distinct(registered')
  BY <1>2, <1>3, <1>4, <1>7, <1>8 DEF Distinct
<1>10. \A i \in 1..(n + 1) : Sites(registered'[i]) = Sites(z)
  <2> SUFFICES ASSUME NEW i \in 1..n PROVE Sites(registered[i]) = Sites(z)
    BY <1>4, <1>8
  <2>1. 1 \in 1..n /\ registered # << >>
    BY <1>3
  <2> QED BY <1>1, <1>2, <1>3, <2>1
<1>11. total' \in Nat
  <2>1. zone[z].words \in Seq(Seq(Nat \X Nat))
    BY ZoneFacts DEF ZoneRecords
  <2>2. Len(zone[z].words) \in Nat
    BY <2>1
  <2> QED BY <1>1, <1>2, <2>2
<1>12. offsets'[1] = 0 /\ registered' # << >>
  <2>1. CASE n = 0
    <3>1. registered = << >>
      BY <1>2, <1>3, <2>1
    <3> QED BY <1>2, <1>4, <1>5, <2>1, <3>1
  <2>2. CASE n # 0
    <3>1. registered # << >> /\ 1 \in 1..n
      BY <1>3, <2>2
    <3> QED BY <1>2, <1>4, <1>5, <3>1
  <2> QED BY <2>1, <2>2
<1>13. RegisteredOk'
  BY <1>1, <1>4, <1>5, <1>6, <1>9, <1>10, <1>11, <1>12, ZenonT(60) DEF RegisteredOk
<1>14. \A y : Registered(y) => Registered(y)'
  BY <1>3, <1>4, <1>8 DEF Registered, Entries
<1>15. ClientOk'
  <2>1. \A end : EndOk(end) => EndOk(end)'
    BY <1>6, <1>14 DEF EndOk
  <2> QED BY <1>1, <1>14, <2>1 DEF PartsOk, ClientOk
<1>16. JobOk(job') /\ ZonesOk'
  BY <1>1 DEF PartsOk, ZonesOk
<1> QED BY <1>13, <1>15, <1>16 DEF PartsOk

\* Nothing that is registered changes.
LEMMA ClientChange ==
    ASSUME PartsOk, UNCHANGED <<job, registered, offsets, total>>,
           DOMAIN zone = DOMAIN job.zones, ZonesOk',
           \A z \in DOMAIN job.zones : Local(z)' = Local(z),
           connections' \in Seq(((DOMAIN job.zones) \X Seq(Nat \ {0})) \X ((DOMAIN job.zones) \X Seq(Nat \ {0}))),
           \A n \in DOMAIN connections' : EndOk(connections'[n][1]) /\ EndOk(connections'[n][2]),
           modes' \in Seq(Seq(DOMAIN job.zones)),
           \A n \in DOMAIN modes' : \A z \in Entries(modes'[n]) : Registered(z),
           radius' \in Nat
    PROVE  PartsOk'
<1>1. \A y : Sites(y)' = Sites(y) /\ (Registered(y)' <=> Registered(y))
  BY DEF Sites, Shape, Registered
<1>2. RegisteredOk'
  BY <1>1 DEF PartsOk, RegisteredOk
<1>3. \A y : Registered(y) => y \in DOMAIN job.zones
  BY DEF PartsOk, RegisteredOk, Registered, Entries
<1>4. \A end : EndOk(end) => EndOk(end)'
  BY <1>1, <1>3 DEF EndOk
<1>5. ClientOk'
  BY <1>1, <1>4 DEF ClientOk
<1> QED BY <1>2, <1>5 DEF PartsOk

LEMMA ConnectStep ==
    ASSUME PartsOk, NEW c \in job.connections, Connect(c[1], c[2])
    PROVE  PartsOk'
<1> DEFINE Ends == (DOMAIN job.zones) \X Seq(Nat \ {0})
<1>1. /\ UNCHANGED <<job, zone, registered, offsets, total, modes, radius>>
      /\ EndOk(c[1]) /\ EndOk(c[2]) /\ connections' = Append(connections, <<c[1], c[2]>>)
  BY DEF Connect, EndOk
<1>2. c \in Ends \X Ends
  BY DEF PartsOk, JobOk
<1>3. connections \in Seq(Ends \X Ends)
  BY DEF PartsOk, ClientOk
<1> HIDE DEF Ends
<1>4. c = <<c[1], c[2]>>
  BY <1>2
<1>5. connections' = Append(connections, c)
  BY <1>1, <1>4
<1>6. /\ connections' \in Seq(Ends \X Ends)
      /\ \A k \in DOMAIN connections' : (k \in DOMAIN connections /\ connections'[k] = connections[k]) \/ connections'[k] = c
  BY <1>2, <1>3, <1>5, Appended
<1>7. \A n \in DOMAIN connections' : EndOk(connections'[n][1]) /\ EndOk(connections'[n][2])
  BY <1>1, <1>6 DEF PartsOk, ClientOk
<1>8. /\ modes' \in Seq(Seq(DOMAIN job.zones)) /\ radius' \in Nat
      /\ \A n \in DOMAIN modes' : \A z \in Entries(modes'[n]) : Registered(z)
  BY <1>1 DEF PartsOk, ClientOk
<1>9. ZonesOk' /\ DOMAIN zone = DOMAIN job.zones /\ \A z : Local(z)' = Local(z)
  BY <1>1 DEF PartsOk, ZonesOk, Local
<1> USE DEF Ends
<1> QED BY <1>1, <1>6, <1>7, <1>8, <1>9, ClientChange

LEMMA AddModeStep ==
    ASSUME PartsOk, NEW zones \in job.modes, AddMode(zones)
    PROVE  PartsOk'
<1>1. /\ UNCHANGED <<job, zone, registered, offsets, total, connections, radius>>
      /\ (\A z \in Entries(zones) : Registered(z)) /\ modes' = Append(modes, zones)
  BY DEF AddMode
<1>2. zones \in Seq(DOMAIN job.zones)
  BY DEF PartsOk, JobOk
<1>3. modes \in Seq(Seq(DOMAIN job.zones))
  BY DEF PartsOk, ClientOk
<1>4. /\ modes' \in Seq(Seq(DOMAIN job.zones))
      /\ \A k \in DOMAIN modes' : (k \in DOMAIN modes /\ modes'[k] = modes[k]) \/ modes'[k] = zones
  BY <1>1, <1>2, <1>3, Appended
<1>5. \A n \in DOMAIN modes' : \A z \in Entries(modes'[n]) : Registered(z)
  BY <1>1, <1>4 DEF PartsOk, ClientOk
<1>6. ZonesOk' /\ DOMAIN zone = DOMAIN job.zones /\ \A z : Local(z)' = Local(z)
  BY <1>1 DEF PartsOk, ZonesOk, Local
<1>7. /\ connections' \in Seq(((DOMAIN job.zones) \X Seq(Nat \ {0})) \X ((DOMAIN job.zones) \X Seq(Nat \ {0})))
      /\ \A n \in DOMAIN connections' : EndOk(connections'[n][1]) /\ EndOk(connections'[n][2])
      /\ radius' \in Nat
  BY <1>1 DEF PartsOk, ClientOk
<1> QED BY <1>1, <1>4, <1>5, <1>6, <1>7, ClientChange

LEMMA SetEveryRadiusStep ==
    ASSUME PartsOk, NEW r \in Nat, SetEveryRadius(r)
    PROVE  PartsOk'
<1>1. /\ UNCHANGED <<job, registered, offsets, total, connections, modes>> /\ radius' = r
      /\ zone' = [z \in DOMAIN zone |->
                     IF Registered(z) THEN [zone[z] EXCEPT !.pairs = InOrder(Blockaded(z, r)), !.radius = r]
                     ELSE zone[z]]
  BY DEF SetEveryRadius
<1>2. DOMAIN zone = DOMAIN job.zones
  BY DEF PartsOk, ZonesOk
<1>3. ASSUME NEW z \in DOMAIN job.zones
      PROVE  zone'[z] \in ZoneRecords /\ RecordOk(job.zones[z], zone'[z]) /\ Local(z)' = Local(z)
  <2>1. PICK b \in ZoneRecords : b = zone[z] /\ RecordOk(job.zones[z], b)
    BY ZoneFacts
  <2>2. PICK s \in Seq(Int \X Int) : /\ s = InOrder(Blockaded(z, r))
                                      /\ \A k \in DOMAIN s : Entries(s[k]) \subseteq Local(z)
    BY BlockadedOk
  <2> DEFINE c == [b EXCEPT !.pairs = s, !.radius = r]
  <2>3. /\ c \in ZoneRecords /\ c.pairs = s /\ c.words = b.words /\ c.hasSiteBus = b.hasSiteBus
        /\ c.site_buses = b.site_buses /\ c.word_buses = b.word_buses
    BY DEF ZoneRecords
  <2>4. zone'[z] = IF Registered(z) THEN c ELSE b
    BY <1>1, <1>2, <2>1, <2>2
  <2> HIDE DEF c
  <2>5. RecordOk(job.zones[z], c)
    BY <2>1, <2>2, <2>3 DEF RecordOk, Local
  <2> QED BY <2>1, <2>3, <2>4, <2>5 DEF Local
<1>4. ZonesOk'
  <2>1. DOMAIN zone' = DOMAIN job.zones /\ zone' = [z \in DOMAIN job.zones |-> zone'[z]]
    <3> DEFINE of(z) == IF Registered(z) THEN [zone[z] EXCEPT !.pairs = InOrder(Blockaded(z, r)), !.radius = r]
                        ELSE zone[z]
    <3>1. zone' = [z \in DOMAIN job.zones |-> of(z)]
      BY <1>1, <1>2
    <3> HIDE DEF of
    <3> QED BY <3>1
  <2>2. zone' \in [DOMAIN job.zones -> ZoneRecords]
    BY <1>3, <2>1
  <2> QED BY <1>1, <1>3, <2>2 DEF ZonesOk
<1>5. /\ connections' \in Seq(((DOMAIN job.zones) \X Seq(Nat \ {0})) \X ((DOMAIN job.zones) \X Seq(Nat \ {0})))
      /\ \A n \in DOMAIN connections' : EndOk(connections'[n][1]) /\ EndOk(connections'[n][2])
      /\ modes' \in Seq(Seq(DOMAIN job.zones))
      /\ \A n \in DOMAIN modes' : \A z \in Entries(modes'[n]) : Registered(z)
  BY <1>1 DEF PartsOk, ClientOk
<1> QED BY <1>1, <1>2, <1>3, <1>4, <1>5, ClientChange

(***************************************************************************)
(* build.                                                                  *)
(***************************************************************************)
LEMMA SameParts ==
    ASSUME UNCHANGED <<job, zone, registered, offsets, total, connections, modes, radius>>
    PROVE  /\ PartsOk' <=> PartsOk
           /\ \A i : BuiltZone(i)' = BuiltZone(i)
           /\ \A c : BuiltConnection(c)' = BuiltConnection(c)
           /\ \A zones : Bits(zones)' = Bits(zones)
<1>1. \A z : Sites(z)' = Sites(z) /\ Local(z)' = Local(z) /\ (Registered(z)' <=> Registered(z)) /\ IdOf(z)' = IdOf(z)
  BY DEF Sites, Shape, Local, Registered, IdOf
<1>2. \A i, w : Global(i, w)' = Global(i, w)
  BY DEF Global
<1>3. \A i, ws : GlobalAll(i, ws)' = GlobalAll(i, ws)
  BY <1>2 DEF GlobalAll
<1>4. PartsOk' <=> PartsOk
  <2>1. (ZonesOk' <=> ZonesOk) /\ (RegisteredOk' <=> RegisteredOk)
    BY <1>1 DEF ZonesOk, RegisteredOk
  <2>2. \A end : EndOk(end)' <=> EndOk(end)
    BY <1>1 DEF EndOk
  <2>3. ClientOk' <=> ClientOk
    BY <1>1, <2>2 DEF ClientOk
  <2> QED BY <2>1, <2>3 DEF PartsOk
<1>5. \A i : BuiltZone(i)' = BuiltZone(i)
  BY <1>1, <1>2, <1>3 DEF BuiltZone
<1>6. \A c : BuiltConnection(c)' = BuiltConnection(c)
  BY <1>1, <1>2 DEF BuiltConnection
<1>7. \A zones : Bits(zones)' = Bits(zones)
  BY <1>1, <1>2 DEF Bits
<1> QED BY <1>4, <1>5, <1>6, <1>7

LEMMA SameRoutes ==
    ASSUME UNCHANGED <<job, zone, registered, offsets, total, connections, modes, radius>>
    PROVE  /\ Routes' = Routes
           /\ \A route : Ways(route)' = Ways(route)
           /\ \A way : Paths(way)' = Paths(way)
<1>1. /\ \A z : Sites(z)' = Sites(z) /\ Local(z)' = Local(z)
      /\ \A z, w, s : SiteAt(z, w, s)' = SiteAt(z, w, s)
      /\ \A i, w : Global(i, w)' = Global(i, w)
  BY DEF Sites, Shape, Local, SiteAt, Global
<1>2. Routes' = Routes
  BY DEF Routes
<1>3. \A route : ZoneOf(route)' = ZoneOf(route) /\ BusOf(route)' = BusOf(route)
  BY DEF ZoneOf, BusOf
<1>4. \A route : Atoms(route)' = Atoms(route)
  BY <1>1, <1>3 DEF Atoms
<1>5. \A route, end : EndAt(route, end)' = EndAt(route, end)
  BY <1>1, <1>3 DEF EndAt
<1>6. \A route : Displacements(route)' = Displacements(route)
  BY <1>3, <1>5 DEF Displacements
<1>7. \A route : Ways(route)' = Ways(route)
  BY <1>1, <1>3, <1>4, <1>5, <1>6 DEF Ways
<1>8. \A route, dir : RouteLanes(route, dir)' = RouteLanes(route, dir)
  BY <1>1, <1>4 DEF RouteLanes
<1>9. \A lane, way : PathFrom(lane, way)' = PathFrom(lane, way)
  BY <1>1 DEF PathFrom
<1>10. \A way : Paths(way)' = Paths(way)
  BY <1>8, <1>9 DEF Paths
<1> QED BY <1>2, <1>7, <1>10

LEMMA SameBuilding ==
    ASSUME UNCHANGED builderVars
    PROVE  (PartsOk' <=> PartsOk) /\ (AsBuilt' <=> AsBuilt)
<1>1. UNCHANGED <<job, zone, registered, offsets, total, connections, modes, radius, arch>>
  BY DEF builderVars
<1>2. PartsOk' <=> PartsOk
  BY <1>1, SameParts
<1>3. Routed' <=> Routed
  BY <1>1, SameRoutes DEF Routed
<1>4. AsBuilt' <=> AsBuilt
  BY <1>1, <1>3, SameParts DEF AsBuilt
<1> QED BY <1>2, <1>4

LEMMA BuildStep ==
    ASSUME PartsOk, NEW explicit, Build(explicit)
    PROVE  PartsOk' /\ AsBuilt'
<1>1. UNCHANGED <<job, zone, registered, offsets, total, connections, modes, radius>> /\ Validate(arch')
  BY DEF Build
<1>2. PICK way : /\ arch' = Built(way, explicit)
                 /\ \A route \in DOMAIN way : route \in Routes /\ way[route] \in Ways(route)
  <2> DEFINE ways == [route \in Routes |-> Ways(route)]
             routed == {route \in Routes : ways[route] # {}}
  <2>1. PICK way \in [routed -> UNION {ways[route] : route \in routed}] :
           (\A route \in routed : way[route] \in ways[route]) /\ arch' = Built(way, explicit)
    BY DEF Build
  <2>2. \A route \in routed : route \in Routes /\ ways[route] = Ways(route)
    OBVIOUS
  <2>3. DOMAIN way = routed
    BY <2>1
  <2> HIDE DEF routed, ways
  <2> QED BY <2>1, <2>2, <2>3
<1>3. /\ arch'.words = FlattenSeq([i \in DOMAIN registered |-> zone[registered[i]].words])
      /\ arch'.zones = [i \in DOMAIN registered |-> BuiltZone(i)]
      /\ arch'.zone_buses = [k \in DOMAIN connections |-> BuiltConnection(connections[k])]
      /\ arch'.modes = [k \in DOMAIN modes |-> Bits(modes[k])]
  BY <1>2 DEF Built
<1>4. Routed'
  <2>1. arch'.paths = Paths(way)
    BY <1>2 DEF Built
  <2> QED BY <1>1, <1>2, <2>1, SameRoutes DEF Routed
<1>5. AsBuilt'
  BY <1>1, <1>3, <1>4, SameParts DEF AsBuilt
<1> QED BY <1>1, <1>5, SameParts

LEMMA BuilderStep ==
    ASSUME PartsOk, BuilderNext
    PROVE  PartsOk' /\ arch = Unbuilt /\ (arch' = Unbuilt \/ AsBuilt')
<1>1. CASE \E z \in DOMAIN job.zones :
             \/ \E w \in job.words[z] : AddWord(z, w[1], w[2], w[3])
             \/ \E bus \in job.site_buses[z] : AddSiteBus(z, bus)
             \/ \E bus \in job.word_buses[z] : AddWordBus(z, bus)
             \/ \E pairs \in job.pairs : AddEntanglingPairs(z, pairs)
             \/ \E r \in job.radii : SetBlockadeRadius(z, r)
             \/ AddZone(z)
  <2>1. PICK z \in DOMAIN job.zones :
             \/ \E w \in job.words[z] : AddWord(z, w[1], w[2], w[3])
             \/ \E bus \in job.site_buses[z] : AddSiteBus(z, bus)
             \/ \E bus \in job.word_buses[z] : AddWordBus(z, bus)
             \/ \E pairs \in job.pairs : AddEntanglingPairs(z, pairs)
             \/ \E r \in job.radii : SetBlockadeRadius(z, r)
             \/ AddZone(z)
    BY <1>1
  <2>2. /\ job.site_buses[z] \subseteq Buses /\ job.word_buses[z] \subseteq Buses
        /\ job.pairs \subseteq Seq(Int \X Int) /\ job.radii \subseteq Nat
    BY DEF PartsOk, JobOk
  <2>3. CASE \E w \in job.words[z] : AddWord(z, w[1], w[2], w[3])
    BY <2>3, AddWordStep DEF AddWord, ZoneCall, Call
  <2>4. CASE \E bus \in job.site_buses[z] : AddSiteBus(z, bus)
    BY <2>2, <2>4, BusStep DEF AddSiteBus, ZoneCall, Call
  <2>5. CASE \E bus \in job.word_buses[z] : AddWordBus(z, bus)
    BY <2>2, <2>5, BusStep DEF AddWordBus, ZoneCall, Call
  <2>6. CASE \E pairs \in job.pairs : AddEntanglingPairs(z, pairs)
    BY <2>2, <2>6, AddPairsStep DEF AddEntanglingPairs, ZoneCall, Call
  <2>7. CASE \E r \in job.radii : SetBlockadeRadius(z, r)
    BY <2>2, <2>7, SetRadiusStep DEF SetBlockadeRadius, ZoneCall, Call
  <2>8. CASE AddZone(z)
    BY <2>8, AddZoneStep DEF AddZone, Call
  <2> QED BY <2>1, <2>3, <2>4, <2>5, <2>6, <2>7, <2>8
<1>2. CASE \E c \in job.connections : Connect(c[1], c[2])
  BY <1>2, ConnectStep DEF Connect, Call
<1>3. CASE \E zones \in job.modes : AddMode(zones)
  BY <1>3, AddModeStep DEF AddMode, Call
<1>4. CASE \E r \in job.radii : SetEveryRadius(r)
  <2>1. job.radii \subseteq Nat
    BY DEF PartsOk, JobOk
  <2> QED BY <1>4, <2>1, SetEveryRadiusStep DEF SetEveryRadius, Call
<1>5. CASE \E r \in {NoRadius} \cup job.explicit : Build(r)
  BY <1>5, BuildStep DEF Build
<1> QED BY <1>1, <1>2, <1>3, <1>4, <1>5 DEF BuilderNext

(***************************************************************************)
(* Sequences one after the other.                                          *)
(***************************************************************************)

\* What FlattenSeq goes through.
PartialJoins(seqs, g) ==
    \A k \in 1..Len(seqs) : g[k] = IF k = 1 THEN seqs[k] ELSE g[k - 1] \o seqs[k]

LEMMA FlattenedBySteps ==
    ASSUME NEW T, NEW seqs \in Seq(Seq(T)), Len(seqs) # 0
    PROVE  \E g \in [1..Len(seqs) -> Seq(T)] : PartialJoins(seqs, g) /\ FlattenSeq(seqs) = g[Len(seqs)]
<1> DEFINE n == Len(seqs)
           Step(g, i) == IF i = 1 THEN seqs[i] ELSE g[i - 1] \o seqs[i]
           Good(F, m) == F \in [1..m -> Seq(T)] /\ \A k \in 1..m : F[k] = Step(F, k)
           S == {m \in Nat : m + 1 <= n => \E F : Good(F, m + 1)}
<1>1. n \in Nat /\ n # 0 /\ \A i \in 1..n : seqs[i] \in Seq(T)
  OBVIOUS
<1>2. 0 \in S
  <2>1. PICK F : F = [k \in 1..1 |-> seqs[1]]
    OBVIOUS
  <2>2. seqs[1] \in Seq(T)
    BY <1>1
  <2>3. \A k \in 1..1 : k = 1
    OBVIOUS
  <2>4. F[1] = seqs[1] /\ F \in [1..1 -> Seq(T)]
    BY <2>1, <2>2
  <2>5. Good(F, 1)
    BY <2>2, <2>3, <2>4
  <2> HIDE DEF Good
  <2> QED BY <2>5
<1>3. ASSUME NEW i \in Nat, i \in S PROVE i + 1 \in S
  <2> SUFFICES ASSUME (i + 1) + 1 <= n PROVE \E F : Good(F, (i + 1) + 1)
    <3> HIDE DEF Good, n
    <3> QED OBVIOUS
  <2> DEFINE m == i + 1
  <2>1. m \in Nat /\ m >= 1 /\ m + 1 <= n /\ m + 1 \in 1..n
    BY <1>1
  <2>2. PICK F : Good(F, m)
    <3> HIDE DEF Good, n
    <3> QED BY <1>3, <2>1, <1>1
  <2> HIDE DEF m, n
  <2>3. F[m] \in Seq(T) /\ seqs[m + 1] \in Seq(T)
    <3>1. m \in 1..m
      BY <2>1
    <3>2. F[m] \in Seq(T)
      BY <3>1, <2>2
    <3> QED BY <1>1, <2>1, <3>2
  <2>4. PICK more \in Seq(T) : more = F[m] \o seqs[m + 1]
    BY <2>3, JoinedIs
  <2>5. PICK H : H = [k \in 1..(m + 1) |-> IF k = m + 1 THEN more ELSE F[k]]
    OBVIOUS
  <2>6. H[m + 1] = more /\ \A k \in 1..m : H[k] = F[k]
    BY <2>1, <2>5
  <2>7. \A k \in 1..(m + 1) : k = m + 1 \/ k \in 1..m
    BY <2>1
  <2>8. H \in [1..(m + 1) -> Seq(T)]
    <3>1. \A k \in 1..(m + 1) : H[k] \in Seq(T)
      BY <2>2, <2>6, <2>7
    <3> QED BY <2>5, <3>1
  <2>9. ASSUME NEW k \in 1..(m + 1) PROVE H[k] = Step(H, k)
    <3>1. CASE k = m + 1
      <4>1. k # 1 /\ k - 1 = m /\ m \in 1..m
        BY <2>1, <3>1
      <4>2. H[k - 1] \o seqs[k] = more
        BY <2>4, <2>6, <4>1, <3>1
      <4> QED BY <2>6, <3>1, <4>1, <4>2
    <3>2. CASE k \in 1..m
      <4>1. F[k] = Step(F, k)
        BY <2>2, <3>2
      <4>2. k = 1 \/ k - 1 \in 1..m
        BY <2>1, <3>2
      <4> QED BY <2>6, <3>2, <4>1, <4>2
    <3> QED BY <2>7, <3>1, <3>2
  <2>10. Good(H, m + 1)
    BY <2>8, <2>9
  <2> HIDE DEF Good
  <2> QED BY <2>10 DEF m
<1>4. n - 1 \in S
  <2>1. n - 1 \in Nat
    BY <1>1
  <2>2. Nat \subseteq S
    <3> HIDE DEF S
    <3> QED BY <1>2, <1>3, Induction
  <2> HIDE DEF S
  <2> QED BY <2>1, <2>2
<1>5. PICK F : Good(F, n)
  <2>1. (n - 1) + 1 = n /\ n - 1 \in Nat
    BY <1>1
  <2> HIDE DEF Good, n
  <2> QED BY <1>4, <2>1, <1>1
<1> DEFINE Solves(g) == g = [i \in 1..n |-> Step(g, i)]
           G == CHOOSE g : Solves(g)
<1>6. Solves(F)
  <2>1. F \in [1..n -> Seq(T)] /\ \A k \in 1..n : F[k] = Step(F, k)
    BY <1>5
  <2> HIDE DEF Step, n
  <2> QED BY <2>1
<1>7. Solves(G)
  <2> HIDE DEF Solves
  <2> QED BY <1>6
<1>8. FlattenSeq(seqs) = G[n]
  BY <1>1 DEF FlattenSeq
<1> HIDE DEF G
<1>9. \A k \in 1..n : G[k] = Step(G, k)
  <2> HIDE DEF Step
  <2> QED BY <1>7
<1>10. \A k \in 1..n : F[k] = Step(F, k)
  BY <1>5
<1> DEFINE E == {m \in Nat : m + 1 <= n => G[m + 1] = F[m + 1]}
<1>11. 0 \in E
  BY <1>1, <1>9, <1>10
<1>12. ASSUME NEW i \in Nat, i \in E PROVE i + 1 \in E
  <2> SUFFICES ASSUME (i + 1) + 1 <= n PROVE G[(i + 1) + 1] = F[(i + 1) + 1]
    OBVIOUS
  <2>1. G[i + 1] = F[i + 1]
    BY <1>12, <1>1
  <2>2. (i + 1) + 1 \in 1..n /\ (i + 1) + 1 # 1 /\ ((i + 1) + 1) - 1 = i + 1
    BY <1>1
  <2> HIDE DEF n
  <2> QED BY <1>9, <1>10, <2>1, <2>2
<1>13. n - 1 \in E
  <2>1. n - 1 \in Nat
    BY <1>1
  <2>2. Nat \subseteq E
    <3> HIDE DEF E
    <3> QED BY <1>11, <1>12, Induction
  <2> HIDE DEF E
  <2> QED BY <2>1, <2>2
<1>14. G[n] = F[n] /\ n \in 1..n
  BY <1>13, <1>1
<1>15. F \in [1..n -> Seq(T)] /\ PartialJoins(seqs, F)
  BY <1>5 DEF PartialJoins
<1> QED BY <1>8, <1>14, <1>15

\* Some sequences, beginning after the places `o`, are a sequence.
Laid(seqs, o, k, s) ==
    /\ \A i \in 1..k : /\ o[i] \in Nat /\ o[i] + Len(seqs[i]) <= Len(s)
                       /\ \A w \in 1..Len(seqs[i]) : s[o[i] + w] = seqs[i][w]
    /\ \A j \in 1..Len(s) : \E i \in 1..k : \E w \in 1..Len(seqs[i]) : j = o[i] + w

LEMMA LaidFurther ==
    ASSUME NEW T, NEW seqs \in Seq(Seq(T)), NEW o, NEW k \in Nat, NEW s \in Seq(T), Laid(seqs, o, k, s),
           k + 1 \in 1..Len(seqs), o[k + 1] = Len(s), NEW t, t = s \o seqs[k + 1]
    PROVE  t \in Seq(T) /\ Laid(seqs, o, k + 1, t)
<1>1. seqs[k + 1] \in Seq(T)
  OBVIOUS
<1>2. PICK m \in Seq(T) : m = seqs[k + 1]
  BY <1>1
<1>3. /\ t \in Seq(T) /\ Len(t) = Len(s) + Len(m) /\ DOMAIN t = 1..(Len(s) + Len(m))
      /\ \A j \in 1..(Len(s) + Len(m)) : t[j] = IF j <= Len(s) THEN s[j] ELSE m[j - Len(s)]
  BY <1>2, JoinedIs
<1>4. PICK x \in Nat, y \in Nat : x = Len(s) /\ y = Len(m)
  BY <1>2
<1>5. ASSUME NEW i \in 1..(k + 1)
      PROVE  /\ o[i] \in Nat /\ o[i] + Len(seqs[i]) <= Len(t)
             /\ \A w \in 1..Len(seqs[i]) : t[o[i] + w] = seqs[i][w]
  <2>1. CASE i = k + 1
    <3>1. o[i] = x /\ seqs[i] = m
      BY <1>2, <1>4, <2>1
    <3>2. ASSUME NEW w \in 1..y PROVE t[x + w] = m[w]
      <4>1. x + w \in 1..(x + y) /\ ~ (x + w <= x) /\ (x + w) - x = w
        OBVIOUS
      <4> QED BY <1>3, <1>4, <4>1
    <3> QED BY <1>3, <1>4, <3>1, <3>2
  <2>2. CASE i # k + 1
    <3>1. i \in 1..k
      BY <2>2
    <3>2. /\ o[i] \in Nat /\ o[i] + Len(seqs[i]) <= x
          /\ \A w \in 1..Len(seqs[i]) : s[o[i] + w] = seqs[i][w]
      BY <1>4, <3>1 DEF Laid
    <3>3. seqs[i] \in Seq(T)
      BY <3>1
    <3>4. PICK a \in Nat, l \in Nat : a = o[i] /\ l = Len(seqs[i]) /\ a + l <= x
      BY <3>2, <3>3
    <3>5. ASSUME NEW w \in 1..l PROVE t[a + w] = s[a + w]
      <4>2. a + l <= x
        BY <3>4
      <4>3. w \in Int /\ 1 <= w /\ w <= l
        OBVIOUS
      <4>1. a + w \in 1..(x + y) /\ a + w <= x
        BY <4>2, <4>3
      <4> QED BY <1>3, <1>4, <4>1
    <3>6. a + l <= x + y
      BY <3>4
    <3> QED BY <1>3, <1>4, <3>2, <3>4, <3>5, <3>6
  <2> QED BY <2>1, <2>2
<1>6. ASSUME NEW j \in 1..Len(t) PROVE \E i \in 1..(k + 1) : \E w \in 1..Len(seqs[i]) : j = o[i] + w
  <2>1. j \in 1..(x + y)
    BY <1>3, <1>4
  <2>2. CASE j <= x
    <3>1. j \in 1..Len(s)
      BY <1>4, <2>1, <2>2
    <3>2. PICK i \in 1..k : \E w \in 1..Len(seqs[i]) : j = o[i] + w
      BY <3>1 DEF Laid
    <3>3. i \in 1..(k + 1)
      OBVIOUS
    <3> QED BY <3>2, <3>3
  <2>3. CASE ~ (j <= x)
    <3>1. j - x \in 1..y /\ j = x + (j - x)
      BY <2>1, <2>3
    <3>2. j - x \in 1..Len(seqs[k + 1]) /\ j = o[k + 1] + (j - x)
      BY <1>2, <1>4, <3>1
    <3>3. k + 1 \in 1..(k + 1)
      OBVIOUS
    <3> QED BY <3>2, <3>3
  <2> QED BY <2>2, <2>3
<1> QED BY <1>3, <1>5, <1>6 DEF Laid

LEMMA FlattenedIs ==
    ASSUME NEW T, NEW seqs \in Seq(Seq(T))
    PROVE  /\ FlattenSeq(seqs) \in Seq(T)
           /\ \E o : /\ Len(seqs) # 0 => o[1] = 0 /\ Len(FlattenSeq(seqs)) = o[Len(seqs)] + Len(seqs[Len(seqs)])
                     /\ \A i \in 1..Len(seqs) : i # 1 => o[i] = o[i - 1] + Len(seqs[i - 1])
                     /\ Laid(seqs, o, Len(seqs), FlattenSeq(seqs))
<1> DEFINE n == Len(seqs)
<1>1. n \in Nat /\ \A i \in 1..n : seqs[i] \in Seq(T)
  OBVIOUS
<1>2. CASE n = 0
  <2>1. FlattenSeq(seqs) = << >>
    BY <1>2 DEF FlattenSeq
  <2>2. Len(<< >>) = 0 /\ 1..0 = {} /\ << >> \in Seq(T)
    OBVIOUS
  <2> HIDE DEF n
  <2>3. \A o : Laid(seqs, o, n, << >>) /\ \A i \in 1..n : FALSE
    BY <1>2, <2>2 DEF Laid
  <2> QED BY <1>2, <2>1, <2>2, <2>3 DEF n
<1>3. CASE n # 0
  <2>1. PICK g \in [1..n -> Seq(T)] : PartialJoins(seqs, g) /\ FlattenSeq(seqs) = g[n]
    BY <1>3, FlattenedBySteps
  <2> DEFINE o == [i \in 1..n |-> IF i = 1 THEN 0 ELSE Len(g[i - 1])]
             S == {m \in Nat : m + 1 <= n => Laid(seqs, o, m + 1, g[m + 1])}
  <2>2. \A k \in 1..n : g[k] \in Seq(T) /\ g[k] = IF k = 1 THEN seqs[k] ELSE g[k - 1] \o seqs[k]
    BY <2>1 DEF PartialJoins
  <2>3. o[1] = 0 /\ \A i \in 1..n : i # 1 => o[i] = Len(g[i - 1])
    BY <1>1, <1>3
  <2> HIDE DEF o, n
  <2>4. 0 \in S
    <3>1. 1 \in 1..n
      BY <1>1, <1>3
    <3>2. g[1] = seqs[1] /\ seqs[1] \in Seq(T)
      BY <1>1, <2>2, <3>1
    <3>3. PICK s \in Seq(T) : s = seqs[1]
      BY <3>2
    <3>4. \A i \in 1..1 : i = 1
      OBVIOUS
    <3>5. Laid(seqs, o, 1, s)
      <4>1. o[1] \in Nat /\ o[1] + Len(s) <= Len(s) /\ \A w \in 1..Len(s) : s[o[1] + w] = s[w]
        BY <2>3, <3>3
      <4>2. \A j \in 1..Len(s) : j = o[1] + j
        BY <2>3
      <4>3. 1 \in 1..1
        OBVIOUS
      <4> QED BY <3>3, <3>4, <4>1, <4>2, <4>3 DEF Laid
    <3> QED BY <3>2, <3>3, <3>5
  <2>5. ASSUME NEW i \in Nat, i \in S PROVE i + 1 \in S
    <3> SUFFICES ASSUME (i + 1) + 1 <= n PROVE Laid(seqs, o, (i + 1) + 1, g[(i + 1) + 1])
      OBVIOUS
    <3>1. PICK k \in Nat : k = i + 1 /\ k >= 1 /\ k \in 1..n /\ k + 1 \in 1..n /\ k + 1 # 1 /\ (k + 1) - 1 = k
      BY <1>1
    <3>2. Laid(seqs, o, k, g[k])
      BY <1>1, <2>5, <3>1
    <3>3. g[k] \in Seq(T) /\ g[k + 1] = g[k] \o seqs[k + 1] /\ o[k + 1] = Len(g[k])
      BY <2>2, <2>3, <3>1
    <3>4. Laid(seqs, o, k + 1, g[k + 1])
      BY <3>1, <3>2, <3>3, LaidFurther DEF n
    <3> QED BY <3>1, <3>4
  <2>6. \A k \in 1..n : Laid(seqs, o, k, g[k])
    <3>1. Nat \subseteq S
      <4> HIDE DEF S
      <4> QED BY <2>4, <2>5, Induction
    <3> SUFFICES ASSUME NEW k \in 1..n PROVE Laid(seqs, o, k, g[k])
      OBVIOUS
    <3>2. PICK i \in Nat : i = k - 1 /\ i + 1 = k /\ i + 1 <= n
      BY <1>1
    <3>3. i \in S
      BY <3>1, <3>2
    <3> QED BY <3>2, <3>3
  <2>7. ASSUME NEW i \in 1..n PROVE Len(g[i]) = o[i] + Len(seqs[i])
    <3>1. CASE i = 1
      <4>1. PICK s \in Seq(T) : s = seqs[1] /\ g[1] = s
        BY <1>1, <2>2, <3>1
      <4> QED BY <2>3, <3>1, <4>1
    <3>2. CASE i # 1
      <4>1. i - 1 \in 1..n
        BY <1>1, <3>2
      <4>2. g[i - 1] \in Seq(T) /\ g[i] = g[i - 1] \o seqs[i] /\ o[i] = Len(g[i - 1]) /\ seqs[i] \in Seq(T)
        BY <1>1, <2>2, <2>3, <3>2, <4>1
      <4> QED BY <4>2, JoinedIs
    <3> QED BY <3>1, <3>2
  <2>8. ASSUME NEW i \in 1..n, i # 1 PROVE o[i] = o[i - 1] + Len(seqs[i - 1])
    <3>1. i - 1 \in 1..n
      BY <1>1, <2>8
    <3> QED BY <2>3, <2>7, <2>8, <3>1
  <2>9. n \in 1..n
    BY <1>1, <1>3
  <2>10. FlattenSeq(seqs) \in Seq(T) /\ Len(FlattenSeq(seqs)) = o[n] + Len(seqs[n]) /\ Laid(seqs, o, n, FlattenSeq(seqs))
    BY <2>1, <2>6, <2>7, <2>9
  <2> QED BY <2>3, <2>8, <2>10 DEF n
<1> QED BY <1>2, <1>3

(***************************************************************************)
(* The parts of an architecture.                                           *)
(***************************************************************************)
LEMMA MappedIs ==
    ASSUME NEW n \in Nat, NEW f, f = [i \in 1..n |-> f[i]]
    PROVE  DOMAIN f = 1..n /\ Len(f) = n
<1> DEFINE T == {f[i] : i \in 1..n}
<1>1. f \in [1..n -> T]
  OBVIOUS
<1> HIDE DEF T
<1> QED BY <1>1, ListedIn

\* The words of the architecture are those of its zones, from the places `o` on.
WordsFrom(o) ==
    LET n == Len(registered)
    IN  /\ n # 0 => o[1] = 0 /\ Len(arch.words) = o[n] + Len(zone[registered[n]].words)
        /\ \A i \in 1..n : i # 1 => o[i] = o[i - 1] + Len(zone[registered[i - 1]].words)
        /\ \A i \in 1..n : /\ o[i] \in Nat /\ o[i] + Len(zone[registered[i]].words) <= Len(arch.words)
                            /\ \A w \in 1..Len(zone[registered[i]].words) :
                                  arch.words[o[i] + w] = zone[registered[i]].words[w]
        /\ \A j \in 1..Len(arch.words) : \E i \in 1..n : \E w \in 1..Len(zone[registered[i]].words) : j = o[i] + w

LEMMA WordsAre ==
    ASSUME PartsOk, AsBuilt
    PROVE  /\ arch.words \in Seq(Seq(Nat \X Nat))
           /\ \E o : WordsFrom(o)
<1> DEFINE of(i) == zone[registered[i]].words
<1>1. PICK n \in Nat : n = Len(registered) /\ DOMAIN registered = 1..n
  BY DEF PartsOk, RegisteredOk
<1>2. \A i \in 1..n : of(i) \in Seq(Seq(Nat \X Nat))
  <2> SUFFICES ASSUME NEW i \in 1..n PROVE of(i) \in Seq(Seq(Nat \X Nat))
    OBVIOUS
  <2>1. registered[i] \in DOMAIN job.zones
    BY <1>1 DEF PartsOk, RegisteredOk
  <2> QED BY <2>1, ZoneFacts DEF ZoneRecords
<1> HIDE DEF of
<1>3. PICK T : T = Seq(Nat \X Nat)
  OBVIOUS
<1>4. PICK seqs : seqs = [i \in 1..n |-> of(i)]
  OBVIOUS
<1>5. seqs \in [1..n -> Seq(T)]
  BY <1>2, <1>3, <1>4
<1>6. seqs \in Seq(Seq(T)) /\ Len(seqs) = n
  BY <1>5, ListedIn
<1>7. arch.words = FlattenSeq(seqs)
  BY <1>1, <1>4 DEF AsBuilt, of
<1>8. PICK o : /\ n # 0 => o[1] = 0 /\ Len(FlattenSeq(seqs)) = o[n] + Len(seqs[n])
               /\ \A i \in 1..n : i # 1 => o[i] = o[i - 1] + Len(seqs[i - 1])
               /\ Laid(seqs, o, n, FlattenSeq(seqs))
  BY <1>6, FlattenedIs
<1>9. FlattenSeq(seqs) \in Seq(T)
  BY <1>6, FlattenedIs
<1>10. \A i \in 1..n : seqs[i] = of(i)
  BY <1>4
<1>11. /\ n # 0 => o[1] = 0 /\ Len(arch.words) = o[n] + Len(of(n))
       /\ \A i \in 1..n : i # 1 => o[i] = o[i - 1] + Len(of(i - 1))
  <2>1. n # 0 => n \in 1..n
    OBVIOUS
  <2>2. \A i \in 1..n : i # 1 => i - 1 \in 1..n
    BY <1>1
  <2> QED BY <1>7, <1>8, <1>10, <2>1, <2>2
<1>12. /\ \A i \in 1..n : /\ o[i] \in Nat /\ o[i] + Len(of(i)) <= Len(arch.words)
                          /\ \A w \in 1..Len(of(i)) : arch.words[o[i] + w] = of(i)[w]
       /\ \A j \in 1..Len(arch.words) : \E i \in 1..n : \E w \in 1..Len(of(i)) : j = o[i] + w
  <2>1. /\ \A i \in 1..n : /\ o[i] \in Nat /\ o[i] + Len(seqs[i]) <= Len(arch.words)
                            /\ \A w \in 1..Len(seqs[i]) : arch.words[o[i] + w] = seqs[i][w]
        /\ \A j \in 1..Len(arch.words) : \E i \in 1..n : \E w \in 1..Len(seqs[i]) : j = o[i] + w
    BY <1>7, <1>8 DEF Laid
  <2> QED BY <1>10, <2>1, SMTT(60)
<1>13. arch.words \in Seq(Seq(Nat \X Nat))
  BY <1>3, <1>7, <1>9
<1> USE DEF of
<1>14. /\ n # 0 => o[1] = 0 /\ Len(arch.words) = o[n] + Len(zone[registered[n]].words)
       /\ \A i \in 1..n : i # 1 => o[i] = o[i - 1] + Len(zone[registered[i - 1]].words)
       /\ \A i \in 1..n : /\ o[i] \in Nat /\ o[i] + Len(zone[registered[i]].words) <= Len(arch.words)
                           /\ \A w \in 1..Len(zone[registered[i]].words) :
                                 arch.words[o[i] + w] = zone[registered[i]].words[w]
       /\ \A j \in 1..Len(arch.words) : \E i \in 1..n : \E w \in 1..Len(zone[registered[i]].words) : j = o[i] + w
  BY <1>11, <1>12
<1>15. WordsFrom(o)
  BY <1>1, <1>14 DEF WordsFrom
<1> QED BY <1>13, <1>15

\* A built zone, and the local number of one of its words.
LEMMA BuiltZoneIs ==
    ASSUME PartsOk, AsBuilt, NEW i \in DOMAIN registered, NEW z, z = registered[i]
    PROVE  /\ z \in DOMAIN job.zones /\ i \in DOMAIN arch.zones /\ arch.zones[i] = BuiltZone(i)
           /\ arch.zones[i].xs = job.zones[z].xs /\ arch.zones[i].ys = job.zones[z].ys
           /\ arch.zones[i].site_buses = zone[z].site_buses
           /\ arch.zones[i].word_buses
                = [k \in DOMAIN zone[z].word_buses |->
                     [src |-> GlobalAll(i, zone[z].word_buses[k].src), dst |-> GlobalAll(i, zone[z].word_buses[k].dst)]]
           /\ arch.zones[i].words_with_site_buses
                = {Global(i, w) : w \in {v \in Local(z) : zone[z].hasSiteBus[v] /\ zone[z].site_buses # << >>}}
           /\ arch.zones[i].sites_with_word_buses = {s \in 1..Sites(z) : zone[z].word_buses # << >>}
           /\ arch.zones[i].pairs = [k \in DOMAIN zone[z].pairs |-> GlobalAll(i, zone[z].pairs[k])]
<1>1. z \in DOMAIN job.zones
  BY DEF PartsOk, RegisteredOk
<1>2. i \in DOMAIN arch.zones /\ arch.zones[i] = BuiltZone(i)
  BY DEF AsBuilt
<1> QED BY <1>1, <1>2 DEF BuiltZone

LEMMA SeqDomain == ASSUME NEW T, NEW s \in Seq(T) PROVE DOMAIN s \subseteq Nat /\ DOMAIN s = 1..Len(s) /\ Len(s) \in Nat
OBVIOUS

LEMMA BuiltIsSorted == ASSUME PartsOk, AsBuilt PROVE LanesSorted(arch) /\ DOMAIN arch.zones = DOMAIN registered
<1>1. PICK n \in Nat : n = Len(registered) /\ DOMAIN registered = 1..n
  BY DEF PartsOk, RegisteredOk
<1>2. DOMAIN arch.zones = 1..n /\ Len(arch.zones) = n
  <2>1. arch.zones = [i \in 1..n |-> BuiltZone(i)]
    BY <1>1 DEF AsBuilt
  <2> QED BY <2>1, MappedIs
<1>3. DOMAIN arch.words = 1..Len(arch.words) /\ Len(arch.words) \in Nat
  BY WordsAre, SeqDomain
<1>4. ASSUME NEW z \in 1..n
      PROVE  /\ DOMAIN arch.zones[z].site_buses \subseteq Nat /\ DOMAIN arch.zones[z].word_buses \subseteq Nat
             /\ \A b \in DOMAIN arch.zones[z].site_buses : DOMAIN arch.zones[z].site_buses[b].src \subseteq Nat
             /\ \A b \in DOMAIN arch.zones[z].word_buses : DOMAIN arch.zones[z].word_buses[b].src \subseteq Nat
  <2>1. PICK name \in DOMAIN job.zones : name = registered[z]
    BY <1>1 DEF PartsOk, RegisteredOk
  <2>2. zone[name].site_buses \in Seq(Buses) /\ zone[name].word_buses \in Seq(Buses)
    BY ZoneFacts DEF ZoneRecords
  <2>3. \A s \in Seq(Buses) : DOMAIN s \subseteq Nat /\ \A b \in DOMAIN s : s[b] \in Buses
    OBVIOUS
  <2>4. \A b \in Buses : DOMAIN b.src \subseteq Nat
    <3>1. \A b \in Buses : b.src \in Seq(Int)
      BY DEF Buses
    <3> QED BY <3>1, SeqDomain
  <2>5. /\ arch.zones[z].site_buses = zone[name].site_buses
        /\ arch.zones[z].word_buses
                = [k \in DOMAIN zone[name].word_buses |->
                     [src |-> GlobalAll(z, zone[name].word_buses[k].src), dst |-> GlobalAll(z, zone[name].word_buses[k].dst)]]
    <3>1. \A i \in DOMAIN registered :
             /\ arch.zones[i].site_buses = zone[registered[i]].site_buses
             /\ arch.zones[i].word_buses
                  = [k \in DOMAIN zone[registered[i]].word_buses |->
                       [src |-> GlobalAll(i, zone[registered[i]].word_buses[k].src),
                        dst |-> GlobalAll(i, zone[registered[i]].word_buses[k].dst)]]
      BY BuiltZoneIs, ZenonT(60)
    <3> QED BY <1>1, <2>1, <3>1
  <2>6. \A ws : DOMAIN GlobalAll(z, ws) = DOMAIN ws
    BY DEF GlobalAll
  <2> QED BY <2>2, <2>3, <2>4, <2>5, <2>6
<1>5. DOMAIN arch.zone_buses \subseteq Nat /\ \A b \in DOMAIN arch.zone_buses : DOMAIN arch.zone_buses[b].src \subseteq Nat
  <2> DEFINE Ends == (DOMAIN job.zones) \X Seq(Nat \ {0})
  <2>1. connections \in Seq(Ends \X Ends)
    BY DEF PartsOk, ClientOk
  <2>2. arch.zone_buses = [k \in DOMAIN connections |-> BuiltConnection(connections[k])]
    BY DEF AsBuilt
  <2>3. DOMAIN connections \subseteq Nat
    BY <2>1, SeqDomain
  <2>4. ASSUME NEW b \in DOMAIN connections PROVE DOMAIN arch.zone_buses[b].src \subseteq Nat
    <3>1. connections[b] \in Ends \X Ends
      BY <2>1
    <3>2. connections[b][1][2] \in Seq(Nat \ {0})
      BY <3>1
    <3>3. arch.zone_buses[b] = BuiltConnection(connections[b])
      BY <2>2
    <3>4. DOMAIN BuiltConnection(connections[b]).src = DOMAIN connections[b][1][2]
      BY DEF BuiltConnection
    <3> QED BY <3>2, <3>3, <3>4, SeqDomain
  <2> QED BY <2>2, <2>3, <2>4
<1>6. \A type \in {"site", "word", "zone"}, z \in DOMAIN arch.zones :
          /\ DOMAIN BusesOf(arch, type, z) \subseteq Nat
          /\ \A b \in DOMAIN BusesOf(arch, type, z) : DOMAIN BusesOf(arch, type, z)[b].src \subseteq Nat
  BY <1>2, <1>4, <1>5 DEF BusesOf
<1> QED BY <1>1, <1>2, <1>3, <1>6 DEF LanesSorted

LEMMA Resolves == ASSUME PartsOk, AsBuilt PROVE LanesResolve
<1> DEFINE locations == [zone : DOMAIN arch.zones, word : DOMAIN arch.words, site : 1..SitesPerWord(arch)]
           Of(type, dir, at) == {Lane(type, dir, bus, at) : bus \in DOMAIN BusesOf(arch, type, at.zone)}
           lanes == UNION {Of(type, dir, at) : type \in {"site", "word"}, dir \in Entries(Directions), at \in locations}
<1>1. LanesSorted(arch)
  BY BuiltIsSorted
<1>2. \A l : l \in lanes <=> \E type \in {"site", "word"}, dir \in Entries(Directions), at \in locations : l \in Of(type, dir, at)
  <2> DEFINE All == {Of(type, dir, at) : type \in {"site", "word"}, dir \in Entries(Directions), at \in locations}
  <2>1. ASSUME NEW S \in All
        PROVE  \E type \in {"site", "word"}, dir \in Entries(Directions), at \in locations : S = Of(type, dir, at)
    <3> HIDE DEF Of, locations
    <3> QED OBVIOUS
  <2>2. ASSUME NEW type \in {"site", "word"}, NEW dir \in Entries(Directions), NEW at \in locations
        PROVE  Of(type, dir, at) \in All
    <3> HIDE DEF Of, locations
    <3> QED OBVIOUS
  <2>3. \A l : l \in UNION All <=> \E S \in All : l \in S
    OBVIOUS
  <2> HIDE DEF All, Of, locations
  <2>4. \A l : l \in UNION All <=> \E type \in {"site", "word"}, dir \in Entries(Directions), at \in locations : l \in Of(type, dir, at)
    BY <2>1, <2>2, <2>3
  <2> USE DEF All
  <2> QED BY <2>4
<1>3. \A l : l \in lanes <=>
               \E type \in {"site", "word"}, dir \in {"forward", "backward"} :
                   \E z \in DOMAIN arch.zones, w \in DOMAIN arch.words, s \in 1..SitesPerWord(arch) :
                      \E b \in DOMAIN BusesOf(arch, type, z) : l = Lane(type, dir, b, Loc(z, w, s))
  <2>1. \A at \in locations : at = Loc(at.zone, at.word, at.site)
    BY DEF Loc
  <2>2. \A z \in DOMAIN arch.zones, w \in DOMAIN arch.words, s \in 1..SitesPerWord(arch) :
           Loc(z, w, s) \in locations /\ Loc(z, w, s).zone = z
    BY DEF Loc
  <2>3. \A at \in locations : at.zone \in DOMAIN arch.zones /\ at.word \in DOMAIN arch.words /\ at.site \in 1..SitesPerWord(arch)
    OBVIOUS
  <2> HIDE DEF locations, lanes
  <2> QED BY <1>2, <2>1, <2>2, <2>3, DirectionsAre
<1> HIDE DEF lanes
<1>4. IndexedLanes(arch) = {l \in lanes : CheckLane(arch, l)}
  <2>1. \A l : l \in IndexedLanes(arch) <=> l \in lanes /\ CheckLane(arch, l)
    BY <1>1, <1>3, IndexedAreAccepted
  <2> QED BY <2>1
<1>5. \A l \in IndexedLanes(arch) :
          LET ends == EndsOf(arch, l)
              found == LaneForEndpoints(arch, ends[1], ends[2])
          IN  found # {} /\ \A m \in found : EndsOf(arch, m) = ends
  BY <1>1, EndsAreFound
<1> QED BY <1>4, <1>5 DEF LanesResolve, lanes

(***************************************************************************)
(* What is asked of the grids.                                             *)
(***************************************************************************)
LEMMA ZonesAreAlike ==
    ASSUME PartsOk, AsBuilt, NEW at, InRange(arch, at)
    PROVE  /\ at.zone \in DOMAIN arch.zones /\ at.word \in DOMAIN arch.words /\ at.site \in DOMAIN arch.words[at.word]
           /\ arch.zones[at.zone].xs \in Seq(Int) /\ arch.zones[at.zone].ys \in Seq(Int)
           /\ arch.words[at.word][at.site][1] \in DOMAIN arch.zones[at.zone].xs
           /\ arch.words[at.word][at.site][2] \in DOMAIN arch.zones[at.zone].ys
<1>1. /\ at.zone \in 1..Len(arch.zones) /\ at.word \in 1..Len(arch.words) /\ at.site \in 1..SitesPerWord(arch)
  BY DEF InRange
<1>2. /\ DOMAIN arch.zones = 1..Len(arch.zones) /\ DOMAIN arch.words = 1..Len(arch.words)
      /\ DOMAIN arch.zones = DOMAIN registered
  BY BuiltIsSorted DEF LanesSorted
<1>3. \A z \in DOMAIN arch.zones : arch.zones[z].xs \in Seq(Int) /\ arch.zones[z].ys \in Seq(Int)
  <2> SUFFICES ASSUME NEW z \in DOMAIN arch.zones PROVE arch.zones[z].xs \in Seq(Int) /\ arch.zones[z].ys \in Seq(Int)
    OBVIOUS
  <2>1. \A i \in DOMAIN registered :
           /\ registered[i] \in DOMAIN job.zones
           /\ arch.zones[i].xs = job.zones[registered[i]].xs /\ arch.zones[i].ys = job.zones[registered[i]].ys
    BY BuiltZoneIs
  <2>2. PICK name \in DOMAIN job.zones : arch.zones[z].xs = job.zones[name].xs /\ arch.zones[z].ys = job.zones[name].ys
    BY <1>2, <2>1
  <2> QED BY <2>2, ZoneFacts DEF ZoneGrids
<1>4. Structure(arch)
  BY DEF AsBuilt, Validate
<1>5. arch.words[at.word] \in Seq(Nat \X Nat)
  BY <1>1, WordsAre
<1>6. DOMAIN arch.words[at.word] = 1..SitesPerWord(arch)
  <2>1. Len(arch.words[at.word]) = SitesPerWord(arch)
    BY <1>1, <1>2, <1>4 DEF Structure
  <2> QED BY <1>5, <2>1, SeqDomain
<1>7. /\ arch.words[at.word][at.site][1] \in DOMAIN arch.zones[1].xs
      /\ arch.words[at.word][at.site][2] \in DOMAIN arch.zones[1].ys
  BY <1>1, <1>2, <1>4, <1>6 DEF Structure
<1>8. 1 \in DOMAIN arch.zones
  <2>1. Len(arch.zones) \in Nat
    BY BuiltIsSorted DEF LanesSorted
  <2> QED BY <1>1, <1>2, <2>1
<1>9. Len(arch.zones[at.zone].xs) = Len(arch.zones[1].xs) /\ Len(arch.zones[at.zone].ys) = Len(arch.zones[1].ys)
  BY <1>1, <1>2, <1>4 DEF Structure
<1>10. DOMAIN arch.zones[at.zone].xs = DOMAIN arch.zones[1].xs /\ DOMAIN arch.zones[at.zone].ys = DOMAIN arch.zones[1].ys
  BY <1>1, <1>2, <1>3, <1>8, <1>9, SeqDomain, SMTT(60)
<1> QED BY <1>1, <1>2, <1>3, <1>6, <1>7, <1>10

LEMMA InRangeIsPlaced ==
    ASSUME PartsOk, AsBuilt, NEW at, InRange(arch, at)
    PROVE  /\ Position(arch, at) = {PositionOf(arch, at)} /\ PositionOf(arch, at) \in Int \X Int
           /\ PositionOf(arch, at) = <<arch.zones[at.zone].xs[arch.words[at.word][at.site][1]],
                                       arch.zones[at.zone].ys[arch.words[at.word][at.site][2]]>>
<1> DEFINE p == <<arch.zones[at.zone].xs[arch.words[at.word][at.site][1]],
                  arch.zones[at.zone].ys[arch.words[at.word][at.site][2]]>>
<1>1. Position(arch, at) = {p}
  BY ZonesAreAlike, ZenonT(60) DEF Position
<1>2. PositionOf(arch, at) = p
  BY <1>1, ZenonT(60) DEF PositionOf
<1>3. p[1] \in Int /\ p[2] \in Int
  <2>1. \A s \in Seq(Int) : \A i \in DOMAIN s : s[i] \in Int
    OBVIOUS
  <2> QED BY <2>1, ZonesAreAlike, ZenonT(60)
<1>4. p \in Int \X Int
  BY <1>3, ZenonT(60)
<1> QED BY <1>1, <1>2, <1>4, ZenonT(60)

LEMMA EndsInRange ==
    ASSUME PartsOk, AsBuilt, NEW l \in IndexedLanes(arch)
    PROVE  /\ InRange(arch, EndsOf(arch, l)[1]) /\ InRange(arch, EndsOf(arch, l)[2])
           /\ InRange(arch, Origin(l))
           /\ l.dir = "forward" => EndsOf(arch, l)[1] = Origin(l)
           /\ l.dir # "forward" => EndsOf(arch, l)[2] = Origin(l)
<1> DEFINE at == Origin(l)
<1>1. /\ CheckLane(arch, l) /\ l.type \in {"site", "word"} /\ l.zone \in DOMAIN arch.zones
      /\ l.bus \in DOMAIN BusesOf(arch, l.type, l.zone)
  BY IndexedIsLane
<1>2. InRange(arch, at) /\ at.zone = l.zone /\ at = Loc(l.zone, l.word, l.site)
  BY <1>1 DEF CheckLane, Origin, Loc
<1>3. PICK e : /\ e \in ResolveForward(BusesOf(arch, l.type, l.zone)[l.bus], EndOf(l.type, at))
               /\ EndsOf(arch, l) = Directed(l.dir, at, AddressOf(l.type, at, e))
  BY <1>1, BuiltIsSorted, EndsAreOne
<1>4. e \in Entries(BusesOf(arch, l.type, l.zone)[l.bus].dst)
  BY <1>3 DEF ResolveForward, Entries
<1>5. ZoneValid(arch, arch.zones[l.zone])
  BY <1>1 DEF AsBuilt, Validate
<1>6. InRange(arch, AddressOf(l.type, at, e))
  <2>1. CASE l.type = "site"
    <3>1. e \in 1..SitesPerWord(arch)
      BY <1>1, <1>4, <1>5, <2>1 DEF ZoneValid, BusOver, BusesOf
    <3>2. AddressOf(l.type, at, e) = Loc(l.zone, l.word, e)
      BY <1>2, <2>1 DEF AddressOf, Loc
    <3> QED BY <1>2, <3>1, <3>2, SMTT(60) DEF InRange, Loc
  <2>2. CASE l.type = "word"
    <3>1. e \in DOMAIN arch.words /\ DOMAIN arch.words = 1..Len(arch.words)
      BY <1>1, <1>4, <1>5, <2>2, BuiltIsSorted DEF ZoneValid, BusOver, BusesOf, LanesSorted
    <3>2. AddressOf(l.type, at, e) = Loc(l.zone, e, l.site)
      BY <1>2, <2>2 DEF AddressOf, Loc
    <3> QED BY <1>2, <3>1, <3>2, SMTT(60) DEF InRange, Loc
  <2> QED BY <1>1, <2>1, <2>2
<1> QED BY <1>2, <1>3, <1>6 DEF Directed

\* The lanes asked for, and the call made of them.
Asks ==
    /\ arch # Unbuilt /\ PartsOk /\ AsBuilt
    /\ asked \subseteq IndexedLanes(arch)
    /\ \A l, m \in asked : l.type = m.type /\ l.bus = m.bus /\ l.dir = m.dir
    /\ call.sources = {Source(l) : l \in asked}
    /\ \A n \in call.sources : call.position[n] = PositionOf(arch, EndsOf(arch, LaneFrom(n))[1])

ArchInv ==
    \/ /\ phase = "idle" /\ Idle /\ asked = {}
       /\ PartsOk /\ (arch = Unbuilt \/ AsBuilt)
    \/ /\ phase # "idle" /\ GridInv
       /\ asked = {} \/ Asks

LEMMA NumberIsNat ==
    ASSUME PartsOk, AsBuilt, NEW at, InRange(arch, at)
    PROVE  Number(at) \in Nat
<1>1. PICK n \in Nat, m \in Nat : n = Len(arch.zones) /\ m = Len(arch.words)
  BY BuiltIsSorted DEF LanesSorted
<1>2. at.zone \in 1..n /\ at.word \in 1..m /\ at.site \in 1..SitesPerWord(arch)
  BY <1>1 DEF InRange
<1>3. SitesPerWord(arch) \in Nat
  <2>1. arch.words \in Seq(Seq(Nat \X Nat))
    BY WordsAre
  <2>2. \A t \in Seq(Seq(Nat \X Nat)) : t # << >> => Len(t[1]) \in Nat
    OBVIOUS
  <2> QED BY <2>1, <2>2 DEF SitesPerWord
<1>4. PICK z \in Nat, w \in Nat, s \in Nat : z = at.zone - 1 /\ w = at.word - 1 /\ s = at.site
  BY <1>2, <1>3
<1>5. z * m \in Nat
  BY <1>1, <1>4, Product
<1>6. PICK p \in Nat : p = z * m /\ p + w \in Nat
  BY <1>5
<1>7. (p + w) * SitesPerWord(arch) \in Nat
  BY <1>3, <1>6, Product
<1>8. Number(at) = (p + w) * SitesPerWord(arch) + s
  <2>1. p + at.word - 1 = p + w
    BY <1>2, <1>4
  <2> QED BY <2>1, <1>1, <1>4, <1>6 DEF Number
<1> QED BY <1>7, <1>8

\* There are finitely many locations.
LEMMA NumbersAreFinite ==
    ASSUME PartsOk, AsBuilt, NEW L \in SUBSET IndexedLanes(arch)
    PROVE  {Source(l) : l \in L} \subseteq Nat /\ IsFiniteSet({Source(l) : l \in L})
<1> DEFINE zones == 1..Len(arch.zones)
           words == 1..Len(arch.words)
           sites == 1..SitesPerWord(arch)
           f == [p \in (zones \X words) \X sites |-> Number(Loc(p[1][1], p[1][2], p[2]))]
           All == {f[p] : p \in (zones \X words) \X sites}
<1>1. Len(arch.zones) \in Nat /\ Len(arch.words) \in Nat
  BY BuiltIsSorted DEF LanesSorted
<1>2. SitesPerWord(arch) \in Nat
  <2>1. arch.words \in Seq(Seq(Nat \X Nat))
    BY WordsAre
  <2>2. \A t \in Seq(Seq(Nat \X Nat)) : t # << >> => Len(t[1]) \in Nat
    OBVIOUS
  <2> QED BY <2>1, <2>2 DEF SitesPerWord
<1>3. IsFiniteSet(zones) /\ IsFiniteSet(words) /\ IsFiniteSet(sites)
  <2>1. \A n \in Nat : IsFiniteSet(1..n)
    BY FS_Interval
  <2> QED BY <1>1, <1>2, <2>1
<1>4. ASSUME NEW l \in L PROVE Source(l) \in Nat /\ Source(l) \in All
  <2>1. PICK at : at = EndsOf(arch, l)[1] /\ InRange(arch, at)
    BY EndsInRange
  <2>2. Source(l) = Number(at)
    BY <2>1 DEF Source
  <2>3. at.zone \in zones /\ at.word \in words /\ at.site \in sites
    BY <2>1 DEF InRange
  <2>4. Number(at) = Number(Loc(at.zone, at.word, at.site))
    BY DEF Number, Loc
  <2>5. PICK p \in (zones \X words) \X sites : p = <<<<at.zone, at.word>>, at.site>>
    BY <2>3
  <2>6. f[p] = Number(Loc(at.zone, at.word, at.site))
    <3> HIDE DEF zones, words, sites
    <3> QED BY <2>5
  <2> HIDE DEF f
  <2> QED BY <2>1, <2>2, <2>4, <2>5, <2>6, NumberIsNat
<1>5. IsFiniteSet(All)
  <2> HIDE DEF zones, words, sites, f
  <2>1. IsFiniteSet((zones \X words) \X sites)
    BY <1>3, FS_Product
  <2> QED BY <2>1, ImageFinite
<1> HIDE DEF All
<1>6. {Source(l) : l \in L} \subseteq All
  BY <1>4
<1> QED BY <1>4, <1>5, <1>6, FS_Subset

\* The lanes of a group are of one type, bus and direction, and in the index.
LEMMA GroupIsOfOne ==
    ASSUME NEW type, NEW bus, NEW zones, NEW dir, NEW l \in GroupLanes(type, bus, zones, dir)
    PROVE  l \in IndexedLanes(arch) /\ l.type = type /\ l.bus = bus /\ l.dir = dir
BY DEF GroupLanes, LanesForAllZones, LanesFor

\* A call of the grids begins well.
LEMMA Begins ==
    ASSUME CallOk', phase' = IF call'.entries = {} THEN "done" ELSE "greedy",
           remaining' = Ordered(call'.entries), leftover' = << >>, rect' = NoRect, clusters' = << >>,
           pair' = <<1, 2>>, consumed' = {}, merged' = {}, solved' = << >>
    PROVE  GridInv'
<1>1. /\ call'.sources \subseteq Nat /\ IsFiniteSet(call'.sources)
      /\ call'.entries \subseteq call'.sources \cap call'.occupied
  BY DEF CallOk
<1>0. call'.entries \in SUBSET Nat /\ IsFiniteSet(call'.entries)
  BY <1>1, FS_Subset
<1>2. /\ remaining' \in Seq(call'.entries)
      /\ \A l \in call'.entries : Listed(remaining', l)
  <2> DEFINE n == Cardinality(call'.entries)
  <2>1. /\ n \in Nat /\ remaining' \in [1..n -> call'.entries]
        /\ \A l \in call'.entries : \E i \in 1..n : remaining'[i] = l
    BY <1>0, OrderedIsFair
  <2>2. remaining' \in Seq(call'.entries) /\ Len(remaining') = n
    BY <2>1
  <2> QED BY <2>1, <2>2 DEF Listed
<1>3. rect' \in ValidRects' /\ \A l : rect' \notin Covering(l)'
  BY DEF NoRect, ValidRects, Rects, ValidRect, SourcesIn, Covering
<1>4. Typed'
  BY <1>1, <1>2, <1>3 DEF Typed
<1>5. Covered'
  BY <1>1, <1>2 DEF Covered, Movable, Listed, Kept
<1>6. Exclusive'
  BY <1>1, <1>2 DEF Exclusive, Listed
<1> QED BY <1>4, <1>5, <1>6 DEF GridInv

LEMMA RequestStep ==
    ASSUME phase = "idle", Idle, PartsOk, AsBuilt, arch # Unbuilt, Requests
    PROVE  phase' = "greedy" /\ GridInv' /\ Asks'
<1>1. PICK type \in {"site", "word"}, dir \in Entries(Directions), zones \in job.requests :
         \E bus \in UNION {DOMAIN BusesOf(arch, type, z) : z \in DOMAIN arch.zones} :
            \E lanes \in {GroupLanes(type, bus, zones, dir)} :
               \E atoms \in (SUBSET {Source(l) : l \in lanes}) \ {{}} : Request(lanes, atoms)
  BY DEF Requests
<1>2. PICK bus \in UNION {DOMAIN BusesOf(arch, type, z) : z \in DOMAIN arch.zones} :
            \E lanes \in {GroupLanes(type, bus, zones, dir)} :
               \E atoms \in (SUBSET {Source(l) : l \in lanes}) \ {{}} : Request(lanes, atoms)
  BY <1>1
<1>3. PICK lanes, atoms : /\ lanes = GroupLanes(type, bus, zones, dir)
                          /\ atoms \in (SUBSET {Source(l) : l \in lanes}) \ {{}} /\ Request(lanes, atoms)
  BY <1>2
<1>4. \A l \in lanes : l \in IndexedLanes(arch) /\ l.type = type /\ l.bus = bus /\ l.dir = dir
  BY <1>3, GroupIsOfOne
<1>5. UNCHANGED builderVars /\ arch' = arch
  BY <1>3 DEF Request, builderVars
<1>6. (\A l : Source(l)' = Source(l)) /\ \A l : EndsOf(arch', l) = EndsOf(arch, l)
  BY <1>5 DEF Source, Number
<1> DEFINE sources == {Source(l) : l \in lanes}
           from(n) == CHOOSE l \in lanes : Source(l) = n
<1>7. /\ asked' = lanes /\ remaining' = Ordered(atoms) /\ phase' = "greedy"
      /\ UNCHANGED <<leftover, rect, clusters, pair, consumed, merged, solved>>
      /\ call'.sources = sources /\ call'.occupied = atoms /\ call'.entries = atoms
      /\ call'.position = [n \in sources |-> PositionOf(arch, EndsOf(arch, [m \in sources |-> from(m)][n])[1])]
  BY <1>3 DEF Request
<1>8. \A n \in sources : call'.position[n] = PositionOf(arch, EndsOf(arch, from(n))[1])
  <2> HIDE DEF sources, from
  <2> QED BY <1>7
<1>9. \A n \in sources : from(n) \in lanes /\ Source(from(n)) = n
  OBVIOUS
<1>10. sources \subseteq Nat /\ IsFiniteSet(sources)
  BY <1>4, NumbersAreFinite, ZenonT(60)
<1>11. \A n \in sources : call'.position[n] \in Int \X Int
  <2> SUFFICES ASSUME NEW n \in sources PROVE call'.position[n] \in Int \X Int
    OBVIOUS
  <2>1. from(n) \in IndexedLanes(arch)
    BY <1>4, <1>9
  <2>2. InRange(arch, EndsOf(arch, from(n))[1])
    BY <2>1, EndsInRange
  <2> HIDE DEF sources, from
  <2> QED BY <1>8, <2>2, InRangeIsPlaced, ZenonT(60)
<1>12. \A n \in sources : from(n) = LaneFrom(n)'
  BY <1>6, <1>7 DEF LaneFrom
<1>13. atoms \subseteq sources /\ atoms # {}
  BY <1>3
<1> HIDE DEF sources, from
<1>14. CallOk'
  BY <1>7, <1>10, <1>11, <1>13 DEF CallOk, At
<1>15. GridInv'
  <2>1. /\ leftover' = << >> /\ rect' = NoRect /\ clusters' = << >>
        /\ pair' = <<1, 2>> /\ consumed' = {} /\ merged' = {} /\ solved' = << >>
    BY <1>7 DEF Idle
  <2>2. phase' = IF call'.entries = {} THEN "done" ELSE "greedy"
    BY <1>7, <1>13
  <2> QED BY <1>7, <1>14, <2>1, <2>2, Begins
<1>16. Asks'
  <2>1. PartsOk' /\ AsBuilt' /\ arch' # Unbuilt
    BY <1>5, SameBuilding
  <2>2. asked' \subseteq IndexedLanes(arch')
    BY <1>4, <1>5, <1>7
  <2>3. \A l, m \in asked' : l.type = m.type /\ l.bus = m.bus /\ l.dir = m.dir
    BY <1>4, <1>7
  <2>4. call'.sources = {Source(l)' : l \in asked'}
    BY <1>6, <1>7 DEF sources
  <2>5. \A n \in call'.sources : call'.position[n] = PositionOf(arch', EndsOf(arch', LaneFrom(n)')[1])
    BY <1>5, <1>7, <1>8, <1>12
  <2> QED BY <2>1, <2>2, <2>3, <2>4, <2>5 DEF Asks
<1> QED BY <1>7, <1>15, <1>16

----------------------------------------------------------------------------
(***************************************************************************)
(* The invariant of the whole.                                             *)
(***************************************************************************)
LEMMA StandsStill == ASSUME GridInv, UNCHANGED vars PROVE GridInv'
<1>1. /\ ValidRects' = ValidRects /\ Apart' = Apart /\ Movable' = Movable
      /\ \A m : Covering(m)' = Covering(m) /\ Clashing(m)' = Clashing(m)
      /\ OneWay' = OneWay /\ CallOk' = CallOk
  BY SameCall DEF vars
<1>2. Typed'
  BY <1>1 DEF vars, GridInv, Typed
<1>3. Covered'
  BY <1>1 DEF vars, GridInv, Covered, Kept, Listed
<1>4. Exclusive'
  BY <1>1 DEF vars, GridInv, Exclusive, Listed
<1> QED BY <1>2, <1>3, <1>4 DEF GridInv

LEMMA GridStep ==
    ASSUME GridInv, [Next]_vars
    PROVE  GridInv' /\ call' = call
<1>1. CASE Grow
  BY <1>1, GrowStep DEF Grow
<1>2. CASE EndRound
  BY <1>2, EndRoundStep DEF EndRound
<1>3. CASE TryPair
  BY <1>3, TryPairStep DEF TryPair
<1>4. CASE EndPass
  BY <1>4, EndPassStep DEF EndPass
<1>5. CASE UNCHANGED vars
  BY <1>5, StandsStill DEF vars
<1> QED BY <1>1, <1>2, <1>3, <1>4, <1>5 DEF Next

LEMMA SameAsked ==
    ASSUME UNCHANGED builderVars, UNCHANGED <<asked, call>>
    PROVE  Asks' <=> Asks
<1>1. arch' = arch /\ (PartsOk' <=> PartsOk) /\ (AsBuilt' <=> AsBuilt)
  BY SameBuilding DEF builderVars
<1>2. (\A l : Source(l)' = Source(l)) /\ (\A l : EndsOf(arch', l) = EndsOf(arch, l))
  BY <1>1 DEF Source, Number
<1>3. \A n : LaneFrom(n)' = LaneFrom(n)
  BY <1>2 DEF LaneFrom
<1> QED BY <1>1, <1>2, <1>3 DEF Asks

THEOREM ArchInitInv == ArchInit => ArchInv
<1> SUFFICES ASSUME ArchInit PROVE ArchInv
  OBVIOUS
<1>1. CASE BuilderInit /\ Idle
  BY <1>1, BuilderInitOk DEF ArchInit, ArchInv, Idle
<1>2. CASE NoBuilder /\ Init
  BY <1>2, InitGridInv DEF ArchInit, ArchInv, GridInv, Typed
<1> QED BY <1>1, <1>2 DEF ArchInit

\* The invariant of the whole: a builder's parts are in order, an architecture
\* is made of them, the lanes that are asked for are of one bus and direction
\* and start where the call says, and the grids have their own invariant.
THEOREM ArchInvariant == ArchGridsSpec => []ArchInv
<1>1. ArchInv /\ [ArchNext]_allVars => ArchInv'
  <2> SUFFICES ASSUME ArchInv, [ArchNext]_allVars PROVE ArchInv'
    OBVIOUS
  <2>1. CASE phase = "idle" /\ BuilderNext /\ UNCHANGED <<vars, asked>>
    <3>1. Idle /\ asked = {} /\ PartsOk
      BY <2>1 DEF ArchInv
    <3>2. phase' = "idle" /\ Idle' /\ asked' = {}
      BY <2>1, <3>1 DEF vars, Idle
    <3> QED BY <2>1, <3>1, <3>2, BuilderStep DEF ArchInv
  <2>2. CASE phase = "idle" /\ arch # Unbuilt /\ Requests
    BY <2>2, RequestStep DEF ArchInv
  <2>3. CASE Next /\ UNCHANGED <<builderVars, asked>>
    <3>1. phase # "idle"
      BY <2>3 DEF Next, Grow, EndRound, TryPair, EndPass
    <3>2. GridInv /\ (asked = {} \/ Asks)
      BY <3>1 DEF ArchInv
    <3>3. GridInv' /\ call' = call
      BY <2>3, <3>2, GridStep
    <3>4. phase' # "idle"
      BY <3>3 DEF GridInv, Typed
    <3>5. Asks' <=> Asks
      BY <2>3, <3>3, SameAsked
    <3>6. asked' = asked
      BY <2>3
    <3> QED BY <3>2, <3>3, <3>4, <3>5, <3>6 DEF ArchInv
  <2>4. CASE UNCHANGED allVars
    <3>1. UNCHANGED builderVars /\ UNCHANGED vars /\ asked' = asked
      BY <2>4 DEF allVars
    <3>2. phase' = phase /\ call' = call /\ arch' = arch
      BY <3>1 DEF vars, builderVars
    <3>3. CASE phase = "idle"
      <4>1. Idle /\ asked = {} /\ PartsOk /\ (arch = Unbuilt \/ AsBuilt)
        BY <3>3 DEF ArchInv
      <4>2. Idle'
        BY <3>1, <4>1 DEF vars, Idle
      <4> QED BY <3>1, <3>2, <3>3, <4>1, <4>2, SameBuilding DEF ArchInv
    <3>4. CASE phase # "idle"
      <4>1. GridInv /\ (asked = {} \/ Asks)
        BY <3>4 DEF ArchInv
      <4>2. GridInv'
        BY <3>1, <4>1, StandsStill
      <4>3. Asks' <=> Asks
        BY <3>1, <3>2, SameAsked
      <4> QED BY <3>1, <3>2, <3>4, <4>1, <4>2, <4>3 DEF ArchInv
    <3> QED BY <3>3, <3>4
  <2> QED BY <2>1, <2>2, <2>3, <2>4 DEF ArchNext
<1> QED BY ArchInitInv, <1>1, PTL DEF ArchGridsSpec

LEMMA WholeByInvariant == ArchInv => GridInv \/ (phase = "idle" /\ Idle)
BY DEF ArchInv

\* A shot of a grid moves the atoms it was asked to move and no other, and no
\* two atoms are at one place after it, for every bus that leads no two of its
\* sources to one place: for the calls considered and for every group of lanes
\* of every architecture that can be built.
THEOREM GridsAreSafe == (Spec => []GridsSafe) /\ (ArchGridsSpec => []GridsSafe)
<1>1. GridInv => GridsSafe
  BY SafeByInvariant
<1>2. ArchInv => GridsSafe
  BY <1>1, WholeByInvariant DEF GridsSafe
<1> QED BY <1>1, <1>2, GridInvariant, ArchInvariant, PTL

\* No atom that can be moved alone is lost in a round, a merge or a pass.
THEOREM MoversAreCovered == (Spec => []MoversCovered) /\ (ArchGridsSpec => []MoversCovered)
<1>1. GridInv => MoversCovered
  BY CoveredByInvariant
<1>2. ArchInv => MoversCovered
  BY <1>1, WholeByInvariant DEF MoversCovered
<1> QED BY <1>1, <1>2, GridInvariant, ArchInvariant, PTL

\* On a bus that leads away from its sources no two clusters ever merge, so that
\* dropping those that did not merge loses nothing.
THEOREM MergingIsIdle == (Spec => []NothingToMerge) /\ (ArchGridsSpec => []NothingToMerge)
<1>1. GridInv => NothingToMerge
  BY IdleByInvariant
<1>2. ArchInv => NothingToMerge
  BY <1>1, WholeByInvariant DEF NothingToMerge, Idle
<1> QED BY <1>1, <1>2, GridInvariant, ArchInvariant, PTL

\* The index of the search holds exactly the site and word lanes the validator
\* accepts, and the lanes found between the ends of a lane lead between them,
\* for every architecture that a client's calls can lead to.
THEOREM LanesAlwaysResolve == ArchGridsSpec => []LanesResolve
<1>1. ArchInv => LanesResolve
  <2>1. ASSUME ArchInv, BuiltNow PROVE LanesResolve
    BY <2>1, Resolves DEF ArchInv, BuiltNow
  <2>2. ASSUME ~ BuiltNow PROVE LanesResolve
    BY <2>2 DEF LanesResolve
  <2> QED BY <2>1, <2>2
<1> QED BY <1>1, ArchInvariant, PTL

----------------------------------------------------------------------------
(***************************************************************************)
(* The grids of a group's lanes.                                           *)
(***************************************************************************)

\* A set of one member, counted.
LEMMA OneMember ==
    ASSUME NEW S, IsFiniteSet(S), Cardinality(S) = 1, NEW a \in S, NEW b \in S
    PROVE  a = b
<1>1. PICK c : S = {c}
  BY FS_Singleton
<1> QED BY <1>1

\* The lane the grids mean by one of the sources.
LEMMA LaneFromIsAsked ==
    ASSUME Asks, NEW n \in call.sources
    PROVE  LaneFrom(n) \in asked /\ Source(LaneFrom(n)) = n
<1>1. \E l \in asked : Source(l) = n
  BY DEF Asks
<1> QED BY <1>1 DEF LaneFrom

\* Lanes of one type, bus and direction have finitely many shifts and zones.
LEMMA ShiftsAreFinite ==
    ASSUME Asks, asked # {}
    PROVE  IsFiniteSet({Shift(l) : l \in asked}) /\ IsFiniteSet({l.zone : l \in asked})
<1>1. PICK n \in Nat, m \in Nat, k \in Nat : n = Len(arch.zones) /\ m = Len(arch.words) /\ k = SitesPerWord(arch)
  <2>1. Len(arch.zones) \in Nat /\ Len(arch.words) \in Nat
    BY BuiltIsSorted DEF LanesSorted, Asks
  <2>2. arch.words \in Seq(Seq(Nat \X Nat))
    BY WordsAre DEF Asks
  <2>3. \A t \in Seq(Seq(Nat \X Nat)) : t # << >> => Len(t[1]) \in Nat
    OBVIOUS
  <2>4. SitesPerWord(arch) \in Nat
    BY <2>2, <2>3 DEF SitesPerWord
  <2> QED BY <2>1, <2>4
<1>2. PICK one \in asked : TRUE
  OBVIOUS
<1> DEFINE Places == ((1..n) \X (1..m)) \X (1..k)
           f == [p \in Places |-> Shift(Lane(one.type, one.dir, one.bus, Loc(p[1][1], p[1][2], p[2])))]
           All == {f[p] : p \in Places}
<1>3. \A q \in Nat : IsFiniteSet(1..q)
  BY FS_Interval
<1>4. IsFiniteSet(Places)
  BY <1>3, FS_Product
<1>5. ASSUME NEW l \in asked PROVE Shift(l) \in All /\ l.zone \in 1..n
  <2>1. /\ l \in IndexedLanes(arch) /\ PartsOk /\ AsBuilt
        /\ l.type = one.type /\ l.bus = one.bus /\ l.dir = one.dir
    BY <1>2 DEF Asks
  <2>2. InRange(arch, Origin(l))
    BY <2>1, EndsInRange
  <2>3. Origin(l) = Loc(l.zone, l.word, l.site) /\ l = Lane(one.type, one.dir, one.bus, Loc(l.zone, l.word, l.site))
    BY <2>1, IndexedIsLane
  <2>4. l.zone \in 1..n /\ l.word \in 1..m /\ l.site \in 1..k
    BY <1>1, <2>2, <2>3 DEF InRange, Loc
  <2>5. PICK p \in Places : p = <<<<l.zone, l.word>>, l.site>>
    BY <2>4
  <2>6. f[p] = Shift(Lane(one.type, one.dir, one.bus, Loc(p[1][1], p[1][2], p[2])))
    <3> HIDE DEF Places
    <3> QED OBVIOUS
  <2>7. f[p] = Shift(l)
    <3>1. p[1][1] = l.zone /\ p[1][2] = l.word /\ p[2] = l.site
      BY <2>5
    <3> HIDE DEF f
    <3> QED BY <2>3, <2>6, <3>1
  <2> HIDE DEF f
  <2> QED BY <2>4, <2>7
<1>6. IsFiniteSet(All)
  <2> HIDE DEF Places, f
  <2> QED BY <1>4, ImageFinite
<1> HIDE DEF All
<1>7. {Shift(l) : l \in asked} \subseteq All /\ {l.zone : l \in asked} \subseteq 1..n
  BY <1>5
<1> QED BY <1>3, <1>6, <1>7, FS_Subset

\* A lane's address is its source, moved by one and the same shift: none when
\* the lanes are forward, their own when it is common to them.
LEMMA AddressesAreShifted ==
    ASSUME Asks, asked # {},
           (\A l \in asked : l.dir = "forward") \/ Cardinality({Shift(l) : l \in asked}) = 1
    PROVE  \E dx \in Int, dy \in Int : \A l \in asked : \A p \in Int \X Int :
              PositionOf(arch, EndsOf(arch, l)[1]) = p => PositionOf(arch, Origin(l)) = <<p[1] + dx, p[2] + dy>>
<1>0. PartsOk /\ AsBuilt /\ \A l \in asked : l \in IndexedLanes(arch)
  BY DEF Asks
<1>1. \A p \in Int \X Int : p = <<p[1] + 0, p[2] + 0>>
  OBVIOUS
<1>2. CASE \A l \in asked : l.dir = "forward"
  <2>1. \A l \in asked : EndsOf(arch, l)[1] = Origin(l)
    BY <1>0, <1>2, EndsInRange
  <2>2. \A l \in asked : \A p \in Int \X Int :
           PositionOf(arch, EndsOf(arch, l)[1]) = p => PositionOf(arch, Origin(l)) = <<p[1] + 0, p[2] + 0>>
    BY <1>1, <2>1
  <2>3. 0 \in Int
    OBVIOUS
  <2> QED BY <2>2, <2>3
<1>3. CASE ~ \A l \in asked : l.dir = "forward"
  <2>1. PICK one \in asked : one.dir # "forward"
    BY <1>3
  <2>2. \A l \in asked : l.dir # "forward"
    BY <2>1 DEF Asks
  <2>3. \A l \in asked : Shift(l) = Shift(one)
    <3>1. \A s, t \in {Shift(l) : l \in asked} : s = t
      BY <1>3, ShiftsAreFinite, OneMember, SMTT(60)
    <3> QED BY <2>1, <3>1
  <2>4. ASSUME NEW l \in asked
        PROVE  /\ PositionOf(arch, EndsOf(arch, l)[1]) \in Int \X Int
               /\ PositionOf(arch, EndsOf(arch, l)[2]) \in Int \X Int /\ EndsOf(arch, l)[2] = Origin(l)
    BY <1>0, <2>2, EndsInRange, InRangeIsPlaced, ZenonT(60)
  <2>5. PICK p \in Int \X Int, q \in Int \X Int :
          /\ p = PositionOf(arch, EndsOf(arch, one)[1]) /\ q = PositionOf(arch, EndsOf(arch, one)[2])
    BY <2>4
  <2>6. PICK dx \in Int, dy \in Int : dx = q[1] - p[1] /\ dy = q[2] - p[2]
    OBVIOUS
  <2>7. Shift(one) = <<dx, dy>>
    BY <2>5, <2>6 DEF Shift
  <2>8. ASSUME NEW l \in asked, NEW a \in Int \X Int, PositionOf(arch, EndsOf(arch, l)[1]) = a
        PROVE  PositionOf(arch, Origin(l)) = <<a[1] + dx, a[2] + dy>>
    <3>1. PICK b \in Int \X Int : b = PositionOf(arch, EndsOf(arch, l)[2])
      BY <2>4
    <3>2. <<b[1] - a[1], b[2] - a[2]>> = <<dx, dy>>
      BY <2>3, <2>7, <2>8, <3>1 DEF Shift
    <3>3. b[1] - a[1] = dx /\ b[2] - a[2] = dy
      BY <3>2
    <3>4. b[1] = a[1] + dx /\ b[2] = a[2] + dy /\ b = <<b[1], b[2]>>
      BY <3>3
    <3> QED BY <2>4, <3>1, <3>4
  <2> QED BY <2>8
<1> QED BY <1>2, <1>3

\* The positions of a valid rectangle's sources, moved as one, are a rectangle.
LEMMA RectangleMoved ==
    ASSUME NEW xs \in SUBSET Int, NEW ys \in SUBSET Int, NEW dx \in Int, NEW dy \in Int, NEW at,
           \A p : p \in at <=> \E x \in xs, y \in ys : p = <<x + dx, y + dy>>
    PROVE  at = {p[1] : p \in at} \X {p[2] : p \in at}
<1>1. ASSUME NEW p \in at PROVE p \in {q[1] : q \in at} \X {q[2] : q \in at}
  <2>1. PICK x \in xs, y \in ys : p = <<x + dx, y + dy>>
    OBVIOUS
  <2>2. p = <<p[1], p[2]>>
    BY <2>1
  <2> QED BY <2>2
<1>2. ASSUME NEW p \in at, NEW q \in at PROVE <<p[1], q[2]>> \in at
  <2>1. PICK x \in xs, y \in ys : p = <<x + dx, y + dy>>
    OBVIOUS
  <2>2. PICK v \in xs, w \in ys : q = <<v + dx, w + dy>>
    OBVIOUS
  <2>3. <<p[1], q[2]>> = <<x + dx, w + dy>>
    BY <2>1, <2>2
  <2> QED BY <2>3
<1>3. ASSUME NEW p \in {q[1] : q \in at} \X {q[2] : q \in at} PROVE p \in at
  <2>1. PICK a \in at, b \in at : p = <<a[1], b[2]>>
    OBVIOUS
  <2> QED BY <2>1, <1>2
<1> QED BY <1>1, <1>3

LEMMA GridPasses ==
    ASSUME GridInv, Asks, asked # {}, Cardinality({l.zone : l \in asked}) = 1,
           (\A l \in asked : l.dir = "forward") \/ Cardinality({Shift(l) : l \in asked}) = 1,
           NEW r \in ValidRects
    PROVE  CheckLanes(arch, GridLanes(r))
<1> DEFINE S == SourcesIn(r)
           n == Cardinality(S)
           order == Ordered(S)
           lanes == GridLanes(r)
<1>0. /\ PartsOk /\ AsBuilt /\ asked \subseteq IndexedLanes(arch)
      /\ \A l, m \in asked : l.type = m.type /\ l.bus = m.bus /\ l.dir = m.dir
      /\ \A k \in call.sources : call.position[k] = PositionOf(arch, EndsOf(arch, LaneFrom(k))[1])
  BY DEF Asks
<1>1. S \subseteq call.sources /\ S \in SUBSET Nat /\ IsFiniteSet(S)
  <2>1. S \subseteq call.sources /\ call.sources \subseteq Nat /\ IsFiniteSet(call.sources)
    BY DEF SourcesIn, GridInv, Typed, CallOk
  <2> QED BY <2>1, FS_Subset
<1>2. /\ n \in Nat /\ order \in [1..n -> S]
      /\ \A i, j \in 1..n : order[i] = order[j] => i = j
      /\ \A m \in S : \E i \in 1..n : order[i] = m
  BY <1>1, OrderedIsFair
<1>3. lanes = [i \in 1..n |-> LaneFrom(order[i])]
  BY <1>2 DEF GridLanes
<1> HIDE DEF lanes, order, n, S
<1>4. DOMAIN lanes = 1..n
  BY <1>3
<1>5. ASSUME NEW i \in 1..n
      PROVE  /\ lanes[i] = LaneFrom(order[i]) /\ order[i] \in call.sources
             /\ lanes[i] \in asked /\ lanes[i] \in IndexedLanes(arch) /\ Source(lanes[i]) = order[i]
  <2>1. order[i] \in call.sources
    BY <1>1, <1>2
  <2>2. lanes[i] = LaneFrom(order[i])
    BY <1>3
  <2> QED BY <1>0, <2>1, <2>2, LaneFromIsAsked
<1>6. Distinct(lanes)
  BY <1>2, <1>4, <1>5 DEF Distinct
<1>7. \A i \in 1..n : CheckLane(arch, lanes[i])
  BY <1>5, IndexedIsLane
<1>8. \A i \in 1..n : Member(arch, lanes[i].type, Origin(lanes[i]))
  BY <1>7 DEF CheckLane
<1>9. Consistent(lanes)
  <2>1. \A y, z \in {l.zone : l \in asked} : y = z
    BY ShiftsAreFinite, OneMember
  <2>2. \A l, m \in asked : l.zone = m.zone
    BY <2>1
  <2>3. \A i \in 1..n : 1 \in 1..n
    BY <1>2, SMTT(60)
  <2> QED BY <1>0, <1>4, <1>5, <2>2, <2>3 DEF Consistent
<1>10. ASSUME NEW i \in 1..n
       PROVE  Position(arch, Origin(lanes[i])) = {PositionOf(arch, Origin(lanes[i]))}
  BY <1>0, <1>5, EndsInRange, InRangeIsPlaced, ZenonT(60)
<1>11. PICK dx \in Int, dy \in Int : \A l \in asked : \A p \in Int \X Int :
          PositionOf(arch, EndsOf(arch, l)[1]) = p => PositionOf(arch, Origin(l)) = <<p[1] + dx, p[2] + dy>>
  BY AddressesAreShifted
<1> DEFINE at == UNION {Position(arch, Origin(lanes[i])) : i \in DOMAIN lanes}
<1>12. \A p : p \in at <=> \E i \in 1..n : p = PositionOf(arch, Origin(lanes[i]))
  BY <1>4, <1>10
<1>13. \A i \in 1..n : PositionOf(arch, EndsOf(arch, lanes[i])[1]) = At(order[i]) /\ At(order[i]) \in Int \X Int
  BY <1>0, <1>5 DEF At, GridInv, Typed, CallOk
<1>14. \A i \in 1..n : PositionOf(arch, Origin(lanes[i])) = <<At(order[i])[1] + dx, At(order[i])[2] + dy>>
  BY <1>5, <1>11, <1>13
<1>15. /\ r.xs \in SUBSET Int /\ r.ys \in SUBSET Int
       /\ \A x \in r.xs, y \in r.ys : \E l \in S : At(l) = <<x, y>>
       /\ \A l \in S : At(l)[1] \in r.xs /\ At(l)[2] \in r.ys
  BY DEF ValidRects, Rects, ValidRect, S, SourcesIn
<1> HIDE DEF at
<1>16. ASSUME NEW p PROVE p \in at <=> \E x \in r.xs, y \in r.ys : p = <<x + dx, y + dy>>
  <2>1. ASSUME p \in at PROVE \E x \in r.xs, y \in r.ys : p = <<x + dx, y + dy>>
    <3>1. PICK i \in 1..n : p = <<At(order[i])[1] + dx, At(order[i])[2] + dy>>
      BY <1>12, <1>14, <2>1
    <3>2. order[i] \in S
      BY <1>2
    <3> QED BY <1>15, <3>1, <3>2
  <2>2. ASSUME NEW x \in r.xs, NEW y \in r.ys, p = <<x + dx, y + dy>> PROVE p \in at
    <3>1. PICK l \in S : At(l) = <<x, y>>
      BY <1>15
    <3>2. PICK i \in 1..n : order[i] = l
      BY <1>2
    <3>3. p = <<At(order[i])[1] + dx, At(order[i])[2] + dy>>
      BY <2>2, <3>1, <3>2
    <3> QED BY <1>12, <1>14, <3>3
  <2> QED BY <2>1, <2>2
<1>17. at = {p[1] : p \in at} \X {p[2] : p \in at}
  BY <1>15, <1>16, RectangleMoved
<1>18. Geometry(arch, lanes)
  BY <1>4, <1>10, <1>17 DEF Geometry, at
<1> QED BY <1>4, <1>6, <1>7, <1>8, <1>9, <1>18 DEF CheckLanes, lanes

\* The grids of one zone's lanes that shift alike, or forward, are lane groups
\* that the checks of the architecture take.
THEOREM OwnGridsAlwaysPass == ArchGridsSpec => []OwnGridsPass
<1>1. ArchInv => OwnGridsPass
  <2> SUFFICES ASSUME ArchInv, phase = "done", asked # {}, Cardinality({l.zone : l \in asked}) = 1,
                      (\A l \in asked : l.dir = "forward") \/ Cardinality({Shift(l) : l \in asked}) = 1,
                      NEW r \in Grids
               PROVE  CheckLanes(arch, GridLanes(r))
    BY DEF OwnGridsPass
  <2>1. GridInv /\ Asks
    BY DEF ArchInv
  <2>2. r \in ValidRects
    BY <2>1 DEF GridInv, Typed, Grids
  <2> QED BY <2>1, <2>2, GridPasses
<1> QED BY <1>1, ArchInvariant, PTL

----------------------------------------------------------------------------
(***************************************************************************)
(* Where the builder's words are.                                          *)
(***************************************************************************)

\* The number of a cell, row by row.
LEMMA QuotientIs ==
    ASSUME NEW a \in Nat, NEW p \in Nat, NEW q \in Nat, NEW r \in Nat, NEW t \in Nat, r < a, t < a,
           a * p + r = a * q + t
    PROVE  p = q /\ r = t
<1>1. ASSUME NEW x \in Nat, NEW y \in Nat, NEW u \in Nat, NEW v \in Nat, u < a, x < y, a * x + u = a * y + v PROVE FALSE
  <2>1. x + 1 <= y /\ x + 1 \in Nat
    BY <1>1
  <2>2. a * (x + 1) <= a * y
    BY <2>1, ProductRises
  <2>3. a * (x + 1) = a * x + a
    OBVIOUS
  <2>4. PICK c \in Nat, d \in Nat : c = a * x /\ d = a * y
    BY Product
  <2>5. c + a <= d /\ c + u = d + v
    BY <1>1, <2>2, <2>3, <2>4
  <2> QED BY <1>1, <2>5
<1>2. p = q
  BY <1>1
<1>3. PICK c \in Nat : c = a * p /\ c = a * q
  BY <1>2, Product
<1>4. c + r = c + t
  BY <1>3
<1> QED BY <1>2, <1>4

InCell(a, k, x, y) == 1 + ((k - 1) % a) = x /\ 1 + ((k - 1) \div a) = y

LEMMA CellOf ==
    ASSUME NEW a \in Nat, NEW b \in Nat, NEW x \in 1..a, NEW y \in 1..b
    PROVE  \E k \in 1..(a * b) : InCell(a, k, x, y)
<1>1. PICK p \in Nat, r \in Nat : p = y - 1 /\ r = x - 1 /\ r < a /\ p + 1 <= b /\ a # 0
  OBVIOUS
<1>2. PICK c \in Nat : c = a * p
  BY Product
<1>3. a * (p + 1) <= a * b /\ a * (p + 1) = c + a
  BY <1>1, <1>2, ProductRises
<1>4. PICK d \in Nat : d = a * b
  BY Product
<1>5. c + r + 1 \in 1..d
  BY <1>1, <1>3, <1>4
<1>6. PICK k \in 1..d : k = c + r + 1
  BY <1>5
<1>7. PICK m \in Nat : m = k - 1 /\ m = c + r
  BY <1>6
<1>8. /\ m \div a \in Nat /\ m % a \in Nat /\ m % a < a /\ m = a * (m \div a) + (m % a)
  BY <1>1, DivMod
<1>9. PICK q \in Nat, t \in Nat : q = m \div a /\ t = m % a
  BY <1>8
<1>10. a * p + r = a * q + t /\ t < a
  BY <1>2, <1>7, <1>8, <1>9
<1>11. p = q /\ r = t
  BY <1>1, <1>10, QuotientIs
<1> QED BY <1>1, <1>4, <1>6, <1>7, <1>9, <1>11 DEF InCell

\* Words that have not grown since are where the offsets say.
LEMMA OffsetsArePlaces ==
    ASSUME PartsOk, AsBuilt, ~ Grown
    PROVE  WordsFrom(offsets)
<1>1. PICK n \in Nat : n = Len(registered) /\ DOMAIN registered = 1..n
  BY DEF PartsOk, RegisteredOk
<1>2. PICK o : WordsFrom(o)
  BY WordsAre
<1>3. n # 0 => offsets[1] = 0
  <2>1. n # 0 => registered # << >>
    BY <1>1
  <2> QED BY <2>1 DEF PartsOk, RegisteredOk
<1>4. \A i \in 1..n : i > 1 => offsets[i] = offsets[i - 1] + Len(zone[registered[i - 1]].words)
  BY <1>1 DEF Grown, ZoneIds
<1> DEFINE S == {m \in Nat : m + 1 \in 1..n => offsets[m + 1] = o[m + 1]}
<1>5. 0 \in S
  BY <1>1, <1>2, <1>3 DEF WordsFrom
<1>6. ASSUME NEW m \in Nat, m \in S PROVE m + 1 \in S
  <2> SUFFICES ASSUME (m + 1) + 1 \in 1..n PROVE offsets[(m + 1) + 1] = o[(m + 1) + 1]
    OBVIOUS
  <2>1. PICK j \in 1..n : j = (m + 1) + 1 /\ j # 1 /\ j > 1 /\ j - 1 = m + 1 /\ m + 1 \in 1..n
    BY <1>1
  <2>2. offsets[m + 1] = o[m + 1]
    BY <1>6, <2>1
  <2>3. o[j] = o[j - 1] + Len(zone[registered[j - 1]].words)
    BY <1>1, <1>2, <2>1 DEF WordsFrom
  <2>4. offsets[j] = offsets[j - 1] + Len(zone[registered[j - 1]].words)
    BY <1>4, <2>1
  <2> QED BY <2>1, <2>2, <2>3, <2>4
<1>7. \A i \in 1..n : offsets[i] = o[i]
  <2>1. Nat \subseteq S
    <3> HIDE DEF S
    <3> QED BY <1>5, <1>6, Induction
  <2> SUFFICES ASSUME NEW i \in 1..n PROVE offsets[i] = o[i]
    OBVIOUS
  <2>2. PICK m \in Nat : m + 1 = i
    BY <1>1
  <2> QED BY <2>1, <2>2
<1>8. /\ n # 0 => o[1] = 0 /\ Len(arch.words) = o[n] + Len(zone[registered[n]].words)
      /\ \A i \in 1..n : i # 1 => o[i] = o[i - 1] + Len(zone[registered[i - 1]].words)
      /\ \A i \in 1..n : /\ o[i] \in Nat /\ o[i] + Len(zone[registered[i]].words) <= Len(arch.words)
                          /\ \A w \in 1..Len(zone[registered[i]].words) :
                                arch.words[o[i] + w] = zone[registered[i]].words[w]
      /\ \A j \in 1..Len(arch.words) : \E i \in 1..n : \E w \in 1..Len(zone[registered[i]].words) : j = o[i] + w
  BY <1>1, <1>2 DEF WordsFrom
<1>9. n # 0 => n \in 1..n /\ 1 \in 1..n
  BY <1>1
<1>10. \A i \in 1..n : i # 1 => i - 1 \in 1..n
  BY <1>1
<1>11. /\ n # 0 => offsets[1] = 0 /\ Len(arch.words) = offsets[n] + Len(zone[registered[n]].words)
       /\ \A i \in 1..n : i # 1 => offsets[i] = offsets[i - 1] + Len(zone[registered[i - 1]].words)
  BY <1>7, <1>8, <1>9, <1>10
<1>12. ASSUME NEW i \in 1..n
       PROVE  /\ offsets[i] \in Nat /\ offsets[i] + Len(zone[registered[i]].words) <= Len(arch.words)
              /\ \A w \in 1..Len(zone[registered[i]].words) :
                    arch.words[offsets[i] + w] = zone[registered[i]].words[w]
  <2>1. offsets[i] = o[i]
    BY <1>7
  <2> QED BY <1>8, <2>1
<1>13. ASSUME NEW j \in 1..Len(arch.words)
       PROVE  \E i \in 1..n : \E w \in 1..Len(zone[registered[i]].words) : j = offsets[i] + w
  <2>1. PICK i \in 1..n : \E w \in 1..Len(zone[registered[i]].words) : j = o[i] + w
    BY <1>8
  <2>2. offsets[i] = o[i]
    BY <1>7
  <2> QED BY <2>1, <2>2
<1> QED BY <1>1, <1>11, <1>12, <1>13 DEF WordsFrom

\* Where word w of the i-th zone is.
LEMMA PlacedAsMeant ==
    ASSUME PartsOk, AsBuilt, ~ Grown, NEW i \in DOMAIN registered, NEW w \in Local(registered[i])
    PROVE  /\ Global(i, w) \in DOMAIN arch.words /\ Global(i, w) \in Nat /\ i \in DOMAIN arch.zones
           /\ \A v \in Local(registered[i]) : Global(i, v) = Global(i, w) => v = w
           /\ Sites(registered[i]) = SitesPerWord(arch) /\ SitesPerWord(arch) \in Nat
           /\ \A s \in 1..SitesPerWord(arch) :
                 /\ InRange(arch, Loc(i, Global(i, w), s))
                 /\ PositionOf(arch, Loc(i, Global(i, w), s)) = SiteAt(registered[i], w, s)
<1>1. PICK n \in Nat : n = Len(registered) /\ DOMAIN registered = 1..n
  BY DEF PartsOk, RegisteredOk
<1>2. PICK name \in DOMAIN job.zones : name = registered[i]
  BY DEF PartsOk, RegisteredOk
<1>3. zone[name].words \in Seq(Seq(Nat \X Nat)) /\ Sites(name) \in Nat
  BY ZoneFacts DEF ZoneRecords
<1>4. PICK l \in Nat : l = Len(zone[name].words) /\ Local(name) = 1..l
  BY <1>3, SeqDomain DEF Local
<1>5. /\ offsets[i] \in Nat /\ offsets[i] + l <= Len(arch.words)
      /\ \A v \in 1..l : arch.words[offsets[i] + v] = zone[name].words[v]
  BY <1>1, <1>2, <1>4, OffsetsArePlaces DEF WordsFrom
<1>6. PICK m \in Nat : m = Len(arch.words) /\ DOMAIN arch.words = 1..m
  BY BuiltIsSorted DEF LanesSorted
<1>7. PICK o \in Nat : o = offsets[i] /\ o + l <= m
  BY <1>5, <1>6
<1>8. w \in 1..l
  BY <1>2, <1>4
<1>9. \A v \in 1..l : Global(i, v) = o + v /\ o + v \in 1..m /\ o + v \in Nat
  <2> SUFFICES ASSUME NEW v \in 1..l PROVE o + v \in 1..m /\ o + v \in Nat
    BY <1>7 DEF Global
  <2>1. v \in Int /\ 1 <= v /\ v <= l
    OBVIOUS
  <2> QED BY <1>7, <2>1
<1>10. \A v \in 1..l : o + v = o + w => v = w
  BY <1>8
<1>11. arch.words[o + w] = zone[name].words[w]
  BY <1>5, <1>7, <1>8
<1>12. i \in DOMAIN arch.zones /\ arch.zones[i].xs = job.zones[name].xs /\ arch.zones[i].ys = job.zones[name].ys
  BY <1>2, BuiltZoneIs
<1>13. Len(zone[name].words[w]) = Sites(name)
  <2>1. RecordOk(job.zones[name], zone[name]) /\ Sites(name) = job.zones[name].shape[1] * job.zones[name].shape[2]
    BY ZoneFacts
  <2>2. w \in DOMAIN zone[name].words
    BY <1>2 DEF Local
  <2> QED BY <2>1, <2>2 DEF RecordOk
<1>14. Sites(name) = SitesPerWord(arch)
  <2>1. Structure(arch)
    BY DEF AsBuilt, Validate
  <2>2. Len(arch.words[o + w]) = SitesPerWord(arch)
    BY <1>6, <1>8, <1>9, <2>1, SMTT(60) DEF Structure
  <2> QED BY <1>11, <1>13, <2>2
<1>15. ASSUME NEW s \in 1..SitesPerWord(arch)
       PROVE  /\ InRange(arch, Loc(i, Global(i, w), s))
              /\ PositionOf(arch, Loc(i, Global(i, w), s)) = SiteAt(registered[i], w, s)
  <2>1. i \in 1..Len(arch.zones)
    BY <1>12, BuiltIsSorted DEF LanesSorted
  <2>2. PICK at : /\ at = Loc(i, Global(i, w), s)
                  /\ at.zone = i /\ at.word = o + w /\ at.site = s
    <3>1. Global(i, w) = o + w
      BY <1>8, <1>9
    <3>2. Loc(i, o + w, s).zone = i /\ Loc(i, o + w, s).word = o + w /\ Loc(i, o + w, s).site = s
      BY DEF Loc
    <3> QED BY <3>1, <3>2
  <2>3. InRange(arch, at)
    BY <1>6, <1>8, <1>9, <2>1, <2>2, SMTT(60) DEF InRange
  <2>4. PositionOf(arch, at) = <<arch.zones[i].xs[arch.words[o + w][s][1]], arch.zones[i].ys[arch.words[o + w][s][2]]>>
    BY <2>2, <2>3, InRangeIsPlaced, ZenonT(60)
  <2> QED BY <1>2, <1>11, <1>12, <2>2, <2>3, <2>4 DEF SiteAt
<1> QED BY <1>2, <1>3, <1>4, <1>6, <1>8, <1>9, <1>10, <1>12, <1>14, <1>15

\* An end that is named first where it is named leads to its partner.
LEMMA FirstNamedResolves ==
    ASSUME NEW bus, DOMAIN bus.src \subseteq Nat, NEW k \in DOMAIN bus.src \cap DOMAIN bus.dst,
           \A j \in DOMAIN bus.src : j < k => bus.src[j] # bus.src[k]
    PROVE  ResolveForward(bus, bus.src[k]) = {bus.dst[k]}
<1> DEFINE S == {j \in DOMAIN bus.src : bus.src[j] = bus.src[k]}
<1>1. k \in S /\ S \subseteq Nat /\ \A j \in S : k <= j
  <2>1. ASSUME NEW j \in S PROVE k <= j
    <3>1. j \in Nat /\ k \in Nat /\ ~ (j < k)
      OBVIOUS
    <3> QED BY <3>1
  <2> QED BY <2>1
<1>2. FirstIn(S) = {k}
  BY <1>1 DEF FirstIn
<1> QED BY <1>2 DEF ResolveForward

LEMMA LeadsBetween ==
    ASSUME NEW lane, NEW from, NEW to, NEW p, NEW q, LaneEndpoints(arch, lane) = {<<from, to>>},
           PositionOf(arch, from) = p, PositionOf(arch, to) = q
    PROVE  LeadsTo(lane, p, q)
<1>1. {<<PositionOf(arch, ends[1]), PositionOf(arch, ends[2])>> : ends \in {<<from, to>>}} = {<<p, q>>}
  <2>1. <<from, to>>[1] = from /\ <<from, to>>[2] = to
    OBVIOUS
  <2>2. \A ends \in {<<from, to>>} : <<PositionOf(arch, ends[1]), PositionOf(arch, ends[2])>> = <<p, q>>
    BY <2>1, SMTT(60)
  <2> QED BY <2>2
<1> QED BY <1>1 DEF LeadsTo

\* A lane of a word bus leads from the place meant to the place meant.
LEMMA WordBusLeads ==
    ASSUME PartsOk, AsBuilt, ~ Grown, NEW i \in DOMAIN registered, NEW n \in DOMAIN zone[registered[i]].word_buses,
           NEW bus, bus = zone[registered[i]].word_buses[n],
           NEW k \in DOMAIN bus.src, NamedFirst(bus.src, k), NEW s \in 1..SitesPerWord(arch)
    PROVE  LeadsTo(Lane("word", "forward", n, Loc(i, Global(i, bus.src[k]), s)),
                   PlaceOf(i, bus.src[k], s), PlaceOf(i, bus.dst[k], s))
<1>1. PICK z \in DOMAIN job.zones : z = registered[i]
  BY DEF PartsOk, RegisteredOk
<1>2. bus \in Buses /\ Matched(bus, Local(z)) /\ zone[z].word_buses # << >>
  <2>1. zone[z].word_buses \in Seq(Buses) /\ RecordOk(job.zones[z], zone[z])
    BY ZoneFacts DEF ZoneRecords
  <2>2. n \in DOMAIN zone[z].word_buses
    BY <1>1
  <2> QED BY <1>1, <2>1, <2>2 DEF RecordOk, Local
<1>3. bus.src \in Seq(Int) /\ bus.dst \in Seq(Int) /\ Len(bus.src) = Len(bus.dst)
  BY <1>2 DEF Buses, Matched
<1>4. DOMAIN bus.src = DOMAIN bus.dst /\ DOMAIN bus.src \subseteq Nat
  BY <1>3, SeqDomain
<1>5. \A j \in DOMAIN bus.src : bus.src[j] \in Local(z) /\ bus.dst[j] \in Local(z)
  BY <1>2, <1>4 DEF Matched, Entries
<1>6. PICK global : global = [src |-> GlobalAll(i, bus.src), dst |-> GlobalAll(i, bus.dst)]
  OBVIOUS
<1>7. /\ DOMAIN global.src = DOMAIN bus.src /\ DOMAIN global.dst = DOMAIN bus.dst
      /\ \A j \in DOMAIN bus.src : global.src[j] = Global(i, bus.src[j]) /\ global.dst[j] = Global(i, bus.dst[j])
  BY <1>4, <1>6 DEF GlobalAll
<1>8. n \in DOMAIN BusesOf(arch, "word", i) /\ BusesOf(arch, "word", i)[n] = global
  <2>1. arch.zones[i].word_buses
          = [m \in DOMAIN zone[registered[i]].word_buses |->
               [src |-> GlobalAll(i, zone[registered[i]].word_buses[m].src),
                dst |-> GlobalAll(i, zone[registered[i]].word_buses[m].dst)]]
    BY BuiltZoneIs
  <2> QED BY <1>1, <1>6, <2>1 DEF BusesOf
<1>9. ResolveForward(global, Global(i, bus.src[k])) = {Global(i, bus.dst[k])}
  <2>1. \A j \in DOMAIN bus.src : j < k => bus.src[j] # bus.src[k]
    <3>1. \A j \in DOMAIN bus.src : j < k => j \in 1..(k - 1)
      BY <1>3, SeqDomain
    <3> QED BY <3>1 DEF NamedFirst
  <2>2. \A j \in DOMAIN bus.src : Global(i, bus.src[j]) = Global(i, bus.src[k]) => bus.src[j] = bus.src[k]
    BY <1>1, <1>5, PlacedAsMeant
  <2>3. \A j \in DOMAIN global.src : j < k => global.src[j] # global.src[k]
    BY <1>7, <2>1, <2>2
  <2>4. ResolveForward(global, global.src[k]) = {global.dst[k]}
    BY <1>4, <1>7, <2>3, FirstNamedResolves
  <2> QED BY <1>7, <2>4
<1>10. PICK at : at = Loc(i, Global(i, bus.src[k]), s)
  OBVIOUS
<1>11. PICK to : to = Loc(i, Global(i, bus.dst[k]), s)
  OBVIOUS
<1>12. /\ InRange(arch, at) /\ PositionOf(arch, at) = PlaceOf(i, bus.src[k], s)
       /\ PositionOf(arch, to) = PlaceOf(i, bus.dst[k], s) /\ Sites(z) = SitesPerWord(arch)
  BY <1>1, <1>5, <1>10, <1>11, PlacedAsMeant DEF PlaceOf
<1>13. at.zone = i /\ at.word = Global(i, bus.src[k]) /\ at.site = s /\ [at EXCEPT !.word = Global(i, bus.dst[k])] = to
  BY <1>10, <1>11 DEF Loc
<1>14. PICK lane : lane = Lane("word", "forward", n, at)
  BY SMTT(60)
<1>15. /\ lane.type = "word" /\ lane.dir = "forward" /\ lane.bus = n /\ Origin(lane) = at
  <2>1. lane.zone = at.zone /\ lane.word = at.word /\ lane.site = at.site
    BY <1>14 DEF Lane
  <2> QED BY <1>10, <1>13, <1>14, <2>1 DEF Lane, Origin
<1>16. EndOf("word", at) = Global(i, bus.src[k]) /\ \A e : AddressOf("word", at, e) = [at EXCEPT !.word = e]
  BY <1>13 DEF EndOf, AddressOf
<1>17. Member(arch, "word", at)
  <2>1. arch.zones[i].sites_with_word_buses = {t \in 1..Sites(registered[i]) : zone[registered[i]].word_buses # << >>}
    BY BuiltZoneIs, ZenonT(60)
  <2> QED BY <1>1, <1>2, <1>12, <1>13, <2>1 DEF Member
<1>18. LaneEndpoints(arch, lane) = {<<at, to>>}
  <2>1. CheckLane(arch, lane)
    BY <1>8, <1>9, <1>12, <1>13, <1>15, <1>16, <1>17 DEF CheckLane
  <2>2. LaneEndpoints(arch, lane) = {Directed("forward", at, AddressOf("word", at, e)) : e \in {Global(i, bus.dst[k])}}
    BY <1>8, <1>9, <1>13, <1>15, <1>16, <2>1 DEF LaneEndpoints
  <2>3. Directed("forward", at, AddressOf("word", at, Global(i, bus.dst[k]))) = <<at, to>>
    BY <1>13, <1>16 DEF Directed
  <2> QED BY <2>2, <2>3
<1> QED BY <1>10, <1>12, <1>14, <1>18, LeadsBetween

\* A lane of a site bus leads from the place meant to the place meant, if its word
\* was to have site buses, and is no lane if it was not.
SiteLaneAsBuilt(i, w, n, k) ==
    LET bus == zone[registered[i]].site_buses[n]
        lane == Lane("site", "forward", n, Loc(i, Global(i, w), bus.src[k]))
    IN  NamedFirst(bus.src, k) =>
           IF zone[registered[i]].hasSiteBus[w]
           THEN LeadsTo(lane, PlaceOf(i, w, bus.src[k]), PlaceOf(i, w, bus.dst[k]))
           ELSE LaneEndpoints(arch, lane) = {}

LEMMA SiteBusLeads ==
    ASSUME PartsOk, AsBuilt, ~ Grown, NEW i \in DOMAIN registered, NEW w \in Local(registered[i]),
           NEW n \in DOMAIN zone[registered[i]].site_buses,
           NEW k \in DOMAIN zone[registered[i]].site_buses[n].src
    PROVE  SiteLaneAsBuilt(i, w, n, k)
<1>1. PICK z \in DOMAIN job.zones : z = registered[i]
  BY DEF PartsOk, RegisteredOk
<1>2. PICK bus : bus = zone[z].site_buses[n]
  OBVIOUS
<1>3. bus \in Buses /\ Matched(bus, 1..Sites(z)) /\ zone[z].site_buses # << >>
  <2>1. zone[z].site_buses \in Seq(Buses) /\ RecordOk(job.zones[z], zone[z])
        /\ Sites(z) = job.zones[z].shape[1] * job.zones[z].shape[2]
    BY ZoneFacts DEF ZoneRecords
  <2>2. n \in DOMAIN zone[z].site_buses
    BY <1>1
  <2> QED BY <1>2, <2>1, <2>2 DEF RecordOk
<1>4. bus.src \in Seq(Int) /\ bus.dst \in Seq(Int) /\ Len(bus.src) = Len(bus.dst)
  BY <1>3 DEF Buses, Matched
<1>5. DOMAIN bus.src = DOMAIN bus.dst /\ DOMAIN bus.src \subseteq Nat /\ k \in DOMAIN bus.src
  BY <1>1, <1>2, <1>4, SeqDomain
<1>6. Sites(z) = SitesPerWord(arch) /\ Global(i, w) \in Nat
  BY <1>1, PlacedAsMeant
<1>7. bus.src[k] \in 1..SitesPerWord(arch) /\ bus.dst[k] \in 1..SitesPerWord(arch)
  BY <1>3, <1>5, <1>6 DEF Matched, Entries
<1>8. n \in DOMAIN BusesOf(arch, "site", i) /\ BusesOf(arch, "site", i)[n] = bus
  <2>1. arch.zones[i].site_buses = zone[registered[i]].site_buses
    BY BuiltZoneIs
  <2> QED BY <1>1, <1>2, <2>1 DEF BusesOf
<1>9. PICK at : at = Loc(i, Global(i, w), bus.src[k])
  OBVIOUS
<1>10. PICK to : to = Loc(i, Global(i, w), bus.dst[k])
  OBVIOUS
<1>11. /\ InRange(arch, at) /\ PositionOf(arch, at) = PlaceOf(i, w, bus.src[k])
       /\ PositionOf(arch, to) = PlaceOf(i, w, bus.dst[k])
  BY <1>7, <1>9, <1>10, PlacedAsMeant DEF PlaceOf
<1>12. /\ at.zone = i /\ at.word = Global(i, w) /\ at.site = bus.src[k]
       /\ [at EXCEPT !.site = bus.dst[k]] = to
  BY <1>9, <1>10 DEF Loc
<1>13. PICK lane : lane = Lane("site", "forward", n, at)
  BY SMTT(60)
<1>14. /\ lane.type = "site" /\ lane.dir = "forward" /\ lane.bus = n /\ Origin(lane) = at
  <2>1. lane.zone = at.zone /\ lane.word = at.word /\ lane.site = at.site
    BY <1>13 DEF Lane
  <2> QED BY <1>9, <1>12, <1>13, <2>1 DEF Lane, Origin
<1>15. EndOf("site", at) = bus.src[k] /\ \A e : AddressOf("site", at, e) = [at EXCEPT !.site = e]
  BY <1>12 DEF EndOf, AddressOf
<1>16. Member(arch, "site", at) <=> zone[z].hasSiteBus[w]
  <2>1. arch.zones[i].words_with_site_buses
          = {Global(i, v) : v \in {u \in Local(z) : zone[z].hasSiteBus[u] /\ zone[z].site_buses # << >>}}
    <3>1. arch.zones[i].words_with_site_buses
            = {Global(i, v) : v \in {u \in Local(registered[i]) :
                  zone[registered[i]].hasSiteBus[u] /\ zone[registered[i]].site_buses # << >>}}
      BY BuiltZoneIs, ZenonT(60)
    <3> QED BY <1>1, <3>1
  <2>2. \A v \in Local(z) : Global(i, v) = Global(i, w) => v = w
    BY <1>1, PlacedAsMeant
  <2>3. Member(arch, "site", at) <=> Global(i, w) \in arch.zones[i].words_with_site_buses
    BY <1>12 DEF Member
  <2> QED BY <1>1, <1>3, <2>1, <2>2, <2>3
<1>17. CASE ~ zone[z].hasSiteBus[w]
  <2>1. ~ CheckLane(arch, lane)
    BY <1>14, <1>16, <1>17 DEF CheckLane
  <2>2. LaneEndpoints(arch, lane) = {}
    BY <2>1 DEF LaneEndpoints
  <2> QED BY <1>1, <1>2, <1>9, <1>13, <1>17, <2>2 DEF SiteLaneAsBuilt
<1>18. CASE zone[z].hasSiteBus[w]
  <2> SUFFICES ASSUME NamedFirst(bus.src, k) PROVE LeadsTo(lane, PlaceOf(i, w, bus.src[k]), PlaceOf(i, w, bus.dst[k]))
    BY <1>1, <1>2, <1>9, <1>13, <1>18 DEF SiteLaneAsBuilt
  <2>1. ResolveForward(bus, bus.src[k]) = {bus.dst[k]}
    <3>1. \A j \in DOMAIN bus.src : j < k => j \in 1..(k - 1)
      BY <1>4, <1>5, SeqDomain
    <3>2. \A j \in DOMAIN bus.src : j < k => bus.src[j] # bus.src[k]
      BY <3>1 DEF NamedFirst
    <3> QED BY <1>5, <3>2, FirstNamedResolves
  <2>2. CheckLane(arch, lane)
    BY <1>8, <1>11, <1>12, <1>14, <1>15, <1>16, <1>18, <2>1 DEF CheckLane
  <2>3. LaneEndpoints(arch, lane) = {Directed("forward", at, AddressOf("site", at, e)) : e \in {bus.dst[k]}}
    BY <1>8, <1>12, <1>14, <1>15, <2>1, <2>2 DEF LaneEndpoints
  <2>4. Directed("forward", at, AddressOf("site", at, bus.dst[k])) = <<at, to>>
    BY <1>12, <1>15 DEF Directed
  <2>5. LaneEndpoints(arch, lane) = {<<at, to>>}
    BY <2>3, <2>4
  <2> QED BY <1>11, <2>5, LeadsBetween
<1> QED BY <1>17, <1>18

LEMMA IdOfIs ==
    ASSUME PartsOk, NEW z, Registered(z)
    PROVE  IdOf(z) \in DOMAIN registered /\ registered[IdOf(z)] = z
BY DEF IdOf, Registered, Entries

\* A lane of a bus between zones leads back from where it leads to.
LEMMA ZoneBusLeads ==
    ASSUME PartsOk, AsBuilt, ~ Grown, NEW n \in DOMAIN connections, NEW c, c = connections[n],
           NEW k \in DOMAIN c[1][2], NamedFirst(c[1][2], k), NEW s \in 1..SitesPerWord(arch),
           NEW y, y = IdOf(c[1][1]), NEW z, z = IdOf(c[2][1])
    PROVE  LeadsTo(Lane("zone", "backward", n, Loc(y, Global(y, c[1][2][k]), s)),
                   PlaceOf(z, c[2][2][k], s), PlaceOf(y, c[1][2][k], s))
<1> DEFINE Ends == (DOMAIN job.zones) \X Seq(Nat \ {0})
<1>1. c \in Ends \X Ends /\ EndOk(c[1]) /\ EndOk(c[2])
  BY DEF PartsOk, ClientOk
<1>2. PICK from, to : from = c[1][2] /\ to = c[2][2] /\ from \in Seq(Nat \ {0}) /\ to \in Seq(Nat \ {0})
  BY <1>1
<1>3. /\ y \in DOMAIN registered /\ registered[y] = c[1][1] /\ z \in DOMAIN registered /\ registered[z] = c[2][1]
  BY <1>1, IdOfIs DEF EndOk
<1>4. PICK bus : bus = BuiltConnection(c)
  OBVIOUS
<1>5. /\ bus.src = [j \in DOMAIN from |-> <<y, Global(y, from[j])>>]
      /\ bus.dst = [j \in DOMAIN to |-> <<z, Global(z, to[j])>>]
  BY <1>2, <1>4 DEF BuiltConnection
<1>6. DOMAIN arch.zone_buses = DOMAIN connections /\ arch.zone_buses[n] = bus
  BY <1>4 DEF AsBuilt
<1>7. PICK a \in Nat, b \in Nat : a = Len(from) /\ b = Len(to) /\ DOMAIN from = 1..a /\ DOMAIN to = 1..b
  BY <1>2, SeqDomain
<1>8. Len(bus.src) = a /\ Len(bus.dst) = b /\ DOMAIN bus.src = 1..a /\ DOMAIN bus.dst = 1..b
  <2>1. bus.src = [j \in 1..a |-> bus.src[j]] /\ bus.dst = [j \in 1..b |-> bus.dst[j]]
    BY <1>5, <1>7
  <2> QED BY <2>1, MappedIs
<1>9. a = b
  <2>1. BusOver(bus, (DOMAIN arch.zones) \X (DOMAIN arch.words))
    BY <1>6 DEF AsBuilt, Validate, ZoneBusesValid
  <2> QED BY <1>8, <2>1 DEF BusOver
<1>10. k \in 1..a
  BY <1>2, <1>7
<1>11. /\ \A j \in 1..a : from[j] \in Local(registered[y]) /\ bus.src[j] = <<y, Global(y, from[j])>>
       /\ \A j \in 1..a : to[j] \in Local(registered[z]) /\ bus.dst[j] = <<z, Global(z, to[j])>>
  BY <1>1, <1>2, <1>3, <1>5, <1>7, <1>9, ZenonT(60) DEF EndOk, Entries
<1>12. ResolveForward(bus, <<y, Global(y, from[k])>>) = {<<z, Global(z, to[k])>>}
  <2>1. \A j \in 1..a : j < k => from[j] # from[k]
    <3>1. \A j \in 1..a : j < k => j \in 1..(k - 1)
      BY <1>10
    <3> QED BY <1>2, <3>1 DEF NamedFirst
  <2>2. \A j \in 1..a : Global(y, from[j]) = Global(y, from[k]) => from[j] = from[k]
    BY <1>3, <1>10, <1>11, PlacedAsMeant
  <2>3. \A j \in 1..a : j < k => bus.src[j] # bus.src[k]
    <3>1. \A j \in 1..a : bus.src[j] = bus.src[k] => Global(y, from[j]) = Global(y, from[k])
      BY <1>10, <1>11
    <3> QED BY <2>1, <2>2, <3>1
  <2>4. ResolveForward(bus, bus.src[k]) = {bus.dst[k]}
    <3>1. k \in DOMAIN bus.src \cap DOMAIN bus.dst /\ DOMAIN bus.src \subseteq Nat
      BY <1>8, <1>9, <1>10
    <3>2. \A j \in DOMAIN bus.src : j < k => bus.src[j] # bus.src[k]
      BY <1>8, <2>3
    <3> QED BY <3>1, <3>2, FirstNamedResolves
  <2> QED BY <1>10, <1>11, <2>4
<1>13. PICK at : at = Loc(y, Global(y, from[k]), s)
  OBVIOUS
<1>14. PICK end : end = Loc(z, Global(z, to[k]), s)
  OBVIOUS
<1>15. /\ InRange(arch, at) /\ PositionOf(arch, at) = PlaceOf(y, from[k], s)
       /\ PositionOf(arch, end) = PlaceOf(z, to[k], s)
  BY <1>3, <1>10, <1>11, <1>13, <1>14, PlacedAsMeant DEF PlaceOf
<1>16. /\ at.zone = y /\ at.word = Global(y, from[k]) /\ at.site = s
       /\ [at EXCEPT !.zone = z, !.word = Global(z, to[k])] = end
  <2>1. at.zone = y /\ at.word = Global(y, from[k]) /\ at.site = s
    BY <1>13 DEF Loc
  <2>2. PICK g, h : g = Global(y, from[k]) /\ h = Global(z, to[k])
    OBVIOUS
  <2>3. [Loc(y, g, s) EXCEPT !.zone = z, !.word = h] = Loc(z, h, s)
    <3>1. [Loc(y, g, s) EXCEPT !.zone = z, !.word = h] = [[Loc(y, g, s) EXCEPT !.zone = z] EXCEPT !.word = h]
      OBVIOUS
    <3>2. [Loc(y, g, s) EXCEPT !.zone = z] = Loc(z, g, s)
      BY DEF Loc
    <3>3. [Loc(z, g, s) EXCEPT !.word = h] = Loc(z, h, s)
      BY DEF Loc
    <3> QED BY <3>1, <3>2, <3>3
  <2> QED BY <1>13, <1>14, <2>1, <2>2, <2>3
<1>17. PICK lane : lane = Lane("zone", "backward", n, at)
  OBVIOUS
<1>18. /\ lane.type = "zone" /\ lane.dir = "backward" /\ lane.bus = n /\ Origin(lane) = at
  <2>1. lane.zone = at.zone /\ lane.word = at.word /\ lane.site = at.site
    BY <1>17 DEF Lane
  <2> QED BY <1>13, <1>16, <1>17, <2>1 DEF Lane, Origin
<1>19. /\ EndOf("zone", at) = <<y, Global(y, from[k])>> /\ AddressOf("zone", at, <<z, Global(z, to[k])>>) = end
       /\ Member(arch, "zone", at) /\ BusesOf(arch, "zone", y) = arch.zone_buses
  BY <1>16 DEF EndOf, AddressOf, Member, BusesOf
<1>20. LaneEndpoints(arch, lane) = {<<end, at>>}
  <2>1. CheckLane(arch, lane)
    BY <1>6, <1>12, <1>15, <1>16, <1>18, <1>19 DEF CheckLane
  <2>2. LaneEndpoints(arch, lane) = {Directed("backward", at, AddressOf("zone", at, e)) : e \in {<<z, Global(z, to[k])>>}}
    BY <1>6, <1>12, <1>16, <1>18, <1>19, <2>1 DEF LaneEndpoints
  <2>3. Directed("backward", at, AddressOf("zone", at, <<z, Global(z, to[k])>>)) = <<end, at>>
    BY <1>19 DEF Directed
  <2> QED BY <2>2, <2>3
<1> QED BY <1>2, <1>13, <1>15, <1>17, <1>20, LeadsBetween

\* The bits of a mode are the sites of its zones.
Places == [zone : Nat, word : Nat, site : Nat]
BitsOf(z) == [k \in 1..(Len(zone[z].words) * Sites(z)) |->
                Loc(IdOf(z), Global(IdOf(z), 1 + ((k - 1) \div Sites(z))), 1 + ((k - 1) % Sites(z)))]
SiteOf(z, at) == \E w \in Local(z), t \in 1..Sites(z) : at = Loc(IdOf(z), Global(IdOf(z), w), t)

LEMMA BitsOfZone ==
    ASSUME PartsOk, NEW z, Registered(z)
    PROVE  /\ BitsOf(z) \in Seq(Places)
           /\ \A at : (\E k \in 1..Len(BitsOf(z)) : BitsOf(z)[k] = at) <=> SiteOf(z, at)
<1>0. PICK s : s = BitsOf(z)
  OBVIOUS
<1>1. /\ IdOf(z) \in DOMAIN registered /\ registered[IdOf(z)] = z /\ DOMAIN registered \subseteq Nat
      /\ DOMAIN offsets = DOMAIN registered /\ offsets \in Seq(Nat) /\ z \in DOMAIN job.zones
  <2>1. IdOf(z) \in DOMAIN registered /\ registered[IdOf(z)] = z
    BY IdOfIs
  <2>2. registered \in Seq(DOMAIN job.zones) /\ offsets \in Seq(Nat) /\ Len(offsets) = Len(registered)
    BY DEF PartsOk, RegisteredOk
  <2> QED BY <2>1, <2>2, SeqDomain
<1>2. PICK i \in Nat, o \in Nat : i = IdOf(z) /\ o = offsets[i]
  BY <1>1
<1>3. PICK a \in Nat, b \in Nat : a = Sites(z) /\ b = Len(zone[z].words) /\ Local(z) = 1..b
  <2>1. zone[z].words \in Seq(Seq(Nat \X Nat)) /\ Sites(z) \in Nat
    BY <1>1, ZoneFacts DEF ZoneRecords
  <2> QED BY <2>1, SeqDomain DEF Local
<1>4. PICK m \in Nat : m = a * b /\ m = b * a
  BY Product
<1> DEFINE f(k) == Loc(i, o + (1 + ((k - 1) \div a)), 1 + ((k - 1) % a))
<1>5. s = [k \in 1..m |-> f(k)]
  BY <1>0, <1>2, <1>3, <1>4 DEF Global, BitsOf
<1>6. ASSUME NEW k \in 1..m
      PROVE  \E w \in 1..b, t \in 1..a : f(k) = Loc(i, o + w, t) /\ f(k) \in Places
  <2>1. 1 + ((k - 1) % a) \in 1..a /\ 1 + ((k - 1) \div a) \in 1..b
    BY <1>4, Cells
  <2>2. PICK t \in 1..a, w \in 1..b : t = 1 + ((k - 1) % a) /\ w = 1 + ((k - 1) \div a)
    BY <2>1
  <2>3. f(k) = Loc(i, o + w, t)
    BY <2>2
  <2>4. Loc(i, o + w, t) \in Places
    BY DEF Loc, Places
  <2> HIDE DEF f
  <2> QED BY <2>3, <2>4
<1>7. ASSUME NEW w \in 1..b, NEW t \in 1..a PROVE \E k \in 1..m : f(k) = Loc(i, o + w, t)
  <2>1. \E k \in 1..(a * b) : InCell(a, k, t, w)
    BY CellOf
  <2>2. PICK k \in 1..m : 1 + ((k - 1) % a) = t /\ 1 + ((k - 1) \div a) = w
    BY <1>4, <2>1 DEF InCell
  <2> QED BY <2>2
<1> HIDE DEF f
<1>8. s \in [1..m -> Places]
  BY <1>5, <1>6
<1>9. s \in Seq(Places) /\ Len(s) = m
  BY <1>8, ListedIn
<1>10. \A k \in 1..m : s[k] = f(k)
  BY <1>5
<1>11. \A at : SiteOf(z, at) <=> \E w \in 1..b, t \in 1..a : at = Loc(i, o + w, t)
  <2>1. \A w : Global(IdOf(z), w) = o + w
    BY <1>2 DEF Global
  <2> QED BY <1>2, <1>3, <2>1 DEF SiteOf
<1>12. ASSUME NEW k \in 1..m PROVE SiteOf(z, s[k])
  BY <1>6, <1>10, <1>11
<1>13. ASSUME NEW at, SiteOf(z, at) PROVE \E k \in 1..m : s[k] = at
  <2>1. PICK w \in 1..b, t \in 1..a : at = Loc(i, o + w, t)
    BY <1>11, <1>13
  <2>2. PICK k \in 1..m : f(k) = Loc(i, o + w, t)
    BY <1>7
  <2> QED BY <1>10, <2>1, <2>2
<1> QED BY <1>0, <1>9, <1>12, <1>13

LEMMA BitsAre ==
    ASSUME PartsOk, NEW names \in Seq(DOMAIN job.zones), \A z \in Entries(names) : Registered(z)
    PROVE  \A at : at \in Entries(Bits(names)) <=> \E z \in Entries(names) : SiteOf(z, at)
<1>1. PICK n \in Nat : n = Len(names) /\ DOMAIN names = 1..n
  BY SeqDomain
<1>2. \A j \in 1..n : Registered(names[j]) /\ names[j] \in Entries(names)
  BY <1>1 DEF Entries
<1>3. ASSUME NEW j \in 1..n
      PROVE  /\ BitsOf(names[j]) \in Seq(Places)
             /\ \A at : (\E k \in 1..Len(BitsOf(names[j])) : BitsOf(names[j])[k] = at) <=> SiteOf(names[j], at)
  BY <1>2, BitsOfZone
<1>4. PICK seqs : seqs = [j \in 1..n |-> BitsOf(names[j])]
  OBVIOUS
<1>5. Bits(names) = FlattenSeq(seqs)
  BY <1>1, <1>4 DEF Bits, BitsOf
<1>6. \A j \in 1..n : seqs[j] = BitsOf(names[j])
  BY <1>4
<1>7. seqs \in [1..n -> Seq(Places)]
  BY <1>3, <1>4
<1>8. seqs \in Seq(Seq(Places)) /\ Len(seqs) = n
  BY <1>7, ListedIn
<1>9. PICK flat \in Seq(Places) : flat = FlattenSeq(seqs)
  BY <1>8, FlattenedIs
<1>10. PICK o : Laid(seqs, o, n, flat)
  BY <1>8, <1>9, FlattenedIs
<1>11. PICK m \in Nat : m = Len(flat) /\ DOMAIN flat = 1..m
  BY <1>9, SeqDomain
<1>12. ASSUME NEW at, at \in Entries(flat) PROVE \E z \in Entries(names) : SiteOf(z, at)
  <2>1. PICK q \in 1..m : flat[q] = at
    BY <1>11, <1>12 DEF Entries
  <2>2. PICK j \in 1..n : \E w \in 1..Len(seqs[j]) : q = o[j] + w
    BY <1>10, <1>11 DEF Laid
  <2>3. PICK w \in 1..Len(seqs[j]) : q = o[j] + w
    BY <2>2
  <2>4. seqs[j][w] = at
    BY <1>10, <2>1, <2>3 DEF Laid
  <2> QED BY <1>2, <1>3, <1>6, <2>4
<1>13. ASSUME NEW at, NEW z \in Entries(names), SiteOf(z, at) PROVE at \in Entries(flat)
  <2>1. PICK j \in 1..n : z = names[j]
    BY <1>1 DEF Entries
  <2>2. PICK w \in 1..Len(seqs[j]) : seqs[j][w] = at
    <3>1. \E k \in 1..Len(BitsOf(names[j])) : BitsOf(names[j])[k] = at
      BY <1>3, <1>13, <2>1
    <3> QED BY <1>6, <3>1
  <2>3. o[j] \in Nat /\ o[j] + Len(seqs[j]) <= m /\ flat[o[j] + w] = at
    BY <1>10, <1>11, <2>2 DEF Laid
  <2>4. PICK a \in Nat, l \in Nat : a = o[j] /\ l = Len(seqs[j])
    BY <1>7, <2>3, SeqDomain
  <2>5. a + w \in 1..m
    <3>1. w \in Int /\ 1 <= w /\ w <= l
      BY <2>4
    <3>2. a + l <= m
      BY <2>3, <2>4
    <3> QED BY <3>1, <3>2
  <2> QED BY <1>11, <2>3, <2>4, <2>5 DEF Entries
<1>14. \A at : at \in Entries(flat) <=> \E z \in Entries(names) : SiteOf(z, at)
  BY <1>12, <1>13
<1> QED BY <1>5, <1>9, <1>14

\* A mode reads the sites of its zones.
ReadsItsZones(n) ==
    {PositionOf(arch, at) : at \in Entries(arch.modes[n])}
      = UNION {{SiteAt(z, w, s) : w \in Local(z), s \in 1..Sites(z)} : z \in Entries(modes[n])}

LEMMA ModeReads == ASSUME PartsOk, AsBuilt, ~ Grown, NEW n \in DOMAIN modes PROVE ReadsItsZones(n)
<1>1. PICK names : /\ names = modes[n] /\ names \in Seq(DOMAIN job.zones)
                   /\ \A z \in Entries(names) : Registered(z)
  <2>1. modes \in Seq(Seq(DOMAIN job.zones)) /\ \A m \in DOMAIN modes : \A z \in Entries(modes[m]) : Registered(z)
    BY DEF PartsOk, ClientOk
  <2> QED BY <2>1
<1>2. arch.modes[n] = Bits(names)
  BY <1>1 DEF AsBuilt
<1> DEFINE Of(z) == {SiteAt(z, w, s) : w \in Local(z), s \in 1..Sites(z)}
<1>3. ASSUME NEW z \in Entries(names), NEW w \in Local(z), NEW t \in 1..Sites(z)
      PROVE  PositionOf(arch, Loc(IdOf(z), Global(IdOf(z), w), t)) = SiteAt(z, w, t)
  <2>1. PICK i \in DOMAIN registered : i = IdOf(z) /\ registered[i] = z
    BY <1>1, IdOfIs
  <2>2. w \in Local(registered[i])
    BY <2>1
  <2>3. Sites(registered[i]) = SitesPerWord(arch)
    BY <2>2, PlacedAsMeant
  <2>4. PositionOf(arch, Loc(i, Global(i, w), t)) = SiteAt(registered[i], w, t)
    BY <2>1, <2>2, <2>3, PlacedAsMeant
  <2> QED BY <2>1, <2>4
<1>4. \A at : at \in Entries(Bits(names)) <=>
         \E z \in Entries(names) : \E w \in Local(z), t \in 1..Sites(z) : at = Loc(IdOf(z), Global(IdOf(z), w), t)
  BY <1>1, BitsAre DEF SiteOf
<1>5. \A z, p : p \in Of(z) <=> \E w \in Local(z), t \in 1..Sites(z) : p = SiteAt(z, w, t)
  OBVIOUS
<1> HIDE DEF Of
<1>6. ASSUME NEW p
      PROVE  p \in {PositionOf(arch, at) : at \in Entries(Bits(names))} <=> p \in UNION {Of(z) : z \in Entries(names)}
  <2>1. ASSUME NEW at \in Entries(Bits(names)), p = PositionOf(arch, at)
        PROVE  p \in UNION {Of(z) : z \in Entries(names)}
    <3>1. PICK z \in Entries(names) : \E w \in Local(z), t \in 1..Sites(z) : at = Loc(IdOf(z), Global(IdOf(z), w), t)
      BY <1>4
    <3>2. PICK w \in Local(z), t \in 1..Sites(z) : at = Loc(IdOf(z), Global(IdOf(z), w), t)
      BY <3>1
    <3>3. p = SiteAt(z, w, t)
      BY <1>3, <2>1, <3>2
    <3> QED BY <1>5, <3>3
  <2>2. ASSUME NEW z \in Entries(names), p \in Of(z)
        PROVE  p \in {PositionOf(arch, at) : at \in Entries(Bits(names))}
    <3>1. PICK w \in Local(z), t \in 1..Sites(z) : p = SiteAt(z, w, t)
      BY <1>5, <2>2
    <3>2. PICK at : at = Loc(IdOf(z), Global(IdOf(z), w), t)
      OBVIOUS
    <3>3. at \in Entries(Bits(names)) /\ p = PositionOf(arch, at)
      BY <1>3, <1>4, <3>1, <3>2
    <3> QED BY <3>3
  <2> QED BY <2>1, <2>2
<1>7. {PositionOf(arch, at) : at \in Entries(Bits(names))} = UNION {Of(z) : z \in Entries(names)}
  BY <1>6
<1> USE DEF Of
<1>8. {PositionOf(arch, at) : at \in Entries(Bits(names))}
        = UNION {{SiteAt(z, w, s) : w \in Local(z), s \in 1..Sites(z)} : z \in Entries(names)}
  BY <1>7
<1> HIDE DEF Of
<1>9. {PositionOf(arch, at) : at \in Entries(arch.modes[n])} = {PositionOf(arch, at) : at \in Entries(Bits(names))}
  BY <1>2
<1>10. UNION {{SiteAt(z, w, s) : w \in Local(z), s \in 1..Sites(z)} : z \in Entries(modes[n])}
        = UNION {{SiteAt(z, w, s) : w \in Local(z), s \in 1..Sites(z)} : z \in Entries(names)}
  BY <1>1
<1> QED BY <1>8, <1>9, <1>10 DEF ReadsItsZones

LEMMA LeadsSo == ASSUME PartsOk, AsBuilt PROVE LeadsAsBuilt
<1> SUFFICES ASSUME ~ Grown PROVE LeadsAsBuilt
  BY DEF LeadsAsBuilt
<1>1. ASSUME NEW i \in ZoneIds, NEW s \in 1..SitesPerWord(arch)
      PROVE  \A n \in DOMAIN zone[registered[i]].word_buses :
                \A k \in DOMAIN zone[registered[i]].word_buses[n].src :
                    NamedFirst(zone[registered[i]].word_buses[n].src, k) =>
                       LeadsTo(Lane("word", "forward", n, Loc(i, Global(i, zone[registered[i]].word_buses[n].src[k]), s)),
                               PlaceOf(i, zone[registered[i]].word_buses[n].src[k], s),
                               PlaceOf(i, zone[registered[i]].word_buses[n].dst[k], s))
  BY WordBusLeads, Zenon DEF ZoneIds
<1>2. ASSUME NEW n \in DOMAIN connections, NEW k \in DOMAIN connections[n][1][2],
             NamedFirst(connections[n][1][2], k), NEW s \in 1..SitesPerWord(arch)
      PROVE  LeadsTo(Lane("zone", "backward", n,
                          Loc(IdOf(connections[n][1][1]), Global(IdOf(connections[n][1][1]), connections[n][1][2][k]), s)),
                     PlaceOf(IdOf(connections[n][2][1]), connections[n][2][2][k], s),
                     PlaceOf(IdOf(connections[n][1][1]), connections[n][1][2][k], s))
  BY <1>2, ZoneBusLeads, Zenon
<1>3. ASSUME NEW n \in DOMAIN modes PROVE ReadsItsZones(n)
  BY ModeReads
<1>4. ASSUME NEW i \in ZoneIds, NEW w \in Local(registered[i])
      PROVE  \A n \in DOMAIN zone[registered[i]].site_buses :
                \A k \in DOMAIN zone[registered[i]].site_buses[n].src : SiteLaneAsBuilt(i, w, n, k)
  BY SiteBusLeads, Zenon DEF ZoneIds
<1>5. SiteLanesLead
  BY <1>4 DEF SiteLanesLead, SiteLaneAsBuilt
<1>6. WordLanesLead
  BY <1>1 DEF WordLanesLead
<1>7. ZoneLanesLead
  BY <1>2 DEF ZoneLanesLead
<1>8. ModesReadZones
  BY <1>3 DEF ModesReadZones, ReadsItsZones
<1> QED BY <1>5, <1>6, <1>7, <1>8 DEF LeadsAsBuilt

\* In an architecture whose zones were complete when they were added every lane
\* leads from the place its client meant to the place its client meant, buses
\* between zones included, words that were to have no site buses have no lanes of
\* them, and a mode reads every site of its zones, for every architecture that a
\* client's calls can lead to.
THEOREM LanesLeadAsBuilt == ArchGridsSpec => []LeadsAsBuilt
<1>1. ArchInv => LeadsAsBuilt
  <2>1. ASSUME ArchInv, BuiltNow PROVE LeadsAsBuilt
    BY <2>1, LeadsSo DEF ArchInv, BuiltNow
  <2>2. ASSUME ~ BuiltNow PROVE LeadsAsBuilt
    BY <2>2 DEF LeadsAsBuilt
  <2> QED BY <2>1, <2>2
<1> QED BY <1>1, ArchInvariant, PTL

----------------------------------------------------------------------------
(***************************************************************************)
(* Partners.                                                               *)
(***************************************************************************)

\* The words of different zones have different numbers.
LEMMA GlobalsApart ==
    ASSUME PartsOk, AsBuilt, ~ Grown, NEW i \in DOMAIN registered, NEW j \in DOMAIN registered,
           NEW v \in Local(registered[i]), NEW w \in Local(registered[j]), Global(i, v) = Global(j, w)
    PROVE  i = j /\ v = w
<1>1. PICK n \in Nat : n = Len(registered) /\ DOMAIN registered = 1..n
  BY DEF PartsOk, RegisteredOk
<1> DEFINE size(k) == Len(zone[registered[k]].words)
           S == {d \in Nat : \A k \in 1..n : k + (d + 1) \in 1..n => offsets[k] + size(k) <= offsets[k + (d + 1)]}
<1>2. \A k \in 1..n : offsets[k] \in Nat /\ size(k) \in Nat /\ Local(registered[k]) = 1..size(k)
  <2> SUFFICES ASSUME NEW k \in 1..n
               PROVE  offsets[k] \in Nat /\ size(k) \in Nat /\ Local(registered[k]) = 1..size(k)
    OBVIOUS
  <2>1. PICK z \in DOMAIN job.zones : z = registered[k]
    BY <1>1 DEF PartsOk, RegisteredOk
  <2>2. zone[z].words \in Seq(Seq(Nat \X Nat))
    BY ZoneFacts DEF ZoneRecords
  <2>3. offsets[k] \in Nat
    BY <1>1, OffsetsArePlaces DEF WordsFrom
  <2> QED BY <2>1, <2>2, <2>3, SeqDomain DEF Local
<1>3. \A k \in 1..n : k # 1 => offsets[k] = offsets[k - 1] + size(k - 1)
  BY <1>1, OffsetsArePlaces DEF WordsFrom
<1> HIDE DEF size
<1>4. 0 \in S
  <2> SUFFICES ASSUME NEW k \in 1..n, k + (0 + 1) \in 1..n PROVE offsets[k] + size(k) <= offsets[k + (0 + 1)]
    OBVIOUS
  <2>1. PICK m \in 1..n : m = k + 1 /\ m # 1 /\ m - 1 = k
    BY <1>1
  <2>2. offsets[m] = offsets[k] + size(k) /\ offsets[m] \in Nat
    BY <1>2, <1>3, <2>1
  <2> QED BY <2>1, <2>2
<1>5. ASSUME NEW d \in Nat, d \in S PROVE d + 1 \in S
  <2> SUFFICES ASSUME NEW k \in 1..n, k + ((d + 1) + 1) \in 1..n
               PROVE  offsets[k] + size(k) <= offsets[k + ((d + 1) + 1)]
    OBVIOUS
  <2>1. PICK m \in 1..n, l \in 1..n : l = k + (d + 1) /\ m = l + 1 /\ m # 1 /\ m - 1 = l /\ m = k + ((d + 1) + 1)
    BY <1>1
  <2>2. offsets[k] + size(k) <= offsets[l]
    BY <1>5, <2>1
  <2>3. offsets[m] = offsets[l] + size(l)
    BY <1>3, <2>1
  <2>4. PICK a \in Nat, b \in Nat, c \in Nat : a = offsets[k] + size(k) /\ b = offsets[l] /\ c = size(l)
    BY <1>2
  <2>5. a <= b + c
    BY <2>2, <2>4
  <2> QED BY <2>1, <2>3, <2>4, <2>5
<1>6. \A k, l \in 1..n : k < l => offsets[k] + size(k) <= offsets[l]
  <2>1. Nat \subseteq S
    <3> HIDE DEF S
    <3> QED BY <1>4, <1>5, Induction
  <2> SUFFICES ASSUME NEW k \in 1..n, NEW l \in 1..n, k < l PROVE offsets[k] + size(k) <= offsets[l]
    OBVIOUS
  <2>2. PICK d \in Nat : l = k + (d + 1)
    <3>1. (l - k) - 1 \in Nat /\ l = k + (((l - k) - 1) + 1)
      BY <1>1
    <3> QED BY <3>1
  <2> QED BY <2>1, <2>2
<1>7. v \in 1..size(i) /\ w \in 1..size(j) /\ i \in 1..n /\ j \in 1..n
  BY <1>1, <1>2
<1>8. PICK a \in Nat, b \in Nat, c \in Nat, d \in Nat : a = offsets[i] /\ b = size(i) /\ c = offsets[j] /\ d = size(j)
  BY <1>2, <1>7
<1>9. a + v = c + w
  BY <1>8 DEF Global
<1>10. v \in 1..b /\ w \in 1..d
  BY <1>7, <1>8
<1>11. ~ (i < j)
  <2>1. ASSUME i < j PROVE FALSE
    <3>1. a + b <= c
      BY <1>6, <1>7, <1>8, <2>1
    <3> QED BY <1>9, <1>10, <3>1
  <2> QED BY <2>1
<1>12. ~ (j < i)
  <2>1. ASSUME j < i PROVE FALSE
    <3>1. c + d <= a
      BY <1>6, <1>7, <1>8, <2>1
    <3> QED BY <1>9, <1>10, <3>1
  <2> QED BY <2>1
<1>13. i = j
  BY <1>1, <1>7, <1>11, <1>12
<1> QED BY <1>8, <1>9, <1>10, <1>13

\* Two words within the radius of their zone.
Mates(z, v, w) == <<v, w>> \in Blockaded(z, zone[z].radius) \/ <<w, v>> \in Blockaded(z, zone[z].radius)

LEMMA MatesAre ==
    ASSUME PartsOk, NEW z \in DOMAIN job.zones, Described(z), NEW w \in Local(z), NEW v, Mates(z, v, w)
    PROVE  /\ v \in Local(z) /\ v # w /\ v \in Nat /\ w \in Nat /\ Mates(z, w, v)
           /\ \A u : Mates(z, u, w) => u = v
           /\ \A u : Mates(z, u, v) => u = w
<1>1. PICK n \in Nat : Local(z) = 1..n
  <2>1. zone[z].words \in Seq(Seq(Nat \X Nat))
    BY ZoneFacts DEF ZoneRecords
  <2> QED BY <2>1, SeqDomain DEF Local
<1> DEFINE R == zone[z].radius
<1>2. /\ \A p \in Blockaded(z, R) : p[1] \in 1..n /\ p[2] \in 1..n /\ p[1] < p[2]
      /\ \A p, q \in Blockaded(z, R) : Entries(p) \cap Entries(q) # {} => p = q
  <2> HIDE DEF R
  <2>1. \A p \in Blockaded(z, R) : p[1] \in 1..n /\ p[2] \in 1..n /\ p[1] < p[2]
    BY <1>1 DEF Blockaded
  <2>2. Scanned(z, R)
    BY DEF Described, R
  <2> QED BY <2>1, <2>2 DEF Scanned
<1>3. PICK B : B = Blockaded(z, R)
  OBVIOUS
<1> DEFINE Pair(a, b) == <<a, b>> \in B
<1>4. \A a, b : Pair(a, b) => a \in 1..n /\ b \in 1..n /\ a < b
  <2> SUFFICES ASSUME NEW a, NEW b, Pair(a, b) PROVE a \in 1..n /\ b \in 1..n /\ a < b
    OBVIOUS
  <2>1. <<a, b>>[1] \in 1..n /\ <<a, b>>[2] \in 1..n /\ <<a, b>>[1] < <<a, b>>[2]
    BY <1>2, <1>3
  <2> QED BY <2>1
<1>5. \A a, b, c, d : Pair(a, b) /\ Pair(c, d) /\ (a = c \/ a = d \/ b = c \/ b = d) => a = c /\ b = d
  <2> SUFFICES ASSUME NEW a, NEW b, NEW c, NEW d, Pair(a, b), Pair(c, d), a = c \/ a = d \/ b = c \/ b = d
               PROVE  a = c /\ b = d
    OBVIOUS
  <2>1. Entries(<<a, b>>) = {a, b} /\ Entries(<<c, d>>) = {c, d}
    <3>1. \A x, y : DOMAIN <<x, y>> = {1, 2} /\ <<x, y>>[1] = x /\ <<x, y>>[2] = y
      OBVIOUS
    <3> QED BY <3>1 DEF Entries
  <2>2. Entries(<<a, b>>) \cap Entries(<<c, d>>) # {}
    BY <2>1
  <2>3. <<a, b>> = <<c, d>>
    BY <1>2, <1>3, <2>2
  <2> QED BY <2>3
<1>6. \A a, b : Mates(z, a, b) <=> Pair(a, b) \/ Pair(b, a)
  BY <1>3 DEF Mates
<1> HIDE DEF Pair
<1>7. Pair(v, w) \/ Pair(w, v)
  BY <1>6
<1>8. v \in 1..n /\ w \in 1..n /\ v # w
  BY <1>1, <1>4, <1>7
<1>9. \A u : Pair(u, w) \/ Pair(w, u) => u = v
  BY <1>5, <1>7, <1>8, Zenon
<1>10. \A u : Pair(u, v) \/ Pair(v, u) => u = w
  BY <1>5, <1>7, <1>8, Zenon
<1>11. v \in Nat /\ w \in Nat
  BY <1>8, SMTT(60)
<1> QED BY <1>1, <1>6, <1>7, <1>8, <1>9, <1>10, <1>11

LEMMA SitesAreInts ==
    ASSUME PartsOk, NEW z \in DOMAIN job.zones, NEW w \in Local(z), NEW s \in 1..Sites(z)
    PROVE  \E x \in Int, y \in Int : SiteAt(z, w, s) = <<x, y>>
<1>1. job.zones[z].xs \in Seq(Int) /\ job.zones[z].ys \in Seq(Int)
  BY ZoneFacts DEF ZoneGrids
<1>2. RecordOk(job.zones[z], zone[z]) /\ Sites(z) = job.zones[z].shape[1] * job.zones[z].shape[2] /\ Sites(z) \in Nat
  BY ZoneFacts
<1>3. zone[z].words[w] \in Seq(Nat \X Nat) /\ w \in DOMAIN zone[z].words
  <2>1. zone[z].words \in Seq(Seq(Nat \X Nat))
    BY ZoneFacts DEF ZoneRecords
  <2> QED BY <2>1 DEF Local
<1>4. s \in DOMAIN zone[z].words[w]
  <2>1. Len(zone[z].words[w]) = Sites(z)
    BY <1>2, <1>3 DEF RecordOk
  <2> QED BY <1>3, <2>1, SeqDomain
<1>5. zone[z].words[w][s][1] \in DOMAIN job.zones[z].xs /\ zone[z].words[w][s][2] \in DOMAIN job.zones[z].ys
  BY <1>2, <1>3, <1>4, SMTT(60) DEF RecordOk
<1>6. \A t \in Seq(Int) : \A k \in DOMAIN t : t[k] \in Int
  OBVIOUS
<1>7. PICK x \in Int, y \in Int : /\ x = job.zones[z].xs[zone[z].words[w][s][1]]
                                  /\ y = job.zones[z].ys[zone[z].words[w][s][2]]
  BY <1>1, <1>5, <1>6
<1> QED BY <1>7 DEF SiteAt

\* Who is within the radius of a site: the same site of its word's mate.
LEMMA NearAreMates ==
    ASSUME PartsOk, NEW z \in DOMAIN job.zones, Described(z), NEW w \in Local(z), NEW s \in 1..Sites(z),
           NEW v \in Local(z), NEW t \in 1..Sites(z)
    PROVE  (<<v, t>> # <<w, s>> /\ Within(SiteAt(z, w, s), SiteAt(z, v, t), zone[z].radius))
           <=> (t = s /\ Mates(z, v, w))
<1>1. PICK n \in Nat : Local(z) = 1..n
  <2>1. zone[z].words \in Seq(Seq(Nat \X Nat))
    BY ZoneFacts DEF ZoneRecords
  <2> QED BY <2>1, SeqDomain DEF Local
<1>2. PICK r \in Nat : r = zone[z].radius
  BY ZoneFacts DEF ZoneRecords
<1> DEFINE Near(a, x, b, y) == <<a, x>> # <<b, y>> /\ Within(SiteAt(z, a, x), SiteAt(z, b, y), r)
<1>3. Near(w, s, v, t) <=> Near(v, t, w, s)
  <2>1. PICK x1 \in Int, y1 \in Int : SiteAt(z, w, s) = <<x1, y1>>
    BY SitesAreInts
  <2>2. PICK x2 \in Int, y2 \in Int : SiteAt(z, v, t) = <<x2, y2>>
    BY SitesAreInts
  <2>3. Square(x1 - x2) = Square(x2 - x1) /\ Square(y1 - y2) = Square(y2 - y1)
    BY DEF Square
  <2>4. Within(SiteAt(z, w, s), SiteAt(z, v, t), r) <=> Within(SiteAt(z, v, t), SiteAt(z, w, s), r)
    BY <2>1, <2>2, <2>3 DEF Within
  <2> QED BY <2>4
<1>4. \A a, b : \A x, y \in 1..Sites(z) : <<x, y>> \in Close(z, a, b, r) <=> Near(a, x, b, y)
  BY DEF Close
<1>5. /\ \A a \in Local(z) : Close(z, a, a, r) = {}
      /\ \A p \in Blockaded(z, r) : Close(z, p[1], p[2], r) = {<<k, k>> : k \in 1..Sites(z)}
  BY <1>2 DEF Described, Scanned
<1>6. \A a, b : <<a, b>> \in Blockaded(z, r) <=> a \in 1..n /\ b \in 1..n /\ a < b /\ Close(z, a, b, r) # {}
  BY <1>1 DEF Blockaded
<1>7. \A a, b : <<a, b>> \in Blockaded(z, r) => Close(z, a, b, r) = {<<k, k>> : k \in 1..Sites(z)}
  <2> SUFFICES ASSUME NEW a, NEW b, <<a, b>> \in Blockaded(z, r)
               PROVE  Close(z, a, b, r) = {<<k, k>> : k \in 1..Sites(z)}
    OBVIOUS
  <2>1. Close(z, <<a, b>>[1], <<a, b>>[2], r) = {<<k, k>> : k \in 1..Sites(z)}
    BY <1>5
  <2> QED BY <2>1
<1> HIDE DEF Near
<1>8. \A a, b : \A x, y \in 1..Sites(z) : <<a, b>> \in Blockaded(z, r) => (Near(a, x, b, y) <=> x = y)
  <2> SUFFICES ASSUME NEW a, NEW b, NEW x \in 1..Sites(z), NEW y \in 1..Sites(z), <<a, b>> \in Blockaded(z, r)
               PROVE  Near(a, x, b, y) <=> x = y
    OBVIOUS
  <2>1. <<x, y>> \in {<<k, k>> : k \in 1..Sites(z)} <=> x = y
    OBVIOUS
  <2> QED BY <1>4, <1>7, <2>1
<1>9. \A a, b : \A x, y \in 1..Sites(z) : a \in 1..n /\ b \in 1..n /\ a < b /\ Near(a, x, b, y) => <<a, b>> \in Blockaded(z, r)
  BY <1>4, <1>6
<1>10. \A a \in 1..n : \A x, y \in 1..Sites(z) : ~ Near(a, x, a, y)
  BY <1>1, <1>4, <1>5
<1>11. Mates(z, v, w) <=> <<v, w>> \in Blockaded(z, r) \/ <<w, v>> \in Blockaded(z, r)
  BY <1>2 DEF Mates
<1>12. Near(w, s, v, t) <=> t = s /\ Mates(z, v, w)
  <2>1. CASE v = w
    <3>1. ~ Near(w, s, v, t)
      BY <1>1, <1>10, <2>1
    <3>2. ~ Mates(z, v, w)
      BY <1>6, <1>11, <2>1, <1>1
    <3> QED BY <3>1, <3>2
  <2>2. CASE v # w
    <3>1. v < w \/ w < v
      BY <1>1, <2>2
    <3>2. ASSUME w < v PROVE Near(w, s, v, t) <=> t = s /\ Mates(z, v, w)
      <4>1. <<v, w>> \notin Blockaded(z, r)
        BY <1>1, <1>6, <3>2
      <4>2. Near(w, s, v, t) => <<w, v>> \in Blockaded(z, r)
        BY <1>1, <1>9, <3>2
      <4> QED BY <1>8, <1>11, <4>1, <4>2
    <3>3. ASSUME v < w PROVE Near(w, s, v, t) <=> t = s /\ Mates(z, v, w)
      <4>1. <<w, v>> \notin Blockaded(z, r)
        BY <1>1, <1>6, <3>3
      <4>2. Near(v, t, w, s) => <<v, w>> \in Blockaded(z, r)
        BY <1>1, <1>9, <3>3
      <4> QED BY <1>3, <1>8, <1>11, <4>1, <4>2
    <3> QED BY <3>1, <3>2, <3>3
  <2> QED BY <2>1, <2>2
<1> USE DEF Near
<1>13. (<<w, s>> # <<v, t>> /\ Within(SiteAt(z, w, s), SiteAt(z, v, t), r)) <=> t = s /\ Mates(z, v, w)
  BY <1>12
<1> QED BY <1>2, <1>13

\* The n pairs of a zone in the numbers of the architecture, and in its own.
PairedBy(i, n, v, w) ==
    /\ DOMAIN arch.zones[i].pairs = 1..n
    /\ \A k \in 1..n :
          /\ arch.zones[i].pairs[k][1] = Global(i, v[k]) /\ arch.zones[i].pairs[k][2] = Global(i, w[k])
          /\ Entries(arch.zones[i].pairs[k]) = {Global(i, v[k]), Global(i, w[k])}
          /\ Mates(registered[i], v[k], w[k]) /\ v[k] \in Nat /\ w[k] \in Nat /\ v[k] < w[k]
    /\ \A k, l \in 1..n : v[k] = v[l] /\ w[k] = w[l] => k = l
    /\ \A a, b : Mates(registered[i], a, b) =>
          \E k \in 1..n : (v[k] = a /\ w[k] = b) \/ (v[k] = b /\ w[k] = a)

\* Every pair of a described zone is two of its words within the radius, and
\* each such two words are one pair.
LEMMA PairsAreMates ==
    ASSUME PartsOk, AsBuilt, NEW i \in DOMAIN registered, Described(registered[i])
    PROVE  \E n \in Nat : \E v, w \in [1..n -> Local(registered[i])] : PairedBy(i, n, v, w)
<1>1. PICK z \in DOMAIN job.zones : z = registered[i]
  BY DEF PartsOk, RegisteredOk
<1>2. PICK B : B = Blockaded(z, zone[z].radius)
  OBVIOUS
<1>3. B \in SUBSET (Int \X Int) /\ IsFiniteSet(B) /\ B \subseteq Local(z) \X Local(z)
  BY <1>2, BlockadedOk
<1>4. PICK s : s = InOrder(B)
  OBVIOUS
<1>5. PICK n \in Nat : n = Cardinality(B)
  BY <1>3, InOrderIs
<1>6. /\ s \in Seq(B) /\ Len(s) = n
      /\ \A k, l \in 1..n : s[k] = s[l] => k = l
      /\ \A p \in B : \E k \in 1..n : s[k] = p
  BY <1>3, <1>4, <1>5, InOrderIs
<1>7. DOMAIN s = 1..n /\ \A k \in 1..n : s[k] \in B
  BY <1>6
<1>8. zone[z].pairs = s
  BY <1>1, <1>2, <1>4 DEF Described
<1>9. arch.zones[i].pairs = [k \in DOMAIN s |-> GlobalAll(i, s[k])]
  <2>1. arch.zones[i].pairs = [k \in DOMAIN zone[registered[i]].pairs |-> GlobalAll(i, zone[registered[i]].pairs[k])]
    BY BuiltZoneIs
  <2> QED BY <1>1, <1>8, <2>1
<1> DEFINE v == [k \in 1..n |-> s[k][1]]
           w == [k \in 1..n |-> s[k][2]]
<1>10. \A k \in 1..n : s[k] = <<s[k][1], s[k][2]>> /\ s[k][1] \in Local(z) /\ s[k][2] \in Local(z)
  BY <1>3, <1>7
<1>11. v \in [1..n -> Local(registered[i])] /\ w \in [1..n -> Local(registered[i])]
  BY <1>1, <1>10
<1>12. DOMAIN arch.zones[i].pairs = 1..n
  BY <1>7, <1>9
<1>13. ASSUME NEW k \in 1..n
       PROVE  /\ arch.zones[i].pairs[k][1] = Global(i, v[k]) /\ arch.zones[i].pairs[k][2] = Global(i, w[k])
              /\ Entries(arch.zones[i].pairs[k]) = {Global(i, v[k]), Global(i, w[k])}
  <2>1. arch.zones[i].pairs[k] = GlobalAll(i, s[k])
    BY <1>7, <1>9
  <2>2. PICK a, b : s[k] = <<a, b>> /\ a = v[k] /\ b = w[k]
    BY <1>10
  <2>3. DOMAIN <<a, b>> = {1, 2} /\ <<a, b>>[1] = a /\ <<a, b>>[2] = b
    OBVIOUS
  <2>4. PICK f : f = GlobalAll(i, s[k])
    OBVIOUS
  <2>5. DOMAIN f = {1, 2} /\ f[1] = Global(i, a) /\ f[2] = Global(i, b)
    BY <2>2, <2>3, <2>4 DEF GlobalAll
  <2>6. Entries(f) = {f[1], f[2]}
    BY <2>5 DEF Entries
  <2> QED BY <2>1, <2>2, <2>4, <2>5, <2>6
<1>14. ASSUME NEW k \in 1..n
       PROVE  Mates(registered[i], v[k], w[k]) /\ v[k] \in Nat /\ w[k] \in Nat /\ v[k] < w[k]
  <2>1. <<v[k], w[k]>> \in B
    BY <1>7, <1>10
  <2>2. v[k] = s[k][1] /\ w[k] = s[k][2]
    OBVIOUS
  <2>3. s[k][1] < s[k][2]
    BY <1>2, <1>7 DEF Blockaded
  <2>4. PICK m \in Nat : Local(z) = 1..m
    <3>1. zone[z].words \in Seq(Seq(Nat \X Nat))
      BY ZoneFacts DEF ZoneRecords
    <3> QED BY <3>1, SeqDomain DEF Local
  <2>5. s[k][1] \in Nat /\ s[k][2] \in Nat
    BY <1>10, <2>4
  <2> QED BY <1>1, <1>2, <2>1, <2>2, <2>3, <2>5 DEF Mates
<1>15. ASSUME NEW k \in 1..n, NEW l \in 1..n, v[k] = v[l] /\ w[k] = w[l] PROVE k = l
  BY <1>6, <1>10, <1>15
<1>16. ASSUME NEW a, NEW b, <<a, b>> \in B PROVE \E k \in 1..n : v[k] = a /\ w[k] = b
  <2>1. PICK k \in 1..n : s[k] = <<a, b>>
    BY <1>6, <1>16
  <2> QED BY <2>1
<1>17. \A a, b : Mates(registered[i], a, b) => <<a, b>> \in B \/ <<b, a>> \in B
  BY <1>1, <1>2 DEF Mates
<1> HIDE DEF v, w
<1>18. ASSUME NEW a, NEW b, Mates(registered[i], a, b)
       PROVE  \E k \in 1..n : (v[k] = a /\ w[k] = b) \/ (v[k] = b /\ w[k] = a)
  <2>1. CASE <<a, b>> \in B
    BY <1>16, <2>1
  <2>2. CASE <<b, a>> \in B
    BY <1>16, <2>2
  <2> QED BY <1>17, <1>18, <2>1, <2>2
<1>19. PairedBy(i, n, v, w)
  BY <1>12, <1>13, <1>14, <1>15, <1>18 DEF PairedBy
<1> QED BY <1>11, <1>19

\* So the pairs name a word once, with its mate, or not at all.
LEMMA PairsOfWord ==
    ASSUME PartsOk, AsBuilt, ~ Grown, NEW i \in DOMAIN registered, Described(registered[i]),
           NEW w \in Local(registered[i])
    PROVE  /\ (\A v : ~ Mates(registered[i], v, w)) => PairsWith(arch.zones[i].pairs, Global(i, w)) = {}
           /\ \A v : Mates(registered[i], v, w) =>
                 \E k \in Nat : /\ PairsWith(arch.zones[i].pairs, Global(i, w)) = {k}
                                /\ Other(arch.zones[i].pairs[k], Global(i, w)) = Global(i, v)
<1>1. PICK z \in DOMAIN job.zones : z = registered[i]
  BY DEF PartsOk, RegisteredOk
<1>2. PICK n \in Nat : \E f, g \in [1..n -> Local(z)] : PairedBy(i, n, f, g)
  BY <1>1, PairsAreMates
<1>21. PICK f \in [1..n -> Local(z)], g \in [1..n -> Local(z)] : PairedBy(i, n, f, g)
  BY <1>2
<1>20. /\ DOMAIN arch.zones[i].pairs = 1..n
       /\ \A k \in 1..n :
             /\ arch.zones[i].pairs[k][1] = Global(i, f[k]) /\ arch.zones[i].pairs[k][2] = Global(i, g[k])
             /\ Entries(arch.zones[i].pairs[k]) = {Global(i, f[k]), Global(i, g[k])}
             /\ Mates(z, f[k], g[k]) /\ f[k] \in Nat /\ g[k] \in Nat /\ f[k] < g[k]
       /\ \A k, l \in 1..n : f[k] = f[l] /\ g[k] = g[l] => k = l
       /\ \A a, b : Mates(z, a, b) => \E k \in 1..n : (f[k] = a /\ g[k] = b) \/ (f[k] = b /\ g[k] = a)
  BY <1>1, <1>21 DEF PairedBy
<1>3. \A u \in Local(z) : Global(i, u) = Global(i, w) => u = w
  BY <1>1, PlacedAsMeant
<1> DEFINE named == PairsWith(arch.zones[i].pairs, Global(i, w))
<1>4. \A k : k \in named <=> k \in 1..n /\ (f[k] = w \/ g[k] = w)
  <2>1. \A k \in 1..n : f[k] \in Local(z) /\ g[k] \in Local(z)
    OBVIOUS
  <2>2. \A k \in 1..n : Global(i, w) \in Entries(arch.zones[i].pairs[k]) <=> (f[k] = w \/ g[k] = w)
    <3> SUFFICES ASSUME NEW k \in 1..n
                 PROVE  Global(i, w) \in Entries(arch.zones[i].pairs[k]) <=> (f[k] = w \/ g[k] = w)
      OBVIOUS
    <3>1. Entries(arch.zones[i].pairs[k]) = {Global(i, f[k]), Global(i, g[k])}
      BY <1>20
    <3>2. /\ Global(i, w) = Global(i, f[k]) <=> f[k] = w
          /\ Global(i, w) = Global(i, g[k]) <=> g[k] = w
      BY <1>3, <2>1
    <3> QED BY <3>1, <3>2
  <2> QED BY <1>20, <2>2 DEF PairsWith
<1>8. named = PairsWith(arch.zones[i].pairs, Global(i, w))
  OBVIOUS
<1> HIDE DEF named
<1>5. \A a, b : Mates(z, a, b) => Mates(z, b, a)
  BY DEF Mates
<1>6. ASSUME \A v : ~ Mates(z, v, w) PROVE named = {}
  BY <1>20, <1>4, <1>5, <1>6
<1>7. ASSUME NEW v, Mates(z, v, w)
      PROVE  \E k \in Nat : /\ named = {k}
                            /\ Other(arch.zones[i].pairs[k], Global(i, w)) = Global(i, v)
  <2>1. /\ v \in Local(z) /\ v # w
        /\ \A u : Mates(z, u, w) => u = v
    BY <1>1, <1>7, MatesAre
  <2>2. PICK k \in 1..n : (f[k] = v /\ g[k] = w) \/ (f[k] = w /\ g[k] = v)
    BY <1>20, <1>7
  <2>3. \A l \in 1..n : (f[l] = w => g[l] = v) /\ (g[l] = w => f[l] = v)
    BY <1>20, <1>5, <2>1
  <2>4. ASSUME NEW l \in named PROVE l = k
    <3>1. l \in 1..n /\ (f[l] = w \/ g[l] = w)
      BY <1>4
    <3>2. (f[l] = w /\ g[l] = v) \/ (f[l] = v /\ g[l] = w)
      BY <2>3, <3>1
    <3>3. (f[l] = f[k] /\ g[l] = g[k]) \/ (f[l] = g[k] /\ g[l] = f[k])
      BY <2>2, <3>2
    <3>4. ~ (f[l] = g[k] /\ g[l] = f[k])
      <4>1. f[l] < g[l] /\ f[k] < g[k] /\ f[l] \in Nat /\ g[l] \in Nat
        BY <1>20, <3>1
      <4> QED BY <4>1
    <3> QED BY <1>20, <3>1, <3>3, <3>4
  <2>5. k \in named
    BY <1>4, <2>2
  <2>6. Global(i, v) # Global(i, w)
    BY <1>3, <2>1
  <2>7. Other(arch.zones[i].pairs[k], Global(i, w)) = Global(i, v)
    BY <1>20, <2>2, <2>6 DEF Other
  <2>8. named = {k} /\ k \in Nat
    <3>1. k \in Nat
      BY <2>2
    <3>2. named = {k}
      BY <2>4, <2>5, Zenon
    <3> QED BY <3>1, <3>2
  <2> QED BY <2>7, <2>8
<1>9. ASSUME \A v : ~ Mates(registered[i], v, w) PROVE PairsWith(arch.zones[i].pairs, Global(i, w)) = {}
  BY <1>1, <1>6, <1>8, <1>9
<1>10. ASSUME NEW v, Mates(registered[i], v, w)
       PROVE  \E k \in Nat : /\ PairsWith(arch.zones[i].pairs, Global(i, w)) = {k}
                             /\ Other(arch.zones[i].pairs[k], Global(i, w)) = Global(i, v)
  <2>1. Mates(z, v, w)
    BY <1>1, <1>10
  <2>2. PICK k \in Nat : named = {k} /\ Other(arch.zones[i].pairs[k], Global(i, w)) = Global(i, v)
    BY <1>7, <2>1
  <2> QED BY <1>8, <2>2
<1> QED BY <1>9, <1>10

LEMMA PairsElsewhere ==
    ASSUME PartsOk, AsBuilt, ~ Grown, NEW i \in DOMAIN registered, NEW j \in DOMAIN registered, i # j,
           NEW w \in Local(registered[i])
    PROVE  PairsWith(arch.zones[j].pairs, Global(i, w)) = {}
<1>1. PICK z \in DOMAIN job.zones : z = registered[j]
  BY DEF PartsOk, RegisteredOk
<1>2. SUFFICES ASSUME NEW k \in DOMAIN arch.zones[j].pairs, Global(i, w) \in Entries(arch.zones[j].pairs[k])
               PROVE  FALSE
  BY DEF PairsWith
<1>3. arch.zones[j].pairs = [m \in DOMAIN zone[z].pairs |-> GlobalAll(j, zone[z].pairs[m])]
  <2>1. arch.zones[j].pairs = [m \in DOMAIN zone[registered[j]].pairs |-> GlobalAll(j, zone[registered[j]].pairs[m])]
    BY BuiltZoneIs
  <2> QED BY <1>1, <2>1
<1>4. k \in DOMAIN zone[z].pairs /\ arch.zones[j].pairs[k] = GlobalAll(j, zone[z].pairs[k])
  BY <1>3
<1>5. Entries(zone[z].pairs[k]) \subseteq Local(z)
  BY <1>4, ZoneFacts DEF RecordOk, Local
<1>6. PICK m \in DOMAIN zone[z].pairs[k] : Global(i, w) = Global(j, zone[z].pairs[k][m])
  BY <1>2, <1>4 DEF GlobalAll, Entries
<1>7. zone[z].pairs[k][m] \in Local(registered[j])
  BY <1>1, <1>5 DEF Entries
<1> QED BY <1>6, <1>7, GlobalsApart

\* Whoever asks finds the same partner: the mate's word at the same site.
LEMMA PartnerIsMate ==
    ASSUME PartsOk, AsBuilt, ~ Grown, \A j \in DOMAIN registered : Described(registered[j]),
           NEW i \in DOMAIN registered, NEW w \in Local(registered[i])
    PROVE  /\ (\A v : ~ Mates(registered[i], v, w)) =>
                 /\ WordPartner(arch, Global(i, w)) = {}
                 /\ \A s : CzPartner(arch, Loc(i, Global(i, w), s)) = {}
           /\ \A v : Mates(registered[i], v, w) =>
                 /\ WordPartner(arch, Global(i, w)) = {Global(i, v)}
                 /\ \A s : CzPartner(arch, Loc(i, Global(i, w), s)) = {Loc(i, Global(i, v), s)}
<1> DEFINE me == Global(i, w)
           With(j) == PairsWith(arch.zones[j].pairs, me)
           zones == {j \in DOMAIN arch.zones : With(j) # {}}
           Latest == {p \in UNION {{j} \X With(j) : j \in zones} :
                      /\ \A y \in zones : y <= p[1]
                      /\ \A j \in PairsWith(arch.zones[p[1]].pairs, me) : j <= p[2]}
<1>1. DOMAIN arch.zones = DOMAIN registered /\ i \in Nat
  BY BuiltIsSorted DEF PartsOk, RegisteredOk
<1>2. zones \subseteq {i}
  BY <1>1, PairsElsewhere
<1>3. WordPartner(arch, me) = {Other(arch.zones[p[1]].pairs[p[2]], me) : p \in Latest}
  BY DEF WordPartner
<1>4. ASSUME NEW s
      PROVE  CzPartner(arch, Loc(i, me, s))
               = {Loc(i, Other(arch.zones[i].pairs[k], me), s) : k \in FirstIn(With(i))}
  <2>1. PICK at : at = Loc(i, me, s)
    OBVIOUS
  <2>2. at.zone = i /\ at.word = me /\ \A u : [at EXCEPT !.word = u] = Loc(i, u, s)
    BY <2>1 DEF Loc
  <2> QED BY <1>1, <2>1, <2>2 DEF CzPartner
<1>5. ASSUME \A v : ~ Mates(registered[i], v, w)
      PROVE  /\ WordPartner(arch, me) = {}
             /\ \A s : CzPartner(arch, Loc(i, me, s)) = {}
  <2>1. With(i) = {}
    BY <1>5, PairsOfWord
  <2>2. zones = {}
    BY <1>2, <2>1
  <2>3. Latest = {}
    BY <2>2
  <2>4. FirstIn(With(i)) = {}
    BY <2>1 DEF FirstIn
  <2> HIDE DEF With, Latest, me
  <2> QED BY <1>3, <1>4, <2>3, <2>4
<1>6. ASSUME NEW v, Mates(registered[i], v, w)
      PROVE  /\ WordPartner(arch, me) = {Global(i, v)}
             /\ \A s : CzPartner(arch, Loc(i, me, s)) = {Loc(i, Global(i, v), s)}
  <2>1. PICK k \in Nat : With(i) = {k} /\ Other(arch.zones[i].pairs[k], me) = Global(i, v)
    BY <1>6, PairsOfWord
  <2>2. zones = {i}
    BY <1>1, <1>2, <2>1
  <2>3. \A p : p \in Latest <=> p = <<i, k>>
    <3>1. UNION {{j} \X With(j) : j \in zones} = {<<i, k>>}
      BY <2>1, <2>2
    <3>2. /\ \A y \in zones : y <= <<i, k>>[1]
          /\ \A j \in PairsWith(arch.zones[<<i, k>>[1]].pairs, me) : j <= <<i, k>>[2]
      BY <1>1, <2>1, <2>2
    <3> HIDE DEF zones, With
    <3> QED BY <3>1, <3>2
  <2>4. FirstIn(With(i)) = {k}
    BY <2>1 DEF FirstIn
  <2> HIDE DEF With, Latest, me, zones
  <2>5. WordPartner(arch, me) = {Global(i, v)}
    <3>1. Latest = {<<i, k>>}
      BY <2>3
    <3> QED BY <1>3, <2>1, <3>1
  <2>6. ASSUME NEW s PROVE CzPartner(arch, Loc(i, me, s)) = {Loc(i, Global(i, v), s)}
    <3>1. CzPartner(arch, Loc(i, me, s))
            = {Loc(i, Other(arch.zones[i].pairs[m], me), s) : m \in FirstIn(With(i))}
      BY <1>4
    <3>2. \A m : m \in FirstIn(With(i)) <=> m = k
      BY <2>4
    <3> HIDE DEF Other
    <3>3. {Loc(i, Other(arch.zones[i].pairs[m], me), s) : m \in FirstIn(With(i))}
            = {Loc(i, Other(arch.zones[i].pairs[k], me), s)}
      BY <3>2
    <3> QED BY <2>1, <3>1, <3>3
  <2> QED BY <2>5, <2>6
<1> QED BY <1>5, <1>6

LEMMA NumberedWords ==
    ASSUME PartsOk, AsBuilt, ~ Grown, NEW g \in DOMAIN arch.words
    PROVE  \E i \in DOMAIN registered : \E w \in Local(registered[i]) : g = Global(i, w)
<1>1. PICK n \in Nat : n = Len(registered) /\ DOMAIN registered = 1..n
  BY DEF PartsOk, RegisteredOk
<1>2. arch.words \in Seq(Seq(Nat \X Nat))
  BY WordsAre
<1>3. g \in 1..Len(arch.words)
  BY <1>2, SeqDomain
<1>4. PICK i \in 1..n : \E w \in 1..Len(zone[registered[i]].words) : g = offsets[i] + w
  BY <1>1, <1>3, OffsetsArePlaces DEF WordsFrom
<1>5. PICK z \in DOMAIN job.zones : z = registered[i]
  BY <1>1 DEF PartsOk, RegisteredOk
<1>6. zone[z].words \in Seq(Seq(Nat \X Nat))
  BY ZoneFacts DEF ZoneRecords
<1>7. Local(registered[i]) = 1..Len(zone[registered[i]].words)
  BY <1>5, <1>6, SeqDomain DEF Local
<1> QED BY <1>1, <1>4, <1>7 DEF Global

\* Of two partners the lower word is a home, and a word without one is.
LEMMA HomeIsLower ==
    ASSUME PartsOk, AsBuilt, ~ Grown, \A j \in DOMAIN registered : Described(registered[j]),
           NEW i \in DOMAIN registered, NEW w \in Local(registered[i])
    PROVE  /\ (\A v : ~ Mates(registered[i], v, w)) => Global(i, w) \in HomeWords(arch)
           /\ \A v : Mates(registered[i], v, w) =>
                 (Global(i, w) \in HomeWords(arch) <=> Global(i, w) <= Global(i, v))
<1> DEFINE me == Global(i, w)
<1>1. me \in DOMAIN arch.words
  BY PlacedAsMeant
<1>2. \A g : g \in HomeWords(arch) <=>
            \/ g \in DOMAIN arch.words /\ WordPartner(arch, g) = {}
            \/ \E h \in DOMAIN arch.words : \E p \in WordPartner(arch, h) : g = Lower(h, p)
  BY DEF HomeWords
<1>3. ASSUME \A v : ~ Mates(registered[i], v, w) PROVE me \in HomeWords(arch)
  BY <1>1, <1>2, <1>3, PartnerIsMate
<1>4. ASSUME NEW v, Mates(registered[i], v, w)
      PROVE  me \in HomeWords(arch) <=> me <= Global(i, v)
  <2>1. PICK z \in DOMAIN job.zones : z = registered[i]
    BY DEF PartsOk, RegisteredOk
  <2>2. Described(z)
    BY <2>1
  <2>3. v \in Local(registered[i]) /\ Mates(registered[i], w, v)
    BY <1>4, <2>1, <2>2, MatesAre
  <2>4. WordPartner(arch, me) = {Global(i, v)} /\ WordPartner(arch, Global(i, v)) = {me}
    BY <1>4, <2>3, PartnerIsMate
  <2>5. me \in Nat /\ Global(i, v) \in Nat
    BY <2>3, PlacedAsMeant
  <2>6. ASSUME me <= Global(i, v) PROVE me \in HomeWords(arch)
    <3>1. Lower(me, Global(i, v)) = me
      BY <2>6 DEF Lower
    <3> QED BY <1>1, <1>2, <2>4, <3>1
  <2>7. ASSUME me \in HomeWords(arch) PROVE me <= Global(i, v)
    <3>1. PICK h \in DOMAIN arch.words : \E p \in WordPartner(arch, h) : me = Lower(h, p)
      BY <1>2, <2>4, <2>7
    <3>2. PICK p \in WordPartner(arch, h) : me = Lower(h, p)
      BY <3>1
    <3>12. PICK j \in DOMAIN registered : \E u \in Local(registered[j]) : h = Global(j, u)
      BY NumberedWords
    <3>3. PICK u \in Local(registered[j]) : h = Global(j, u)
      BY <3>12
    <3>4. PICK t : Mates(registered[j], t, u)
      BY <3>2, <3>3, PartnerIsMate
    <3>5. p = Global(j, t)
      BY <3>2, <3>3, <3>4, PartnerIsMate
    <3>6. t \in Local(registered[j]) /\ Mates(registered[j], u, t)
      <4>1. PICK y \in DOMAIN job.zones : y = registered[j]
        BY DEF PartsOk, RegisteredOk
      <4> QED BY <3>4, <4>1, MatesAre
    <3>7. WordPartner(arch, p) = {h}
      BY <3>3, <3>5, <3>6, PartnerIsMate
    <3>8. h \in Nat /\ p \in Nat
      BY <3>3, <3>5, <3>6, PlacedAsMeant
    <3>9. CASE h <= p
      <4>1. h = me
        BY <3>2, <3>9 DEF Lower
      <4> QED BY <2>4, <3>2, <3>9, <4>1
    <3>10. CASE ~ (h <= p)
      <4>1. p = me
        BY <3>2, <3>10 DEF Lower
      <4>2. h = Global(i, v)
        BY <2>4, <3>7, <4>1
      <4> QED BY <2>5, <3>8, <3>10, <4>1, <4>2
    <3> QED BY <3>9, <3>10
  <2> QED BY <2>6, <2>7
<1> QED BY <1>3, <1>4

\* The locations within the radius, and what PartnersAreNeighbours says of them.
NearOnes(i, w, s) ==
    LET z == registered[i]
    IN  {Loc(i, Global(i, e[1]), e[2]) :
           e \in {f \in Local(z) \X (1..Sites(z)) :
                    f # <<w, s>> /\ Within(SiteAt(z, w, s), SiteAt(z, f[1], f[2]), zone[z].radius)}}
NeighboursFound(i, w, s) ==
    LET at == Loc(i, Global(i, w), s)
        near == NearOnes(i, w, s)
    IN  /\ CzPartner(arch, at) = near
        /\ \A p \in near : /\ CzPartner(arch, p) = {at}
                           /\ WordPartner(arch, at.word) = {p.word}
                           /\ Cardinality(HomeWords(arch) \cap {at.word, p.word}) = 1
        /\ near = {} => at.word \in HomeWords(arch)

LEMMA PartnersSo == ASSUME PartsOk, AsBuilt PROVE PartnersAreNeighbours
<1> SUFFICES ASSUME ~ Grown, \A j \in ZoneIds : Described(registered[j]) PROVE PartnersAreNeighbours
  BY DEF PartnersAreNeighbours
<1>1. ASSUME NEW i \in ZoneIds, NEW w \in Local(registered[i]), NEW s \in 1..SitesPerWord(arch),
             NEW near, near = NearOnes(i, w, s)
      PROVE  /\ CzPartner(arch, Loc(i, Global(i, w), s)) = near
             /\ \A p \in near : /\ CzPartner(arch, p) = {Loc(i, Global(i, w), s)}
                                /\ WordPartner(arch, Loc(i, Global(i, w), s).word) = {p.word}
                                /\ Cardinality(HomeWords(arch) \cap {Loc(i, Global(i, w), s).word, p.word}) = 1
             /\ near = {} => Loc(i, Global(i, w), s).word \in HomeWords(arch)
  <2>1. PICK z \in DOMAIN job.zones : z = registered[i]
    BY DEF PartsOk, RegisteredOk, ZoneIds
  <2>2. Described(z) /\ Sites(z) = SitesPerWord(arch) /\ i \in DOMAIN registered
    BY <2>1, PlacedAsMeant DEF ZoneIds
  <2>3. PICK S : S = {f \in Local(z) \X (1..Sites(z)) :
                        f # <<w, s>> /\ Within(SiteAt(z, w, s), SiteAt(z, f[1], f[2]), zone[z].radius)}
    OBVIOUS
  <2>4. \A v, t : <<v, t>> \in S <=> v \in Local(z) /\ t \in 1..Sites(z) /\ t = s /\ Mates(z, v, w)
    <3>1. \A v \in Local(z), t \in 1..Sites(z) :
             (<<v, t>> # <<w, s>> /\ Within(SiteAt(z, w, s), SiteAt(z, v, t), zone[z].radius))
             <=> (t = s /\ Mates(z, v, w))
      BY <2>1, <2>2, NearAreMates
    <3>2. \A v, t : <<v, t>> \in S <=>
             /\ v \in Local(z) /\ t \in 1..Sites(z)
             /\ <<v, t>> # <<w, s>> /\ Within(SiteAt(z, w, s), SiteAt(z, v, t), zone[z].radius)
      BY <2>3
    <3> QED BY <3>1, <3>2
  <2>5. near = {Loc(i, Global(i, e[1]), e[2]) : e \in S} /\ \A e \in S : e = <<e[1], e[2]>>
    BY <1>1, <2>1, <2>3 DEF NearOnes
  <2>6. Loc(i, Global(i, w), s).word = Global(i, w)
    BY DEF Loc
  <2>7. CASE \A v : ~ Mates(z, v, w)
    <3>1. near = {}
      <4>1. S = {}
        BY <2>4, <2>5, <2>7
      <4> QED BY <2>5, <4>1
    <3>2. CzPartner(arch, Loc(i, Global(i, w), s)) = {}
      BY <2>1, <2>2, <2>7, PartnerIsMate DEF ZoneIds
    <3>3. Global(i, w) \in HomeWords(arch)
      BY <2>1, <2>2, <2>7, HomeIsLower DEF ZoneIds
    <3> QED BY <2>6, <3>1, <3>2, <3>3
  <2>8. ASSUME NEW v, Mates(z, v, w)
        PROVE  /\ CzPartner(arch, Loc(i, Global(i, w), s)) = near
               /\ \A p \in near : /\ CzPartner(arch, p) = {Loc(i, Global(i, w), s)}
                                  /\ WordPartner(arch, Loc(i, Global(i, w), s).word) = {p.word}
                                  /\ Cardinality(HomeWords(arch) \cap {Loc(i, Global(i, w), s).word, p.word}) = 1
               /\ near # {}
    <3>1. v \in Local(z) /\ v # w /\ Mates(z, w, v) /\ \A u : Mates(z, u, w) => u = v
      BY <2>1, <2>2, <2>8, MatesAre
    <3>2. S = {<<v, s>>}
      BY <2>2, <2>4, <2>5, <2>8, <3>1
    <3>3. near = {Loc(i, Global(i, v), s)}
      BY <2>5, <3>2
    <3>4. /\ CzPartner(arch, Loc(i, Global(i, w), s)) = {Loc(i, Global(i, v), s)}
          /\ WordPartner(arch, Global(i, w)) = {Global(i, v)}
      BY <2>1, <2>2, <2>8, PartnerIsMate DEF ZoneIds
    <3>5. CzPartner(arch, Loc(i, Global(i, v), s)) = {Loc(i, Global(i, w), s)}
      BY <2>1, <2>2, <3>1, PartnerIsMate DEF ZoneIds
    <3>6. /\ Global(i, w) \in HomeWords(arch) <=> Global(i, w) <= Global(i, v)
          /\ Global(i, v) \in HomeWords(arch) <=> Global(i, v) <= Global(i, w)
      BY <2>1, <2>2, <2>8, <3>1, HomeIsLower DEF ZoneIds
    <3>7. Global(i, w) \in Nat /\ Global(i, v) \in Nat /\ Global(i, v) # Global(i, w)
      BY <2>1, <2>2, <3>1, PlacedAsMeant
    <3>8. Cardinality(HomeWords(arch) \cap {Global(i, w), Global(i, v)}) = 1
      <4>1. CASE Global(i, w) <= Global(i, v)
        <5>1. HomeWords(arch) \cap {Global(i, w), Global(i, v)} = {Global(i, w)}
          BY <3>6, <3>7, <4>1
        <5> QED BY <5>1, FS_Singleton
      <4>2. CASE ~ (Global(i, w) <= Global(i, v))
        <5>1. HomeWords(arch) \cap {Global(i, w), Global(i, v)} = {Global(i, v)}
          BY <3>6, <3>7, <4>2
        <5> QED BY <5>1, FS_Singleton
      <4> QED BY <4>1, <4>2
    <3>9. Loc(i, Global(i, v), s).word = Global(i, v)
      BY DEF Loc
    <3> QED BY <2>6, <3>3, <3>4, <3>5, <3>8, <3>9
  <2> QED BY <2>7, <2>8, Zenon
<1>2. ASSUME NEW i \in ZoneIds, NEW w \in Local(registered[i]), NEW s \in 1..SitesPerWord(arch)
      PROVE  NeighboursFound(i, w, s)
  BY <1>1, <1>2 DEF NeighboursFound
<1> QED BY <1>2 DEF PartnersAreNeighbours, NeighboursFound, NearOnes

\* Where all pairs come from a radius, partners are mutual and within it, nothing
\* else is, get_cz_partner and word_partner_map agree, and one word of every
\* pair is a home, for every architecture that a client's calls can lead to.
THEOREM PartnersAlwaysNeighbours == ArchGridsSpec => []PartnersAreNeighbours
<1>1. ArchInv => PartnersAreNeighbours
  <2>1. ASSUME ArchInv, BuiltNow PROVE PartnersAreNeighbours
    BY <2>1, PartnersSo DEF ArchInv, BuiltNow
  <2>2. ASSUME ~ BuiltNow PROVE PartnersAreNeighbours
    BY <2>2 DEF PartnersAreNeighbours
  <2> QED BY <2>1, <2>2
<1> QED BY <1>1, ArchInvariant, PTL

----------------------------------------------------------------------------
(***************************************************************************)
(* Paths.  The position graph, the distances in it and the ways back along *)
(* them are recursive functions: each is shown to be the solution of its   *)
(* equation, and what it keeps is an induction over the rounds.            *)
(***************************************************************************)
\* A recursion over the naturals has a solution: its beginnings agree.
LEMMA Recursion ==
    ASSUME NEW V, NEW v0 \in V, NEW F \in [V -> V]
    PROVE  \E f \in [Nat -> V] : f[0] = v0 /\ \A n \in Nat : f[n + 1] = F[f[n]]
<1> DEFINE Begun(h, n) == h \in [0..n -> V] /\ h[0] = v0 /\ \A k \in 0..n : k + 1 \in 0..n => h[k + 1] = F[h[k]]
           S == {n \in Nat : \E h : Begun(h, n)}
           B(n) == CHOOSE h : Begun(h, n)
           f == [n \in Nat |-> B(n)[n]]
<1>1. 0 \in S
  <2>1. PICK h : h = [k \in 0..0 |-> v0]
    OBVIOUS
  <2>2. \A k \in 0..0 : k = 0 /\ k + 1 \notin 0..0
    OBVIOUS
  <2>3. 0 \in 0..0
    OBVIOUS
  <2>4. Begun(h, 0)
    BY <2>1, <2>2, <2>3
  <2> QED BY <2>4
<1>2. ASSUME NEW n \in Nat, n \in S PROVE n + 1 \in S
  <2>1. PICK h : Begun(h, n)
    BY <1>2
  <2>2. PICK g : g = [k \in 0..(n + 1) |-> IF k = n + 1 THEN F[h[n]] ELSE h[k]]
    OBVIOUS
  <2>3. /\ \A k \in 0..(n + 1) : k # n + 1 => k \in 0..n
        /\ n \in 0..n /\ n + 1 \in 0..(n + 1) /\ 0 \in 0..(n + 1) /\ 0 # n + 1
        /\ \A k \in 0..n : k \in 0..(n + 1) /\ k # n + 1
    OBVIOUS
  <2>4. g \in [0..(n + 1) -> V]
    BY <2>1, <2>2, <2>3
  <2>5. g[0] = v0
    BY <2>1, <2>2, <2>3
  <2>6. ASSUME NEW k \in 0..(n + 1), k + 1 \in 0..(n + 1) PROVE g[k + 1] = F[g[k]]
    <3>1. k \in 0..n /\ g[k] = h[k]
      BY <2>2, <2>3, <2>6
    <3>2. CASE k = n
      BY <2>2, <2>3, <3>1, <3>2
    <3>3. CASE k # n
      <4>1. k + 1 \in 0..n /\ k + 1 # n + 1
        BY <3>1, <3>3
      <4>2. h[k + 1] = F[h[k]]
        BY <2>1, <3>1, <4>1
      <4> QED BY <2>2, <2>6, <3>1, <4>1, <4>2
    <3> QED BY <3>2, <3>3
  <2>7. Begun(g, n + 1)
    BY <2>4, <2>5, <2>6
  <2> HIDE DEF Begun
  <2> QED BY <2>7
<1>3. \A n \in Nat : Begun(B(n), n)
  <2>1. Nat \subseteq S
    <3> HIDE DEF S
    <3> QED BY <1>1, <1>2, Induction
  <2> SUFFICES ASSUME NEW n \in Nat PROVE Begun(B(n), n)
    OBVIOUS
  <2>2. \E h : Begun(h, n)
    BY <2>1
  <2> HIDE DEF Begun
  <2> QED BY <2>2
<1>4. ASSUME NEW n \in Nat, NEW h, NEW g, Begun(h, n), Begun(g, n + 1) PROVE h[n] = g[n]
  <2> DEFINE E == {k \in Nat : k \in 0..n => h[k] = g[k]}
  <2>1. 0 \in E
    BY <1>4
  <2>2. ASSUME NEW k \in Nat, k \in E PROVE k + 1 \in E
    <3> SUFFICES ASSUME k + 1 \in 0..n PROVE h[k + 1] = g[k + 1]
      OBVIOUS
    <3>1. k \in 0..n /\ k \in 0..(n + 1) /\ k + 1 \in 0..(n + 1)
      OBVIOUS
    <3> QED BY <1>4, <2>2, <3>1
  <2>3. Nat \subseteq E
    <3> HIDE DEF E
    <3> QED BY <2>1, <2>2, Induction
  <2>4. n \in 0..n
    OBVIOUS
  <2> QED BY <2>3, <2>4
<1>5. f \in [Nat -> V]
  <2> SUFFICES ASSUME NEW n \in Nat PROVE B(n)[n] \in V
    OBVIOUS
  <2>1. B(n) \in [0..n -> V] /\ n \in 0..n
    <3>1. PICK h : h = B(n) /\ Begun(h, n)
      <4> HIDE DEF B, Begun
      <4> QED BY <1>3
    <3> HIDE DEF B
    <3> QED BY <3>1
  <2> HIDE DEF B
  <2> QED BY <2>1
<1>6. f[0] = v0
  <2>1. Begun(B(0), 0)
    BY <1>3
  <2> HIDE DEF B
  <2> QED BY <2>1
<1>7. ASSUME NEW n \in Nat PROVE f[n + 1] = F[f[n]]
  <2>1. Begun(B(n), n) /\ Begun(B(n + 1), n + 1)
    <3>1. n + 1 \in Nat
      OBVIOUS
    <3> HIDE DEF B, Begun
    <3> QED BY <1>3, <3>1
  <2> HIDE DEF B
  <2>2. B(n)[n] = B(n + 1)[n]
    <3> HIDE DEF Begun
    <3> QED BY <1>4, <2>1
  <2>3. n \in 0..(n + 1) /\ n + 1 \in 0..(n + 1)
    OBVIOUS
  <2>4. B(n + 1)[n + 1] = F[B(n + 1)[n]]
    BY <2>1, <2>3
  <2> QED BY <2>2, <2>4
<1> HIDE DEF f
<1> QED BY <1>5, <1>6, <1>7

\* A position graph on finitely many places, none of whose steps is without length.
GraphOn(edges, nodes) ==
    /\ nodes \subseteq Int \X Int /\ IsFiniteSet(nodes)
    /\ \A e \in edges : e[1] \in nodes /\ e[2] \in nodes /\ Length(e) \in Nat \ {0}

\* Distances of some places: that of src is none, every other is some way off.
DistancesOf(nodes, src) ==
    {d \in UNION {[T -> Nat] : T \in SUBSET nodes} :
        src \in DOMAIN d /\ \A n \in DOMAIN d : d[n] = 0 <=> n = src}

LEMMA RelaxedOk ==
    ASSUME NEW edges, NEW nodes, GraphOn(edges, nodes), NEW src \in nodes, NEW d \in DistancesOf(nodes, src)
    PROVE  Relaxed(edges, d) \in DistancesOf(nodes, src)
<1> DEFINE R == DOMAIN d
           into(n) == {d[e[1]] + Length(e) : e \in {f \in edges : f[2] = n /\ f[1] \in R}}
           kept(n) == {c \in {IF n \in R THEN d[n] ELSE -1} : c >= 0}
           all == R \cup {e[2] : e \in {f \in edges : f[1] \in R}}
<1>1. Relaxed(edges, d) = [n \in all |-> Smallest(into(n) \cup kept(n))]
  BY DEF Relaxed
<1>2. /\ R \subseteq nodes /\ d \in [R -> Nat] /\ src \in R
      /\ \A n \in R : d[n] = 0 <=> n = src
  BY DEF DistancesOf
<1>3. all \subseteq nodes
  BY <1>2 DEF GraphOn
<1>4. ASSUME NEW n \in all
      PROVE  /\ into(n) \cup kept(n) \in SUBSET Nat /\ into(n) \cup kept(n) # {}
             /\ \A c \in into(n) : c # 0
             /\ \A c \in kept(n) : c = 0 <=> n = src
             /\ n = src => 0 \in kept(n)
  <2>1. \A e \in edges : e[1] \in R => d[e[1]] + Length(e) \in Nat \ {0}
    <3> SUFFICES ASSUME NEW e \in edges, e[1] \in R PROVE d[e[1]] + Length(e) \in Nat \ {0}
      OBVIOUS
    <3>1. PICK a \in Nat, b \in Nat \ {0} : a = d[e[1]] /\ b = Length(e)
      BY <1>2 DEF GraphOn
    <3> QED BY <3>1
  <2>2. \A c \in into(n) : c \in Nat \ {0}
    BY <2>1
  <2>3. n \in R => kept(n) = {d[n]}
    BY <1>2
  <2>4. n \notin R => kept(n) = {} /\ into(n) # {}
    <3>1. ASSUME n \notin R PROVE kept(n) = {}
      BY <3>1
    <3>2. ASSUME n \notin R PROVE into(n) # {}
      <4>1. PICK e \in edges : e[1] \in R /\ n = e[2]
        BY <1>4, <3>2
      <4> QED BY <4>1
    <3> QED BY <3>1, <3>2
  <2> HIDE DEF into, kept
  <2>5. CASE n \in R
    BY <1>2, <2>2, <2>3, <2>5
  <2>6. CASE n \notin R
    BY <1>2, <2>2, <2>4, <2>6
  <2> QED BY <2>5, <2>6
<1> DEFINE best(n) == Smallest(into(n) \cup kept(n))
<1>5. ASSUME NEW n \in all PROVE best(n) \in Nat /\ (best(n) = 0 <=> n = src)
  <2>1. best(n) \in into(n) \cup kept(n) /\ \A c \in into(n) \cup kept(n) : best(n) <= c
    <3> HIDE DEF into, kept
    <3> QED BY <1>4, SmallestIs
  <2> HIDE DEF into, kept, best
  <2>2. best(n) \in Nat
    BY <1>4, <2>1
  <2>3. n = src => best(n) = 0
    <3>1. n = src => best(n) <= 0
      BY <1>4, <2>1
    <3> QED BY <2>2, <3>1
  <2>4. best(n) = 0 => n = src
    BY <1>4, <2>1
  <2> QED BY <2>2, <2>3, <2>4
<1>6. Relaxed(edges, d) = [n \in all |-> best(n)] /\ src \in all
  BY <1>1, <1>2
<1> HIDE DEF best, all, R
<1> QED BY <1>3, <1>5, <1>6 DEF DistancesOf

Settled(edges, last) ==
    IF last.settled THEN last
    ELSE [dist |-> Relaxed(edges, last.dist), settled |-> Relaxed(edges, last.dist) = last.dist]

LEMMA DistancesAre ==
    ASSUME NEW edges, NEW nodes, GraphOn(edges, nodes), NEW src \in nodes
    PROVE  Distances(edges, nodes, src) \in DistancesOf(nodes, src)
<1> DEFINE D == DistancesOf(nodes, src)
           V == [dist : D, settled : BOOLEAN]
           none == [s \in {src} |-> 0]
           v0 == [dist |-> none, settled |-> FALSE]
           F == [v \in V |-> Settled(edges, v)]
           Solves(g) == g = [n \in Nat |-> IF n = 0 THEN v0 ELSE Settled(edges, g[n - 1])]
           G == CHOOSE g : Solves(g)
<1>1. none \in D
  <2>1. none \in [{src} -> Nat] /\ {src} \in SUBSET nodes /\ DOMAIN none = {src} /\ none[src] = 0
    OBVIOUS
  <2> HIDE DEF none
  <2> QED BY <2>1 DEF DistancesOf
<1>2. v0 \in V
  <2> HIDE DEF none, D
  <2> QED BY <1>1
<1>3. ASSUME NEW v \in V PROVE Settled(edges, v) \in V
  <2>1. Relaxed(edges, v.dist) \in D
    BY RelaxedOk
  <2> HIDE DEF D
  <2> QED BY <2>1 DEF Settled
<1>4. F \in [V -> V]
  <2> HIDE DEF V
  <2> QED BY <1>3
<1>5. PICK f \in [Nat -> V] : f[0] = v0 /\ \A n \in Nat : f[n + 1] = F[f[n]]
  <2> HIDE DEF V, F, v0
  <2> QED BY <1>2, <1>4, Recursion
<1>6. Solves(f)
  <2>1. ASSUME NEW n \in Nat PROVE f[n] = IF n = 0 THEN v0 ELSE Settled(edges, f[n - 1])
    <3>1. CASE n = 0
      BY <1>5, <3>1
    <3>2. CASE n # 0
      <4>1. n - 1 \in Nat /\ (n - 1) + 1 = n
        BY <3>2
      <4>2. f[n] = F[f[n - 1]] /\ f[n - 1] \in V
        BY <1>5, <4>1
      <4> HIDE DEF V
      <4> QED BY <3>2, <4>2
    <3> QED BY <3>1, <3>2
  <2>2. f = [n \in Nat |-> f[n]]
    OBVIOUS
  <2> HIDE DEF V, v0
  <2> QED BY <2>1, <2>2
<1>7. Solves(G)
  <2> HIDE DEF Solves
  <2> QED BY <1>6
<1>8. Distances(edges, nodes, src) = G[Cardinality(nodes)].dist
  BY DEF Distances, Settled
<1> HIDE DEF G
<1>9. G[0] = v0 /\ \A n \in Nat : G[n + 1] = Settled(edges, G[n])
  <2>1. \A n \in Nat : G[n] = IF n = 0 THEN v0 ELSE Settled(edges, G[n - 1])
    <3> HIDE DEF v0
    <3> QED BY <1>7
  <2>2. \A n \in Nat : n + 1 \in Nat /\ n + 1 # 0 /\ (n + 1) - 1 = n
    OBVIOUS
  <2> HIDE DEF v0
  <2> QED BY <2>1, <2>2
<1>10. \A n \in Nat : G[n] \in V
  <2> DEFINE S == {n \in Nat : G[n] \in V}
  <2>1. 0 \in S
    BY <1>2, <1>9
  <2>2. ASSUME NEW n \in Nat, n \in S PROVE n + 1 \in S
    <3> HIDE DEF V, v0
    <3> QED BY <1>3, <1>9, <2>2
  <2>3. Nat \subseteq S
    <3> HIDE DEF S
    <3> QED BY <2>1, <2>2, Induction
  <2> QED BY <2>3
<1>11. Cardinality(nodes) \in Nat
  BY FS_CardinalityType DEF GraphOn
<1>12. G[Cardinality(nodes)] \in V
  BY <1>10, <1>11
<1>13. G[Cardinality(nodes)].dist \in D
  <2> HIDE DEF D
  <2> QED BY <1>12
<1> QED BY <1>8, <1>13

\* A way to dst along the edges on which the distances rise.
Rises(edges, d, dst) ==
    {way \in Seq(DOMAIN d) :
        /\ way # << >> /\ way[Len(way)] = dst
        /\ \A k \in 1..(Len(way) - 1) :
              /\ \E e \in edges : e[1] = way[k] /\ e[2] = way[k + 1]
              /\ d[way[k]] < d[way[k + 1]]}

LEMMA RisesThroughout ==
    ASSUME NEW nodes, NEW src, NEW d \in DistancesOf(nodes, src), NEW edges, NEW dst,
           NEW way \in Rises(edges, d, dst)
    PROVE  \A i, j \in 1..Len(way) : i < j => d[way[i]] < d[way[j]]
<1>1. PICK n \in Nat : /\ n = Len(way) /\ way \in [1..n -> DOMAIN d]
                       /\ \A k \in 1..(n - 1) : d[way[k]] < d[way[k + 1]]
  BY DEF Rises
<1>2. \A k \in 1..n : d[way[k]] \in Nat
  BY <1>1 DEF DistancesOf
<1> DEFINE S == {m \in Nat : \A i \in 1..n : i + m + 1 \in 1..n => d[way[i]] < d[way[i + m + 1]]}
<1>3. 0 \in S
  <2> SUFFICES ASSUME NEW i \in 1..n, i + 0 + 1 \in 1..n PROVE d[way[i]] < d[way[i + 0 + 1]]
    OBVIOUS
  <2>1. i + 0 + 1 = i + 1 /\ i \in 1..(n - 1)
    OBVIOUS
  <2> QED BY <1>1, <2>1
<1>4. ASSUME NEW m \in Nat, m \in S PROVE m + 1 \in S
  <2> SUFFICES ASSUME NEW i \in 1..n, i + (m + 1) + 1 \in 1..n
               PROVE  d[way[i]] < d[way[i + (m + 1) + 1]]
    OBVIOUS
  <2>1. PICK l \in 1..n : l = i + m + 1 /\ l + 1 = i + (m + 1) + 1 /\ l \in 1..(n - 1) /\ l + 1 \in 1..n
    OBVIOUS
  <2>2. d[way[i]] < d[way[l]]
    BY <1>4, <2>1
  <2>3. d[way[l]] < d[way[l + 1]]
    BY <1>1, <2>1
  <2>4. PICK a \in Nat, b \in Nat, c \in Nat : a = d[way[i]] /\ b = d[way[l]] /\ c = d[way[l + 1]]
    BY <1>2, <2>1
  <2> QED BY <2>1, <2>2, <2>3, <2>4
<1>5. Nat \subseteq S
  <2> HIDE DEF S
  <2> QED BY <1>3, <1>4, Induction
<1> SUFFICES ASSUME NEW i \in 1..n, NEW j \in 1..n, i < j PROVE d[way[i]] < d[way[j]]
  BY <1>1
<1>6. PICK m \in Nat : m = (j - i) - 1 /\ i + m + 1 = j
  OBVIOUS
<1> QED BY <1>5, <1>6

LEMMA Prefixed ==
    ASSUME NEW T, NEW x \in T, NEW s \in Seq(T), NEW r, r = <<x>> \o s
    PROVE  /\ r \in Seq(T) /\ Len(r) = Len(s) + 1 /\ r[1] = x
           /\ \A k \in 1..Len(s) : r[k + 1] = s[k]
OBVIOUS

LEMMA LengthenedOk ==
    ASSUME NEW edges, NEW nodes, GraphOn(edges, nodes), NEW src, NEW d \in DistancesOf(nodes, src), NEW dst,
           NEW way \in Rises(edges, d, dst), NEW longer \in Lengthened(edges, d, way)
    PROVE  /\ longer \in Rises(edges, d, dst)
           /\ (longer = way /\ d[way[1]] = 0) \/ Len(longer) = Len(way) + 1
<1>1. CASE d[way[1]] = 0
  BY <1>1 DEF Lengthened
<1>2. CASE d[way[1]] # 0
  <2>1. PICK e \in edges : /\ e[2] = way[1] /\ e[1] \in DOMAIN d /\ d[e[1]] + Length(e) = d[e[2]]
                           /\ longer = <<e[1]>> \o way
    BY <1>2 DEF Lengthened, Cons
  <2>2. PICK n \in Nat : /\ n = Len(way) /\ n >= 1 /\ way \in Seq(DOMAIN d) /\ way[n] = dst
                         /\ \A k \in 1..(n - 1) : /\ \E f \in edges : f[1] = way[k] /\ f[2] = way[k + 1]
                                                  /\ d[way[k]] < d[way[k + 1]]
    BY DEF Rises
  <2>3. /\ longer \in Seq(DOMAIN d) /\ Len(longer) = n + 1 /\ longer[1] = e[1]
        /\ \A k \in 1..n : longer[k + 1] = way[k]
    BY <2>1, <2>2, Prefixed
  <2>4. d[e[1]] < d[way[1]]
    <3>1. PICK a \in Nat, b \in Nat \ {0} : a = d[e[1]] /\ b = Length(e)
      BY <2>1 DEF GraphOn, DistancesOf
    <3>2. a + b = d[way[1]] /\ a < a + b
      BY <2>1, <3>1
    <3> QED BY <3>1, <3>2
  <2>5. ASSUME NEW k \in 1..n
        PROVE  /\ \E f \in edges : f[1] = longer[k] /\ f[2] = longer[k + 1]
               /\ d[longer[k]] < d[longer[k + 1]]
    <3>1. CASE k = 1
      <4>1. longer[1 + 1] = way[1]
        BY <2>2, <2>3
      <4> QED BY <2>1, <2>3, <2>4, <3>1, <4>1
    <3>2. CASE k # 1
      <4>1. PICK l \in 1..(n - 1) : l + 1 = k /\ l \in 1..n /\ l + 1 \in 1..n
        <5>1. k - 1 \in 1..(n - 1) /\ (k - 1) + 1 = k /\ k - 1 \in 1..n
          BY <2>2, <3>2
        <5> QED BY <5>1
      <4>2. longer[k] = way[l] /\ longer[k + 1] = way[l + 1]
        BY <2>3, <4>1
      <4> QED BY <2>2, <4>1, <4>2
    <3> QED BY <3>1, <3>2
  <2>6. longer[n + 1] = dst /\ longer # << >>
    <3>1. n \in 1..n
      BY <2>2
    <3> QED BY <2>2, <2>3, <3>1
  <2>7. (n + 1) - 1 = n
    OBVIOUS
  <2>8. longer \in Rises(edges, d, dst)
    BY <2>3, <2>5, <2>6, <2>7 DEF Rises
  <2> QED BY <2>2, <2>3, <2>8
<1> QED BY <1>1, <1>2

\* The shortest ways begin at src: there are no more distances than nodes.
LEMMA ShortestAre ==
    ASSUME NEW edges, NEW nodes, GraphOn(edges, nodes), NEW src \in nodes, NEW d \in DistancesOf(nodes, src),
           NEW dst \in DOMAIN d, NEW way \in ShortestTo(edges, d, dst)
    PROVE  way \in Rises(edges, d, dst) /\ way[1] = src
<1> DEFINE W == Rises(edges, d, dst)
           V == SUBSET W
           Step(ws) == UNION {Lengthened(edges, d, w) : w \in ws}
           F == [ws \in V |-> Step(ws)]
           v0 == {<<dst>>}
           Solves(g) == g = [n \in Nat |-> IF n = 0 THEN v0 ELSE Step(g[n - 1])]
           G == CHOOSE g : Solves(g)
<1>1. v0 \in V
  <2>1. <<dst>> \in Seq(DOMAIN d) /\ <<dst>> # << >> /\ Len(<<dst>>) = 1 /\ <<dst>>[1] = dst
    OBVIOUS
  <2>2. \A k : k \notin 1..(1 - 1)
    OBVIOUS
  <2>3. <<dst>> \in W
    BY <2>1, <2>2 DEF Rises
  <2> HIDE DEF W
  <2> QED BY <2>3
<1>2. ASSUME NEW ws \in V PROVE Step(ws) \in V
  <2>1. \A w \in W : Lengthened(edges, d, w) \subseteq W
    BY LengthenedOk
  <2> HIDE DEF W
  <2> QED BY <2>1
<1>3. F \in [V -> V]
  <2> HIDE DEF V, Step
  <2> QED BY <1>2
<1>4. PICK f \in [Nat -> V] : f[0] = v0 /\ \A n \in Nat : f[n + 1] = F[f[n]]
  <2> HIDE DEF V, F, v0
  <2> QED BY <1>1, <1>3, Recursion
<1>5. Solves(f)
  <2>1. ASSUME NEW n \in Nat PROVE f[n] = IF n = 0 THEN v0 ELSE Step(f[n - 1])
    <3>1. CASE n = 0
      BY <1>4, <3>1
    <3>2. CASE n # 0
      <4>1. n - 1 \in Nat /\ (n - 1) + 1 = n
        BY <3>2
      <4>2. f[n] = F[f[n - 1]] /\ f[n - 1] \in V
        BY <1>4, <4>1
      <4> HIDE DEF V, Step
      <4> QED BY <3>2, <4>2
    <3> QED BY <3>1, <3>2
  <2>2. f = [n \in Nat |-> f[n]]
    OBVIOUS
  <2> HIDE DEF V, v0, Step
  <2> QED BY <2>1, <2>2
<1>6. Solves(G)
  <2> HIDE DEF Solves
  <2> QED BY <1>5
<1> DEFINE N == Cardinality(DOMAIN d)
<1>7. way \in G[N]
  BY DEF ShortestTo
<1> HIDE DEF G
<1>8. G[0] = v0 /\ \A n \in Nat : G[n + 1] = Step(G[n])
  <2>1. \A n \in Nat : G[n] = IF n = 0 THEN v0 ELSE Step(G[n - 1])
    <3> HIDE DEF v0, Step
    <3> QED BY <1>6
  <2>2. \A n \in Nat : n + 1 \in Nat /\ n + 1 # 0 /\ (n + 1) - 1 = n
    OBVIOUS
  <2> HIDE DEF v0, Step
  <2> QED BY <2>1, <2>2
<1> DEFINE S == {n \in Nat : \A w \in G[n] : w \in W /\ (Len(w) = n + 1 \/ d[w[1]] = 0)}
<1>9. 0 \in S
  <2>1. \A w \in G[0] : w = <<dst>>
    BY <1>8
  <2>2. Len(<<dst>>) = 0 + 1
    OBVIOUS
  <2>3. <<dst>> \in W
    BY <1>1
  <2> HIDE DEF W
  <2> QED BY <2>1, <2>2, <2>3
<1>10. ASSUME NEW n \in Nat, n \in S PROVE n + 1 \in S
  <2> SUFFICES ASSUME NEW w \in G[n + 1] PROVE w \in W /\ (Len(w) = (n + 1) + 1 \/ d[w[1]] = 0)
    OBVIOUS
  <2>1. PICK u \in G[n] : w \in Lengthened(edges, d, u)
    BY <1>8
  <2>2. u \in W /\ (Len(u) = n + 1 \/ d[u[1]] = 0)
    BY <1>10
  <2>3. /\ w \in W
        /\ (w = u /\ d[u[1]] = 0) \/ Len(w) = Len(u) + 1
    BY <2>1, <2>2, LengthenedOk
  <2>4. d[u[1]] = 0 => w = u
    BY <2>1 DEF Lengthened
  <2> HIDE DEF W
  <2> QED BY <2>2, <2>3, <2>4
<1>11. Nat \subseteq S
  <2> HIDE DEF S
  <2> QED BY <1>9, <1>10, Induction
<1>12. IsFiniteSet(DOMAIN d) /\ N \in Nat
  <2>1. DOMAIN d \in SUBSET nodes
    BY DEF DistancesOf
  <2> QED BY <2>1, FS_Subset, FS_CardinalityType DEF GraphOn
<1>13. way \in W /\ (Len(way) = N + 1 \/ d[way[1]] = 0)
  <2> HIDE DEF N, W
  <2> QED BY <1>7, <1>11, <1>12
<1>14. Len(way) # N + 1
  <2> SUFFICES ASSUME Len(way) = N + 1 PROVE FALSE
    OBVIOUS
  <2>1. way \in [1..(N + 1) -> DOMAIN d]
    BY <1>12, <1>13 DEF Rises
  <2>2. IsFiniteSet(1..(N + 1)) /\ Cardinality(1..(N + 1)) = N + 1
    BY <1>12, FS_Interval
  <2>3. N < N + 1
    BY <1>12
  <2>4. PICK x \in 1..(N + 1), y \in 1..(N + 1) : x # y /\ way[x] = way[y]
    BY <1>12, <2>1, <2>2, <2>3, FS_PigeonHole
  <2>5. x < y \/ y < x
    BY <2>4
  <2>6. d[way[x]] < d[way[y]] \/ d[way[y]] < d[way[x]]
    BY <1>13, <2>5, RisesThroughout
  <2>7. d[way[x]] \in Nat /\ d[way[x]] = d[way[y]]
    BY <2>1, <2>4 DEF DistancesOf
  <2> QED BY <2>6, <2>7
<1>15. way[1] \in DOMAIN d
  BY <1>13 DEF Rises
<1> QED BY <1>13, <1>14, <1>15 DEF DistancesOf

\* One step along an axis, over no place of an atom.
Free(g, offs, p, q) == (p[1] = q[1] \/ p[2] = q[2]) /\ ~ Crossed(g, offs, p, q)

LEMMA FarthestIs ==
    ASSUME NEW g, NEW offs, NEW path, NEW n \in Nat, n = Len(path), NEW i \in 1..(n - 1),
           Free(g, offs, path[i], path[i + 1])
    PROVE  /\ Farthest(g, offs, path, i) \in (i + 1)..n
           /\ Free(g, offs, path[i], path[Farthest(g, offs, path, i)])
<1> DEFINE axis == IF path[i + 1][2] = path[i][2] THEN 2 ELSE 1
           K == {k \in (i + 1)..n : \A m \in (i + 2)..k : /\ path[m][axis] = path[i][axis]
                                                         /\ ~ Crossed(g, offs, path[i], path[m])}
<1>1. K \in SUBSET Int /\ IsFiniteSet(K)
  <2>1. i + 1 \in Int /\ n \in Int /\ K \in SUBSET ((i + 1)..n) /\ (i + 1)..n \in SUBSET Int
    OBVIOUS
  <2>2. IsFiniteSet((i + 1)..n)
    BY <2>1, FS_Interval
  <2> HIDE DEF K
  <2> QED BY <2>1, <2>2, FS_Subset
<1>2. i + 1 \in K
  <2>1. i + 1 \in (i + 1)..n /\ \A m : m \notin (i + 2)..(i + 1)
    OBVIOUS
  <2> HIDE DEF axis
  <2> QED BY <2>1
<1>3. \E k \in K : \A m \in K : m <= k
  <2> HIDE DEF K
  <2> QED BY <1>1, <1>2, GreatestNumber
<1>4. Farthest(g, offs, path, i) = Largest(K)
  BY DEF Farthest
<1>5. PICK k \in K : k = Farthest(g, offs, path, i)
  <2> HIDE DEF K
  <2> QED BY <1>3, <1>4 DEF Largest
<1>6. CASE k = i + 1
  BY <1>5, <1>6
<1>7. CASE k # i + 1
  <2>1. k \in (i + 2)..k /\ k \in (i + 1)..n
    BY <1>7
  <2>2. path[k][axis] = path[i][axis] /\ ~ Crossed(g, offs, path[i], path[k])
    BY <2>1
  <2> QED BY <1>5, <2>1, <2>2 DEF Free
<1> QED BY <1>6, <1>7

\* The corners of a merged path, as indices of it.
Corners(g, offs, path, n) ==
    {c \in Seq(1..n) :
        /\ c # << >> /\ c[1] = 1
        /\ \A k \in 1..(Len(c) - 1) : c[k] < c[k + 1] /\ Free(g, offs, path[c[k]], path[c[k + 1]])}

NextCorner(g, offs, path, so) ==
    LET i == so[Len(so)] IN IF i = Len(path) THEN so ELSE Append(so, Farthest(g, offs, path, i))

LEMMA NextCornerOk ==
    ASSUME NEW g, NEW offs, NEW path, NEW n \in Nat, n = Len(path),
           \A k \in 1..(n - 1) : Free(g, offs, path[k], path[k + 1]),
           NEW c \in Corners(g, offs, path, n), NEW r, r = NextCorner(g, offs, path, c)
    PROVE  /\ r \in Corners(g, offs, path, n)
           /\ IF c[Len(c)] = n THEN r = c ELSE r[Len(r)] \in Nat /\ r[Len(r)] > c[Len(c)]
<1>1. PICK m \in Nat : m = Len(c) /\ m >= 1 /\ c \in [1..m -> 1..n] /\ c \in Seq(1..n)
  BY DEF Corners
<1>2. PICK i \in 1..n : i = c[m]
  BY <1>1
<1>3. CASE i = n
  BY <1>1, <1>2, <1>3 DEF NextCorner
<1>4. CASE i # n
  <2>1. i \in 1..(n - 1)
    BY <1>4
  <2>2. PICK k \in (i + 1)..n : k = Farthest(g, offs, path, i) /\ Free(g, offs, path[i], path[k])
    BY <2>1, FarthestIs
  <2>3. r = Append(c, k) /\ k \in 1..n
    BY <1>1, <1>2, <1>4, <2>2 DEF NextCorner
  <2>4. r \in Seq(1..n) /\ Len(r) = m + 1 /\ r[m + 1] = k /\ \A l \in 1..m : r[l] = c[l]
    BY <1>1, <2>3
  <2>5. ASSUME NEW l \in 1..((m + 1) - 1)
        PROVE  r[l] < r[l + 1] /\ Free(g, offs, path[r[l]], path[r[l + 1]])
    <3>1. CASE l = m
      <4>1. r[l] = i /\ r[l + 1] = k
        BY <1>1, <1>2, <2>4, <3>1
      <4> QED BY <2>2, <4>1
    <3>2. CASE l # m
      <4>1. l \in 1..(m - 1) /\ l \in 1..m /\ l + 1 \in 1..m
        <5>1. m \in Nat
          BY <1>1
        <5> QED BY <3>2, <5>1
      <4>2. c[l] < c[l + 1] /\ Free(g, offs, path[c[l]], path[c[l + 1]])
        BY <1>1, <4>1 DEF Corners
      <4> QED BY <2>4, <4>1, <4>2
    <3> QED BY <3>1, <3>2
  <2>6. r # << >> /\ r[1] = 1
    <3>1. 1 \in 1..m /\ c[1] = 1
      BY <1>1 DEF Corners
    <3> QED BY <2>4, <3>1
  <2>7. r \in Corners(g, offs, path, n)
    BY <2>4, <2>5, <2>6 DEF Corners
  <2> QED BY <1>1, <1>2, <1>4, <2>2, <2>4, <2>7
<1> QED BY <1>3, <1>4

Solvable(V, v0, F) == \E f \in [Nat -> V] : f[0] = v0 /\ \A k \in Nat : f[k + 1] = F[f[k]]

LEMMA RecursionSolved == ASSUME NEW V, NEW v0 \in V, NEW F \in [V -> V] PROVE Solvable(V, v0, F)
  BY Recursion DEF Solvable

AllFree(g, offs, path, n) == \A k \in 1..(n - 1) : Free(g, offs, path[k], path[k + 1])
MergesTo(g, offs, path, n, way) ==
    \E c \in Corners(g, offs, path, n) : c[Len(c)] = n /\ way = [k \in DOMAIN c |-> path[c[k]]]

LEMMA MergedAre ==
    ASSUME NEW g, NEW offs, NEW path, NEW n \in Nat \ {0}, n = Len(path), AllFree(g, offs, path, n)
    PROVE  MergesTo(g, offs, path, n, Merged(g, offs, path))
<1> DEFINE V == Corners(g, offs, path, n)
           v0 == <<1>>
           Step(c) == NextCorner(g, offs, path, c)
           F == [c \in V |-> Step(c)]
           Solves(h) == h = [k \in Nat |-> IF k = 0 THEN v0 ELSE Step(h[k - 1])]
           G == CHOOSE h : Solves(h)
<1>1. v0 \in V
  <2>1. <<1>> \in Seq(1..n) /\ <<1>> # << >> /\ Len(<<1>>) = 1 /\ <<1>>[1] = 1
    OBVIOUS
  <2>2. \A k : k \notin 1..(1 - 1)
    OBVIOUS
  <2> QED BY <2>1, <2>2 DEF Corners
<1>2. F \in [V -> V]
  <2>1. \A c \in V : Step(c) \in V
    BY NextCornerOk DEF AllFree
  <2> HIDE DEF V, Step, v0
  <2> QED BY <2>1
<1>3. PICK f \in [Nat -> V] : f[0] = v0 /\ \A k \in Nat : f[k + 1] = F[f[k]]
  <2>1. Solvable(V, v0, F)
    <3> HIDE DEF V, F, v0
    <3> QED BY <1>1, <1>2, RecursionSolved
  <2> QED BY <2>1 DEF Solvable
<1>4. Solves(f)
  <2>1. ASSUME NEW k \in Nat PROVE f[k] = IF k = 0 THEN v0 ELSE Step(f[k - 1])
    <3>1. CASE k = 0
      BY <1>3, <3>1
    <3>2. CASE k # 0
      <4>1. k - 1 \in Nat /\ (k - 1) + 1 = k
        BY <3>2
      <4>2. f[k] = F[f[k - 1]] /\ f[k - 1] \in V
        BY <1>3, <4>1
      <4> HIDE DEF V, Step, v0
      <4> QED BY <3>2, <4>2
    <3> QED BY <3>1, <3>2
  <2>2. f = [k \in Nat |-> f[k]]
    OBVIOUS
  <2> HIDE DEF V, Step, v0
  <2> QED BY <2>1, <2>2
<1>5. Solves(G)
  <2> HIDE DEF Solves
  <2> QED BY <1>4
<1>6. Merged(g, offs, path) = [k \in DOMAIN G[n] |-> path[G[n][k]]]
  BY DEF Merged, NextCorner
<1> HIDE DEF G
<1>7. G[0] = v0 /\ \A k \in Nat : G[k + 1] = Step(G[k])
  <2>1. \A k \in Nat : G[k] = IF k = 0 THEN v0 ELSE Step(G[k - 1])
    <3> HIDE DEF Step, v0
    <3> QED BY <1>5
  <2>2. \A k \in Nat : k + 1 \in Nat /\ k + 1 # 0 /\ (k + 1) - 1 = k
    OBVIOUS
  <2> HIDE DEF Step, v0
  <2> QED BY <2>1, <2>2
<1> DEFINE End(c) == c[Len(c)]
           S == {k \in Nat : G[k] \in V /\ (End(G[k]) = n \/ End(G[k]) > k)}
<1>8. 0 \in S
  <2>1. End(v0) = 1
    OBVIOUS
  <2> HIDE DEF V, End, v0
  <2> QED BY <1>1, <1>7, <2>1, SMTT(60)
<1>9. ASSUME NEW k \in Nat, k \in S PROVE k + 1 \in S
  <2>1. G[k] \in V /\ (End(G[k]) = n \/ End(G[k]) > k) /\ G[k + 1] = Step(G[k])
    BY <1>7, <1>9
  <2>2. /\ G[k + 1] \in V
        /\ IF End(G[k]) = n THEN G[k + 1] = G[k] ELSE End(G[k + 1]) \in Nat /\ End(G[k + 1]) > End(G[k])
    BY <2>1, NextCornerOk DEF AllFree
  <2>3. End(G[k]) \in Nat
    <3>1. PICK c : c = G[k] /\ c \in Seq(1..n) /\ c # << >>
      BY <2>1 DEF Corners
    <3>2. c[Len(c)] \in 1..n
      BY <3>1
    <3> QED BY <3>1, <3>2
  <2> HIDE DEF V, End, Step
  <2>4. CASE End(G[k]) = n
    BY <2>2, <2>4
  <2>5. CASE End(G[k]) # n
    <3>1. PICK a \in Nat, b \in Nat : a = End(G[k]) /\ b = End(G[k + 1])
      BY <2>2, <2>3, <2>5
    <3>2. a > k /\ b > a
      BY <2>1, <2>2, <2>5, <3>1
    <3> QED BY <2>2, <3>1, <3>2
  <2> QED BY <2>4, <2>5
<1>10. n \in S
  <2> HIDE DEF S
  <2> QED BY <1>8, <1>9, Induction
<1>11. End(G[n]) = n
  <2>1. End(G[n]) \in 1..n
    <3>1. \A c \in V : c \in Seq(1..n) /\ c # << >>
      BY DEF Corners
    <3>2. \A c \in Seq(1..n) : c # << >> => c[Len(c)] \in 1..n
      OBVIOUS
    <3> QED BY <1>10, <3>1, <3>2
  <2> HIDE DEF End, V
  <2> QED BY <1>10, <2>1
<1> QED BY <1>6, <1>10, <1>11 DEF MergesTo

\* The grid of a zone, with lines and with clearances above zero.
GridOk(g) ==
    /\ g.xs \in Seq(Int) /\ g.ys \in Seq(Int) /\ g.xs # << >> /\ g.ys # << >>
    /\ g.dx \in Nat \ {0} /\ g.dy \in Nat \ {0}

LEMMA LinesAre ==
    ASSUME NEW s \in Seq(Int), s # << >>
    PROVE  /\ InSeq(s) \in SUBSET Int /\ IsFiniteSet(InSeq(s)) /\ InSeq(s) # {}
           /\ Smallest(InSeq(s)) \in Int /\ Largest(InSeq(s)) \in Int
<1>1. PICK n \in Nat : n = Len(s) /\ DOMAIN s = 1..n /\ n # 0 /\ \A i \in 1..n : s[i] \in Int
  OBVIOUS
<1>2. InSeq(s) = {s[i] : i \in 1..n}
  BY <1>1 DEF InSeq
<1>3. InSeq(s) \in SUBSET Int /\ InSeq(s) # {}
  BY <1>1, <1>2
<1>4. IsFiniteSet(InSeq(s))
  <2>1. IsFiniteSet(1..n)
    BY FS_Interval
  <2>2. IsFiniteSet({s[i] : i \in 1..n})
    BY <2>1, ImageFinite
  <2> QED BY <1>2, <2>2
<1>5. \E k \in InSeq(s) : \A m \in InSeq(s) : m <= k
  BY <1>3, <1>4, GreatestNumber
<1>6. \E k \in InSeq(s) : \A m \in InSeq(s) : k <= m
  <2> DEFINE Minus == {- m : m \in InSeq(s)}
             f == [m \in InSeq(s) |-> - m]
  <2>1. Minus = {f[m] : m \in InSeq(s)}
    OBVIOUS
  <2>2. IsFiniteSet(Minus)
    <3> HIDE DEF f, Minus
    <3> QED BY <1>4, <2>1, ImageFinite
  <2>3. Minus \in SUBSET Int /\ Minus # {}
    BY <1>3
  <2>4. PICK k \in Minus : \A m \in Minus : m <= k
    <3> HIDE DEF Minus
    <3> QED BY <2>2, <2>3, GreatestNumber
  <2>5. PICK l \in InSeq(s) : k = - l
    BY <2>4
  <2>6. \A m \in InSeq(s) : - m <= - l
    BY <2>4, <2>5
  <2> QED BY <1>3, <2>5, <2>6
<1>7. Smallest(InSeq(s)) \in InSeq(s)
  <2> DEFINE L == InSeq(s)
  <2> HIDE DEF L
  <2>1. \E k \in L : \A m \in L : k <= m
    BY <1>6 DEF L
  <2>2. Smallest(L) \in L
    BY <2>1 DEF Smallest
  <2> QED BY <2>2 DEF L
<1>8. Largest(InSeq(s)) \in InSeq(s)
  <2> DEFINE L == InSeq(s)
  <2> HIDE DEF L
  <2>1. \E k \in L : \A m \in L : m <= k
    BY <1>5 DEF L
  <2>2. Largest(L) \in L
    BY <2>1 DEF Largest
  <2> QED BY <2>2 DEF L
<1> QED BY <1>3, <1>4, <1>7, <1>8

\* Safe positions keep every atom off every line.
LEMMA SafeAre ==
    ASSUME NEW s \in Seq(Int), s # << >>, NEW offs \in SUBSET Int, IsFiniteSet(offs), NEW width \in Nat \ {0}
    PROVE  /\ SafePositions(s, offs, width) \in SUBSET Int /\ IsFiniteSet(SafePositions(s, offs, width))
           /\ \A c \in SafePositions(s, offs, width) : \A off \in offs : c + off \notin InSeq(s)
<1> DEFINE lines == InSeq(s)
           Middle(p) == (p[1] + p[2]) \div 2
           sorted == {p \in lines \X lines : p[1] < p[2] /\ \A n \in lines : ~ Strictly(p[1], n, p[2])}
           A == {Middle(p) - off : p \in sorted, off \in offs}
           B == {Smallest(lines) - off - width : off \in offs}
           C == {Largest(lines) - off + width : off \in offs}
           safe == {c \in A \cup B \cup C : \A off \in offs, l \in lines : Gap(c + off, l) >= width}
<1>1. SafePositions(s, offs, width) = safe
  BY DEF SafePositions
<1>2. lines \in SUBSET Int /\ IsFiniteSet(lines) /\ Smallest(lines) \in Int /\ Largest(lines) \in Int
  BY LinesAre
<1>3. PICK low \in Int, high \in Int : low = Smallest(lines) /\ high = Largest(lines)
  BY <1>2
<1>4. A \in SUBSET Int /\ IsFiniteSet(A)
  <2> DEFINE P == (lines \X lines) \X offs
             f == [q \in P |-> Middle(q[1]) - q[2]]
  <2>1. \A p \in lines \X lines : Middle(p) \in Int
    BY <1>2
  <2>2. IsFiniteSet(P)
    <3> HIDE DEF lines
    <3>1. IsFiniteSet(lines \X lines)
      BY <1>2, FS_Product
    <3> HIDE DEF P
    <3> QED BY <3>1, FS_Product DEF P
  <2>3. IsFiniteSet({f[q] : q \in P})
    <3> HIDE DEF P, f
    <3> QED BY <2>2, ImageFinite
  <2>4. A \in SUBSET {f[q] : q \in P}
    <3> SUFFICES ASSUME NEW p \in sorted, NEW off \in offs PROVE \E q \in P : Middle(p) - off = f[q]
      <4> HIDE DEF P, f, sorted, Middle
      <4> QED OBVIOUS
    <3>1. <<p, off>> \in P /\ f[<<p, off>>] = Middle(p) - off
      <4> HIDE DEF Middle
      <4> QED OBVIOUS
    <3> HIDE DEF P, f, sorted, Middle
    <3> QED BY <3>1
  <2>5. \A p \in sorted : Middle(p) \in Int
    BY <2>1
  <2>6. A \in SUBSET Int
    <3> HIDE DEF sorted, Middle
    <3> QED BY <2>5
  <2> HIDE DEF A
  <2> QED BY <2>3, <2>4, <2>6, FS_Subset
<1>5. B \in SUBSET Int /\ IsFiniteSet(B)
  <2> DEFINE f == [off \in offs |-> low - off - width]
  <2>1. B = {f[off] : off \in offs}
    BY <1>3
  <2>2. IsFiniteSet({f[off] : off \in offs})
    <3> HIDE DEF f
    <3> QED BY ImageFinite
  <2>3. \A off \in offs : f[off] \in Int
    OBVIOUS
  <2> HIDE DEF f, B
  <2> QED BY <2>1, <2>2, <2>3
<1>6. C \in SUBSET Int /\ IsFiniteSet(C)
  <2> DEFINE f == [off \in offs |-> high - off + width]
  <2>1. C = {f[off] : off \in offs}
    BY <1>3
  <2>2. IsFiniteSet({f[off] : off \in offs})
    <3> HIDE DEF f
    <3> QED BY ImageFinite
  <2>3. \A off \in offs : f[off] \in Int
    OBVIOUS
  <2> HIDE DEF f, C
  <2> QED BY <2>1, <2>2, <2>3
<1>7. IsFiniteSet(A \cup B \cup C) /\ A \cup B \cup C \in SUBSET Int
  <2> HIDE DEF A, B, C
  <2>1. IsFiniteSet(A \cup B)
    BY <1>4, <1>5, FS_Union
  <2> QED BY <1>4, <1>5, <1>6, <2>1, FS_Union
<1>8. safe \in SUBSET (A \cup B \cup C)
  <2> HIDE DEF A, B, C
  <2> QED OBVIOUS
<1>9. \A c \in safe : \A off \in offs : c + off \notin lines
  <2> HIDE DEF A, B, C
  <2> SUFFICES ASSUME NEW c \in safe, NEW off \in offs, c + off \in lines PROVE FALSE
    OBVIOUS
  <2>1. Gap(c + off, c + off) >= width
    OBVIOUS
  <2>2. PICK l \in Int : l = c + off
    BY <1>2
  <2>3. Gap(l, l) = 0
    BY DEF Gap
  <2> QED BY <2>1, <2>2, <2>3
<1> HIDE DEF safe, lines
<1>10. safe \in SUBSET Int /\ IsFiniteSet(safe)
  <2> HIDE DEF A, B, C
  <2> QED BY <1>7, <1>8, FS_Subset
<1> QED BY <1>1, <1>9, <1>10 DEF lines

\* Where an atom is when the reference atom is at p.
Beside(p, off) == <<p[1] + off[1], p[2] + off[2]>>
Points(g) == InSeq(g.xs) \X InSeq(g.ys)

LEMMA NodesAre ==
    ASSUME NEW g, GridOk(g), NEW offs \in SUBSET (Int \X Int), IsFiniteSet(offs),
           NEW src \in Int \X Int, NEW dst \in Int \X Int
    PROVE  /\ Nodes(g, offs, src, dst) \in SUBSET (Int \X Int) /\ IsFiniteSet(Nodes(g, offs, src, dst))
           /\ src \in Nodes(g, offs, src, dst) /\ dst \in Nodes(g, offs, src, dst)
           /\ \A p \in Nodes(g, offs, src, dst) : p # src /\ p # dst =>
                 \A off \in offs : Beside(p, off) \notin Points(g)
<1> DEFINE ox == {off[1] : off \in offs}
           oy == {off[2] : off \in offs}
           xs == SafePositions(g.xs, ox, g.dx)
           ys == SafePositions(g.ys, oy, g.dy)
           X == xs \cup {src[1], dst[1]}
           Y == ys \cup {src[2], dst[2]}
           nodes == {p \in X \X Y : p \in {src, dst} \/ p[1] \in xs \/ p[2] \in ys}
<1>1. Nodes(g, offs, src, dst) = nodes
  BY DEF Nodes
<1>2. ox \in SUBSET Int /\ oy \in SUBSET Int
  OBVIOUS
<1>3. IsFiniteSet(ox) /\ IsFiniteSet(oy)
  <2> DEFINE f == [off \in offs |-> off[1]]
             h == [off \in offs |-> off[2]]
  <2>2. ox = {f[off] : off \in offs} /\ oy = {h[off] : off \in offs}
    OBVIOUS
  <2> HIDE DEF f, h, ox, oy
  <2> QED BY <2>2, ImageFinite
<1>4. /\ xs \in SUBSET Int /\ IsFiniteSet(xs)
      /\ \A c \in xs : \A o \in ox : c + o \notin InSeq(g.xs)
      /\ ys \in SUBSET Int /\ IsFiniteSet(ys)
      /\ \A c \in ys : \A o \in oy : c + o \notin InSeq(g.ys)
  <2> HIDE DEF ox, oy
  <2> QED BY <1>2, <1>3, SafeAre DEF GridOk
<1> HIDE DEF xs, ys
<1>5. X \in SUBSET Int /\ Y \in SUBSET Int /\ IsFiniteSet(X) /\ IsFiniteSet(Y)
  <2>1. IsFiniteSet({src[1], dst[1]}) /\ IsFiniteSet({src[2], dst[2]})
    <3>1. \A a, b : IsFiniteSet({a, b})
      <4> SUFFICES ASSUME NEW a, NEW b PROVE IsFiniteSet({a, b})
        OBVIOUS
      <4>1. {a, b} = {a} \cup {b}
        OBVIOUS
      <4>2. IsFiniteSet({a})
        BY FS_Singleton
      <4> QED BY <4>1, <4>2, FS_AddElement
    <3> QED BY <3>1
  <2>2. IsFiniteSet(X) /\ IsFiniteSet(Y)
    BY <1>4, <2>1, FS_Union
  <2> QED BY <1>4, <2>2
<1>6. nodes \in SUBSET (X \X Y) /\ IsFiniteSet(X \X Y)
  <2> HIDE DEF X, Y
  <2>1. IsFiniteSet(X \X Y)
    BY <1>5, FS_Product
  <2> QED BY <2>1
<1>7. nodes \in SUBSET (Int \X Int) /\ IsFiniteSet(nodes)
  <2>1. IsFiniteSet(nodes)
    <3> HIDE DEF nodes, X, Y
    <3> QED BY <1>6, FS_Subset
  <2> HIDE DEF X, Y
  <2> QED BY <1>5, <2>1
<1>8. src \in nodes /\ dst \in nodes
  <2>1. src \in X \X Y /\ dst \in X \X Y
    OBVIOUS
  <2> HIDE DEF X, Y
  <2> QED BY <2>1
<1>9. ASSUME NEW p \in nodes, p # src, p # dst, NEW off \in offs, Beside(p, off) \in Points(g) PROVE FALSE
  <2>1. p[1] \in xs \/ p[2] \in ys
    <3> HIDE DEF X, Y
    <3> QED BY <1>9
  <2>2. off[1] \in ox /\ off[2] \in oy
    OBVIOUS
  <2>3. p[1] + off[1] \in InSeq(g.xs) /\ p[2] + off[2] \in InSeq(g.ys)
    BY <1>9 DEF Beside, Points
  <2> QED BY <1>4, <2>1, <2>2, <2>3
<1> HIDE DEF nodes
<1> QED BY <1>1, <1>7, <1>8, <1>9

LEMMA EdgesAre ==
    ASSUME NEW g, NEW offs, NEW nodes \in SUBSET (Int \X Int), NEW edge \in Edges(g, offs, nodes)
    PROVE  /\ edge[1] \in nodes /\ edge[2] \in nodes /\ Length(edge) \in Nat \ {0}
           /\ Free(g, offs, edge[1], edge[2])
<1> DEFINE inRow(y) == {p[1] : p \in {q \in nodes : q[2] = y}}
           inColumn(x) == {p[2] : p \in {q \in nodes : q[1] = x}}
           along == UNION {{<<<<e[1], y>>, <<e[2], y>>>> : e \in Adjacent(inRow(y))} : y \in {p[2] : p \in nodes}}
           across == UNION {{<<<<x, e[1]>>, <<x, e[2]>>>> : e \in Adjacent(inColumn(x))} : x \in {p[1] : p \in nodes}}
           clear == {e \in along \cup across : ~ Crossed(g, offs, e[1], e[2])}
<1>1. Edges(g, offs, nodes) = clear \cup {<<e[2], e[1]>> : e \in clear}
  BY Zenon DEF Edges
<1>2. ASSUME NEW f \in along
      PROVE  \E x1, x2, y \in Int : /\ f = <<<<x1, y>>, <<x2, y>>>> /\ x1 < x2
                                    /\ <<x1, y>> \in nodes /\ <<x2, y>> \in nodes
  <2>1. PICK y \in {p[2] : p \in nodes} : f \in {<<<<e[1], y>>, <<e[2], y>>>> : e \in Adjacent(inRow(y))}
    OBVIOUS
  <2>2. PICK a \in Adjacent(inRow(y)) : f = <<<<a[1], y>>, <<a[2], y>>>>
    BY <2>1
  <2>3. a[1] \in inRow(y) /\ a[2] \in inRow(y) /\ a[1] < a[2]
    <3> HIDE DEF inRow
    <3> QED BY DEF Adjacent
  <2>4. \A b \in inRow(y) : b \in Int /\ <<b, y>> \in nodes
    OBVIOUS
  <2>5. y \in Int
    OBVIOUS
  <2> HIDE DEF inRow
  <2> QED BY <2>2, <2>3, <2>4, <2>5
<1>3. ASSUME NEW f \in across
      PROVE  \E y1, y2, x \in Int : /\ f = <<<<x, y1>>, <<x, y2>>>> /\ y1 < y2
                                    /\ <<x, y1>> \in nodes /\ <<x, y2>> \in nodes
  <2>1. PICK x \in {p[1] : p \in nodes} : f \in {<<<<x, e[1]>>, <<x, e[2]>>>> : e \in Adjacent(inColumn(x))}
    OBVIOUS
  <2>2. PICK a \in Adjacent(inColumn(x)) : f = <<<<x, a[1]>>, <<x, a[2]>>>>
    BY <2>1
  <2>3. a[1] \in inColumn(x) /\ a[2] \in inColumn(x) /\ a[1] < a[2]
    <3> HIDE DEF inColumn
    <3> QED BY DEF Adjacent
  <2>4. \A b \in inColumn(x) : b \in Int /\ <<x, b>> \in nodes
    OBVIOUS
  <2>5. x \in Int
    OBVIOUS
  <2> HIDE DEF inColumn
  <2> QED BY <2>2, <2>3, <2>4, <2>5
<1> HIDE DEF along, across
<1>4. ASSUME NEW f \in clear
      PROVE  /\ f[1] \in nodes /\ f[2] \in nodes /\ Length(f) \in Nat \ {0} /\ Free(g, offs, f[1], f[2])
             /\ Length(<<f[2], f[1]>>) \in Nat \ {0} /\ Free(g, offs, f[2], f[1])
  <2>1. ~ Crossed(g, offs, f[1], f[2])
    OBVIOUS
  <2>2. CASE f \in along
    <3>1. PICK x1, x2, y \in Int : /\ f = <<<<x1, y>>, <<x2, y>>>> /\ x1 < x2
                                   /\ <<x1, y>> \in nodes /\ <<x2, y>> \in nodes
      BY <1>2, <2>2
    <3>2. Length(f) \in Nat \ {0} /\ Length(<<f[2], f[1]>>) \in Nat \ {0}
      BY <3>1 DEF Length, Gap
    <3>3. ~ Crossed(g, offs, f[2], f[1])
      BY <2>1, <3>1 DEF Crossed, Strictly
    <3> QED BY <2>1, <3>1, <3>2, <3>3 DEF Free
  <2>3. CASE f \in across
    <3>1. PICK y1, y2, x \in Int : /\ f = <<<<x, y1>>, <<x, y2>>>> /\ y1 < y2
                                   /\ <<x, y1>> \in nodes /\ <<x, y2>> \in nodes
      BY <1>3, <2>3
    <3>2. Length(f) \in Nat \ {0} /\ Length(<<f[2], f[1]>>) \in Nat \ {0}
      BY <3>1 DEF Length, Gap
    <3>3. ~ Crossed(g, offs, f[2], f[1])
      <4>1. f[1][2] # f[2][2]
        BY <3>1
      <4> QED BY <2>1, <3>1, <4>1 DEF Crossed, Strictly
    <3> QED BY <2>1, <3>1, <3>2, <3>3 DEF Free
  <2> QED BY <2>2, <2>3
<1>5. CASE edge \in clear
  BY <1>4, <1>5
<1>6. CASE edge \in {<<f[2], f[1]>> : f \in clear}
  <2>1. PICK f \in clear : edge = <<f[2], f[1]>>
    BY <1>6
  <2> HIDE DEF clear
  <2> QED BY <1>4, <2>1
<1> QED BY <1>1, <1>5, <1>6

\* An atom that follows the way at a displacement meets points of the grid where
\* it begins and ends only.
SafeWay(g, way, off) ==
    /\ way \in Seq(Int \X Int) /\ way # << >>
    /\ \A p \in Points(g) : \A k \in 1..(Len(way) - 1) :
          OnSegment(Beside(way[k], off), Beside(way[k + 1], off), p)
            => p = Beside(way[1], off) \/ p = Beside(way[Len(way)], off)

LEMMA PointsAreInts == ASSUME NEW g, GridOk(g) PROVE Points(g) \in SUBSET (Int \X Int)
<1>1. InSeq(g.xs) \in SUBSET Int /\ InSeq(g.ys) \in SUBSET Int
  BY LinesAre DEF GridOk
<1> QED BY <1>1 DEF Points

LEMMA NotInside ==
    ASSUME NEW g, GridOk(g), NEW offs, NEW off \in offs, off \in Int \X Int, NEW a \in Int \X Int, NEW b \in Int \X Int,
           Free(g, offs, a, b), NEW p \in Points(g), Between(Beside(a, off), Beside(b, off), p)
    PROVE  FALSE
<1>1. p[1] \in InSeq(g.xs) /\ p[2] \in InSeq(g.ys)
  BY DEF Points
<1>0. p \in Int \X Int
  BY PointsAreInts
<1>2. ~ Crossed(g, offs, a, b)
  BY DEF Free
<1>3. PICK x1, x2, y1, y2, dx, dy \in Int : a = <<x1, y1>> /\ b = <<x2, y2>> /\ off = <<dx, dy>>
  OBVIOUS
<1>4. Beside(a, off) = <<x1 + dx, y1 + dy>> /\ Beside(b, off) = <<x2 + dx, y2 + dy>>
  BY <1>3 DEF Beside
<1>5. CASE y1 + dy = y2 + dy /\ p[2] = y1 + dy /\ Strictly(x1 + dx, p[1], x2 + dx)
  <2>1. y1 = y2
    BY <1>5
  <2> QED BY <1>1, <1>2, <1>3, <1>5, <2>1 DEF Crossed
<1>6. CASE x1 + dx = x2 + dx /\ p[1] = x1 + dx /\ Strictly(y1 + dy, p[2], y2 + dy)
  <2>1. y1 # y2
    BY <1>0, <1>6 DEF Strictly
  <2> QED BY <1>1, <1>2, <1>3, <1>6, <2>1 DEF Crossed
<1> QED BY <1>4, <1>5, <1>6 DEF Between

LEMMA SearchPathSafe ==
    ASSUME NEW g, GridOk(g), NEW atoms \in SUBSET (Int \X Int), IsFiniteSet(atoms),
           NEW src \in Int \X Int, NEW dst \in Int \X Int,
           NEW way \in SearchPath(g, src, dst, atoms), NEW off \in Offsets(atoms, src)
    PROVE  SafeWay(g, way, off) /\ way[1] = src
<1> DEFINE offs == Offsets(atoms, src)
           nodes == Nodes(g, offs, src, dst)
           edges == Edges(g, offs, nodes)
           d == Distances(edges, nodes, src)
<1>1. offs \in SUBSET (Int \X Int) /\ IsFiniteSet(offs) /\ off \in offs /\ off \in Int \X Int
  <2> DEFINE f == [p \in atoms |-> <<p[1] - src[1], p[2] - src[2]>>]
  <2>1. offs = {f[p] : p \in atoms}
    BY DEF Offsets
  <2>2. IsFiniteSet({f[p] : p \in atoms})
    <3> HIDE DEF f
    <3> QED BY ImageFinite
  <2>3. offs \in SUBSET (Int \X Int)
    BY DEF Offsets
  <2> HIDE DEF f
  <2> QED BY <2>1, <2>2, <2>3
<1>2. SearchPath(g, src, dst, atoms) =
        IF src = dst THEN {<<src, dst>>}
        ELSE IF dst \notin DOMAIN d THEN {}
        ELSE {Merged(g, offs, path) : path \in ShortestTo(edges, d, dst)}
  BY DEF SearchPath
<1>3. /\ nodes \in SUBSET (Int \X Int) /\ IsFiniteSet(nodes) /\ src \in nodes /\ dst \in nodes
      /\ \A p \in nodes : p # src /\ p # dst => Beside(p, off) \notin Points(g)
  <2> HIDE DEF offs
  <2> QED BY <1>1, NodesAre
<1> HIDE DEF offs, nodes
<1>4. \A e \in edges : e[1] \in nodes /\ e[2] \in nodes /\ Length(e) \in Nat \ {0} /\ Free(g, offs, e[1], e[2])
  BY <1>3, EdgesAre
<1> HIDE DEF edges
<1>5. GraphOn(edges, nodes)
  BY <1>3, <1>4 DEF GraphOn
<1>6. d \in DistancesOf(nodes, src)
  BY <1>3, <1>5, DistancesAre
<1> HIDE DEF d
<1>7. CASE src = dst
  <2>1. way = <<src, src>> /\ Len(way) = 2 /\ way[1] = src /\ way[2] = src /\ way \in Seq(Int \X Int) /\ way # << >>
    <3>1. way = <<src, src>>
      BY <1>2, <1>7, Zenon
    <3> QED BY <3>1
  <2>2. ASSUME NEW p \in Points(g), NEW k \in 1..(Len(way) - 1),
               OnSegment(Beside(way[k], off), Beside(way[k + 1], off), p)
        PROVE  p = Beside(src, off)
    <3>1. k = 1
      BY <2>1
    <3>2. OnSegment(Beside(src, off), Beside(src, off), p)
      BY <2>1, <2>2, <3>1
    <3>3. Beside(src, off) \in Int \X Int
      BY <1>1 DEF Beside
    <3>4. ~ Between(Beside(src, off), Beside(src, off), p)
      <4>1. PICK x, y \in Int : Beside(src, off) = <<x, y>>
        BY <3>3
      <4>2. p \in Int \X Int
        BY PointsAreInts
      <4> QED BY <4>1, <4>2 DEF Between, Strictly
    <3> QED BY <3>2, <3>4 DEF OnSegment
  <2> QED BY <2>1, <2>2 DEF SafeWay
<1>8. CASE src # dst
  <2>1. PICK path \in ShortestTo(edges, d, dst) : way = Merged(g, offs, path)
    BY <1>2, <1>8
  <2>2. dst \in DOMAIN d /\ d \in [DOMAIN d -> Nat] /\ DOMAIN d \in SUBSET nodes
    BY <1>2, <1>6, <1>8 DEF DistancesOf
  <2>3. path \in Rises(edges, d, dst) /\ path[1] = src
    BY <1>3, <1>5, <1>6, <2>2, ShortestAre
  <2>4. PICK n \in Nat \ {0} : n = Len(path) /\ path \in [1..n -> DOMAIN d] /\ path[n] = dst
    BY <2>3 DEF Rises
  <2>5. \A i \in 1..n : path[i] \in nodes /\ path[i] \in Int \X Int
    BY <1>3, <2>2, <2>4
  <2>6. \A k \in 1..(n - 1) : Free(g, offs, path[k], path[k + 1])
    BY <1>4, <2>3, <2>4 DEF Rises
  <2>7. PICK c \in Corners(g, offs, path, n) : c[Len(c)] = n /\ way = [k \in DOMAIN c |-> path[c[k]]]
    <3>1. AllFree(g, offs, path, n)
      BY <2>6 DEF AllFree
    <3>2. MergesTo(g, offs, path, n, way)
      BY <2>1, <2>4, <3>1, MergedAre
    <3> QED BY <3>2 DEF MergesTo
  <2>8. PICK m \in Nat \ {0} : m = Len(c) /\ c \in [1..m -> 1..n] /\ c[1] = 1
    <3>1. c \in Seq(1..n) /\ c # << >> /\ c[1] = 1
      BY <2>7 DEF Corners
    <3>2. \A t \in Seq(1..n) : t # << >> => Len(t) \in Nat \ {0} /\ t \in [1..Len(t) -> 1..n]
      OBVIOUS
    <3>3. Len(c) \in Nat \ {0} /\ c \in [1..Len(c) -> 1..n]
      BY <3>1, <3>2, Zenon
    <3> QED BY <3>1, <3>3, Zenon
  <2>9. \A k \in 1..(m - 1) : c[k] < c[k + 1] /\ Free(g, offs, path[c[k]], path[c[k + 1]])
    BY <2>7, <2>8 DEF Corners
  <2>10. /\ way \in Seq(Int \X Int) /\ Len(way) = m /\ way # << >>
         /\ \A k \in 1..m : way[k] = path[c[k]] /\ way[k] \in nodes /\ way[k] \in Int \X Int
    <3>1. way = [k \in 1..m |-> path[c[k]]]
      BY <2>7, <2>8
    <3>2. \A k \in 1..m : path[c[k]] \in nodes /\ path[c[k]] \in Int \X Int
      BY <2>5, <2>8
    <3>3. way \in [1..m -> Int \X Int] /\ \A k \in 1..m : way[k] = path[c[k]]
      BY <3>1, <3>2
    <3>4. \A t \in [1..m -> Int \X Int] : t \in Seq(Int \X Int) /\ Len(t) = m /\ t # << >>
      OBVIOUS
    <3> QED BY <3>2, <3>3, <3>4
  <2>11. way[1] = src /\ way[m] = dst
    BY <2>3, <2>4, <2>7, <2>8, <2>10
  <2>12. \A k \in 1..m : k # 1 /\ k # m => way[k] # src /\ way[k] # dst
    <3> SUFFICES ASSUME NEW k \in 1..m, k # 1, k # m PROVE way[k] # src /\ way[k] # dst
      OBVIOUS
    <3>1. PICK j \in 1..(m - 1) : j + 1 = k
      <4>1. k - 1 \in 1..(m - 1) /\ (k - 1) + 1 = k
        OBVIOUS
      <4> QED BY <4>1
    <3>2. k \in 1..(m - 1) /\ k + 1 \in 1..m /\ j \in 1..m
      OBVIOUS
    <3>3. c[k] \in 1..n /\ 1 < c[k] /\ c[k] < n
      <4>1. c[j] < c[k] /\ c[k] < c[k + 1]
        BY <2>9, <3>1, <3>2
      <4>2. \A i \in 1..m : c[i] \in 1..n
        BY <2>8, Zenon
      <4>3. PICK p \in 1..n : p = c[j]
        BY <3>2, <4>2
      <4>4. PICK q \in 1..n : q = c[k]
        BY <3>2, <4>2
      <4>5. PICK r \in 1..n : r = c[k + 1]
        BY <3>2, <4>2
      <4>6. p < q /\ q < r
        BY <4>1, <4>3, <4>4, <4>5
      <4>7. 1 < q /\ q < n
        BY <4>6
      <4> QED BY <4>4, <4>7
    <3>4. d[path[1]] < d[path[c[k]]] /\ d[path[c[k]]] < d[path[n]]
      <4>1. 1 \in 1..n /\ n \in 1..n
        OBVIOUS
      <4>2. \A i, l \in 1..Len(path) : i < l => d[path[i]] < d[path[l]]
        BY <1>6, <2>3, RisesThroughout
      <4> QED BY <2>4, <3>3, <4>1, <4>2
    <3>5. d[path[1]] \in Nat /\ d[path[n]] \in Nat /\ d[path[c[k]]] \in Nat
      <4>1. 1 \in 1..n /\ n \in 1..n
        OBVIOUS
      <4> QED BY <2>2, <2>4, <3>3, <4>1
    <3> QED BY <2>3, <2>4, <2>10, <3>4, <3>5, SMTT(60)
  <2>13. ASSUME NEW p \in Points(g), NEW k \in 1..(m - 1),
                OnSegment(Beside(way[k], off), Beside(way[k + 1], off), p)
         PROVE  p = Beside(way[1], off) \/ p = Beside(way[m], off)
    <3>1. k \in 1..m /\ k + 1 \in 1..m /\ k # m /\ k + 1 # 1
      OBVIOUS
    <3>2. ~ Between(Beside(way[k], off), Beside(way[k + 1], off), p)
      <4>1. Free(g, offs, way[k], way[k + 1])
        BY <2>9, <2>10, <3>1
      <4>2. way[k] \in Int \X Int /\ way[k + 1] \in Int \X Int
        BY <2>10, <3>1
      <4> QED BY <1>1, <4>1, <4>2, NotInside
    <3>3. CASE p = Beside(way[k], off)
      <4>1. k = 1
        BY <1>3, <2>10, <2>12, <3>1, <3>3
      <4> QED BY <3>3, <4>1
    <3>4. CASE p = Beside(way[k + 1], off)
      <4>1. k + 1 = m
        BY <1>3, <2>10, <2>12, <3>1, <3>4
      <4> QED BY <3>4, <4>1
    <3> QED BY <2>13, <3>2, <3>3, <3>4 DEF OnSegment
  <2> QED BY <2>10, <2>11, <2>13 DEF SafeWay
<1> QED BY <1>7, <1>8

\* What a route with atoms is: its ends and its atoms are sites that there are.
LEMMA RouteFacts ==
    ASSUME PartsOk, NEW route \in Routes, NEW z, z = registered[route[1]], NEW a \in Atoms(route)
    PROVE  /\ route = <<route[1], route[2], route[3]>> /\ route[1] \in DOMAIN registered
           /\ z \in DOMAIN job.zones /\ ZoneOf(route) = z
           /\ \A b \in Atoms(route) : b[1] \in Local(z) /\ b[2] \in 1..Sites(z)
           /\ EndAt(route, BusOf(route).src[1]) \in Int \X Int
           /\ EndAt(route, BusOf(route).dst[1]) \in Int \X Int
<1>1. PICK i \in DOMAIN registered :
         \/ \E b \in DOMAIN zone[registered[i]].site_buses : route = <<i, "site", b>>
         \/ \E b \in DOMAIN zone[registered[i]].word_buses : route = <<i, "word", b>>
  BY DEF Routes
<1>2. route = <<route[1], route[2], route[3]>> /\ route[1] = i
  BY <1>1
<1>3. z = registered[i] /\ ZoneOf(route) = z
  BY <1>2 DEF ZoneOf
<1>4. z \in DOMAIN job.zones
  BY <1>3 DEF PartsOk, RegisteredOk
<1>5. /\ zone[z] \in ZoneRecords /\ RecordOk(job.zones[z], zone[z]) /\ Sites(z) \in Nat
      /\ Sites(z) = job.zones[z].shape[1] * job.zones[z].shape[2]
  BY <1>4, ZoneFacts
<1>6. PICK l \in Nat : Local(z) = 1..l
  BY <1>5, SeqDomain DEF ZoneRecords, Local
<1>7. \A w \in Local(z), s \in 1..Sites(z) : SiteAt(z, w, s) \in Int \X Int
  <2> SUFFICES ASSUME NEW w \in Local(z), NEW s \in 1..Sites(z) PROVE SiteAt(z, w, s) \in Int \X Int
    OBVIOUS
  <2>1. PICK x \in Int, y \in Int : SiteAt(z, w, s) = <<x, y>>
    BY <1>4, SitesAreInts
  <2> QED BY <2>1
<1>8. \A bus \in Buses : \A S : Matched(bus, S) /\ Entries(bus.src) # {} =>
         /\ bus.src[1] \in S /\ bus.dst[1] \in S /\ Entries(bus.src) \subseteq S
  <2> SUFFICES ASSUME NEW bus \in Buses, NEW S, Matched(bus, S), Entries(bus.src) # {}
               PROVE  bus.src[1] \in S /\ bus.dst[1] \in S /\ Entries(bus.src) \subseteq S
    OBVIOUS
  <2>1. PICK n \in Nat : n = Len(bus.src) /\ n = Len(bus.dst) /\ DOMAIN bus.src = 1..n /\ DOMAIN bus.dst = 1..n
    BY DEF Buses, Matched
  <2>2. 1 \in 1..n
    BY <2>1 DEF Entries
  <2>3. bus.src[1] \in Entries(bus.src) /\ bus.dst[1] \in Entries(bus.dst)
    BY <2>1, <2>2 DEF Entries
  <2> QED BY <2>3 DEF Matched
<1>9. CASE \E b \in DOMAIN zone[z].site_buses : route = <<i, "site", b>>
  <2>1. PICK b \in DOMAIN zone[z].site_buses : route = <<i, "site", b>>
    BY <1>9
  <2>2. PICK bus \in Buses : bus = zone[z].site_buses[b] /\ Matched(bus, 1..Sites(z))
    <3>1. zone[z].site_buses \in Seq(Buses)
      BY <1>5 DEF ZoneRecords
    <3>2. zone[z].site_buses[b] \in Buses
      BY <2>1, <3>1
    <3> QED BY <1>5, <2>1, <3>2 DEF RecordOk
  <2>3. route[2] = "site" /\ BusOf(route) = bus
    BY <1>3, <2>1, <2>2 DEF BusOf
  <2>4. Atoms(route) = Local(z) \X Entries(bus.src)
    BY <1>3, <2>3 DEF Atoms
  <2>5. bus.src[1] \in 1..Sites(z) /\ bus.dst[1] \in 1..Sites(z) /\ Entries(bus.src) \subseteq 1..Sites(z)
    <3>1. Entries(bus.src) # {}
      BY <2>4
    <3> QED BY <1>8, <2>2, <3>1
  <2>6. 1 \in Local(z)
    <3>1. Local(z) # {}
      BY <2>4
    <3> QED BY <1>6, <3>1
  <2>7. \A end : EndAt(route, end) = SiteAt(z, 1, end)
    BY <1>3, <2>3 DEF EndAt
  <2>8. EndAt(route, BusOf(route).src[1]) \in Int \X Int /\ EndAt(route, BusOf(route).dst[1]) \in Int \X Int
    BY <1>7, <2>3, <2>5, <2>6, <2>7
  <2>9. \A b1 \in Atoms(route) : b1[1] \in Local(z) /\ b1[2] \in 1..Sites(z)
    BY <2>4, <2>5
  <2> QED BY <1>2, <1>3, <1>4, <2>8, <2>9
<1>10. CASE \E b \in DOMAIN zone[z].word_buses : route = <<i, "word", b>>
  <2>1. PICK b \in DOMAIN zone[z].word_buses : route = <<i, "word", b>>
    BY <1>10
  <2>2. PICK bus \in Buses : bus = zone[z].word_buses[b] /\ Matched(bus, Local(z))
    <3>1. zone[z].word_buses \in Seq(Buses)
      BY <1>5 DEF ZoneRecords
    <3>2. zone[z].word_buses[b] \in Buses
      BY <2>1, <3>1
    <3> QED BY <1>5, <2>1, <3>2 DEF RecordOk, Local
  <2>3. route[2] # "site" /\ BusOf(route) = bus
    BY <1>3, <2>1, <2>2 DEF BusOf
  <2>4. Atoms(route) = Entries(bus.src) \X (1..Sites(z))
    BY <1>3, <2>3 DEF Atoms
  <2>5. bus.src[1] \in Local(z) /\ bus.dst[1] \in Local(z) /\ Entries(bus.src) \subseteq Local(z)
    <3>1. Entries(bus.src) # {}
      BY <2>4
    <3> QED BY <1>8, <2>2, <3>1
  <2>6. 1 \in 1..Sites(z)
    <3>1. 1..Sites(z) # {}
      BY <2>4
    <3> QED BY <1>5, <3>1
  <2>7. \A end : EndAt(route, end) = SiteAt(z, end, 1)
    BY <1>3, <2>3 DEF EndAt
  <2>8. EndAt(route, BusOf(route).src[1]) \in Int \X Int /\ EndAt(route, BusOf(route).dst[1]) \in Int \X Int
    BY <1>7, <2>3, <2>5, <2>6, <2>7
  <2>9. \A b1 \in Atoms(route) : b1[1] \in Local(z) /\ b1[2] \in 1..Sites(z)
    BY <2>4, <2>5
  <2> QED BY <1>2, <1>3, <1>4, <2>8, <2>9
<1> QED BY <1>1, <1>3, <1>9, <1>10

RouteGrid(z) ==
    [xs |-> job.zones[z].xs, ys |-> job.zones[z].ys,
     dx |-> job.zones[z].clearance[1], dy |-> job.zones[z].clearance[2]]
AtomSites(route) == {SiteAt(ZoneOf(route), b[1], b[2]) : b \in Atoms(route)}

FollowsSafely(z, way, from) ==
    \E off \in Int \X Int : SafeWay(RouteGrid(z), way, off) /\ Beside(way[1], off) = from

\* Every atom of a route follows a safe way.
LEMMA RouteIsSafe ==
    ASSUME PartsOk, NEW route \in Routes, NEW z, z = registered[route[1]], NEW a \in Atoms(route),
           NEW way \in Ways(route), NEW from, from = SiteAt(z, a[1], a[2])
    PROVE  FollowsSafely(z, way, from)
<1> DEFINE src == EndAt(route, BusOf(route).src[1])
           dst == EndAt(route, BusOf(route).dst[1])
           at == AtomSites(route)
           g == RouteGrid(z)
<1>1. /\ z \in DOMAIN job.zones /\ ZoneOf(route) = z
      /\ \A b \in Atoms(route) : b[1] \in Local(z) /\ b[2] \in 1..Sites(z)
      /\ src \in Int \X Int /\ dst \in Int \X Int
  BY RouteFacts
<1>2. way \in SearchPath(g, src, dst, at)
  BY <1>1 DEF Ways, RouteGrid, AtomSites
<1>3. /\ zone[z] \in ZoneRecords /\ RecordOk(job.zones[z], zone[z]) /\ Sites(z) \in Nat /\ job.zones[z] \in ZoneGrids
      /\ Sites(z) = job.zones[z].shape[1] * job.zones[z].shape[2]
  BY <1>1, ZoneFacts
<1>4. \A b \in Atoms(route) : SiteAt(z, b[1], b[2]) \in Int \X Int
  <2> SUFFICES ASSUME NEW b \in Atoms(route) PROVE SiteAt(z, b[1], b[2]) \in Int \X Int
    OBVIOUS
  <2>1. PICK x \in Int, y \in Int : SiteAt(z, b[1], b[2]) = <<x, y>>
    BY <1>1, SitesAreInts
  <2> QED BY <2>1
<1>5. IsFiniteSet(at)
  <2>1. PICK l \in Nat : Local(z) = 1..l
    BY <1>3, SeqDomain DEF ZoneRecords, Local
  <2> DEFINE P == (1..l) \X (1..Sites(z))
             f == [b \in P |-> SiteAt(z, b[1], b[2])]
  <2>2. IsFiniteSet(P)
    <3>1. IsFiniteSet(1..l) /\ IsFiniteSet(1..Sites(z))
      BY <1>3, FS_Interval
    <3> QED BY <3>1, FS_Product
  <2>3. Atoms(route) \in SUBSET P
    <3>1. \A b \in Atoms(route) : b = <<b[1], b[2]>>
      BY DEF Atoms
    <3> QED BY <1>1, <2>1, <3>1
  <2>4. IsFiniteSet({f[b] : b \in Atoms(route)})
    <3>1. IsFiniteSet(Atoms(route))
      <4> HIDE DEF P
      <4> QED BY <2>2, <2>3, FS_Subset
    <3> HIDE DEF P, f
    <3> QED BY <3>1, ImageFinite
  <2>5. at = {f[b] : b \in Atoms(route)}
    <3>1. \A b \in Atoms(route) : f[b] = SiteAt(z, b[1], b[2])
      BY <2>3
    <3> HIDE DEF f
    <3> QED BY <1>1, <3>1 DEF AtomSites
  <2> HIDE DEF f
  <2> QED BY <2>4, <2>5
<1>6. GridOk(g)
  <2>1. g.xs = job.zones[z].xs /\ g.ys = job.zones[z].ys /\ g.dx = job.zones[z].clearance[1] /\ g.dy = job.zones[z].clearance[2]
    BY DEF RouteGrid
  <2>2. g.xs \in Seq(Int) /\ g.ys \in Seq(Int) /\ g.dx \in Nat \ {0} /\ g.dy \in Nat \ {0}
    <3>1. job.zones[z].clearance \in (Nat \ {0}) \X (Nat \ {0})
      BY <1>3 DEF ZoneGrids
    <3>2. job.zones[z].xs \in Seq(Int) /\ job.zones[z].ys \in Seq(Int)
      BY <1>3, SMTT(60) DEF ZoneGrids
    <3> HIDE DEF g
    <3> QED BY <2>1, <3>1, <3>2
  <2>3. DOMAIN job.zones[z].xs # {} /\ DOMAIN job.zones[z].ys # {}
    <3>1. a[1] \in DOMAIN zone[z].words /\ a[2] \in 1..Sites(z)
      BY <1>1 DEF Local
    <3>2. zone[z].words[a[1]] \in Seq(Nat \X Nat) /\ Len(zone[z].words[a[1]]) = Sites(z)
      <4>1. zone[z].words \in Seq(Seq(Nat \X Nat))
        BY <1>3 DEF ZoneRecords
      <4>2. zone[z].words[a[1]] \in Seq(Nat \X Nat)
        BY <3>1, <4>1, SMTT(60)
      <4>3. Len(zone[z].words[a[1]]) = Sites(z)
        BY <1>3, <3>1 DEF RecordOk
      <4> QED BY <4>2, <4>3
    <3>3. a[2] \in DOMAIN zone[z].words[a[1]]
      BY <3>1, <3>2, SeqDomain
    <3> QED BY <1>3, <3>1, <3>3, Zenon DEF RecordOk
  <2>4. \A t : DOMAIN t # {} => t # << >>
    OBVIOUS
  <2> HIDE DEF g
  <2> QED BY <2>1, <2>2, <2>3, <2>4 DEF GridOk
<1>7. from \in at /\ at \in SUBSET (Int \X Int)
  BY <1>1, <1>4 DEF AtomSites
<1> DEFINE off == <<from[1] - src[1], from[2] - src[2]>>
<1> HIDE DEF src, dst, at, g
<1>8. off \in Offsets(at, src) /\ off \in Int \X Int
  BY <1>1, <1>7 DEF Offsets
<1>9. SafeWay(g, way, off) /\ way[1] = src
  <2> HIDE DEF off
  <2> QED BY <1>1, <1>2, <1>5, <1>6, <1>7, <1>8, SearchPathSafe
<1>10. Beside(src, off) = from
  <2>1. PICK x, y, x0, y0 \in Int : from = <<x, y>> /\ src = <<x0, y0>>
    BY <1>1, <1>7
  <2> QED BY <2>1 DEF Beside
<1> HIDE DEF off
<1> QED BY <1>8, <1>9, <1>10 DEF g, FollowsSafely

LEMMA BothWays == ASSUME NEW p, NEW q, NEW r, OnSegment(p, q, r) PROVE OnSegment(q, p, r)
BY DEF OnSegment, Between, Strictly

\* The path of an atom, either way, meets the grid at its ends only.
LEMMA PathIsClear ==
    ASSUME NEW g, NEW way, NEW off \in Int \X Int, SafeWay(g, way, off), NEW from, Beside(way[1], off) = from,
           NEW path, path = Shifted(way, from) \/ path = Reverse(Shifted(way, from)),
           NEW p \in Points(g), NEW k \in 1..(Len(path) - 1), OnSegment(path[k], path[k + 1], p)
    PROVE  p \in {path[1], path[Len(path)]}
<1>1. PICK m \in Nat \ {0} : m = Len(way) /\ way \in [1..m -> Int \X Int]
  <2>1. \A t \in Seq(Int \X Int) : t # << >> => Len(t) \in Nat \ {0} /\ t \in [1..Len(t) -> Int \X Int]
    OBVIOUS
  <2>2. way \in Seq(Int \X Int) /\ way # << >>
    BY DEF SafeWay
  <2> QED BY <2>1, <2>2, Zenon
<1> DEFINE s == Shifted(way, from)
<1>2. DOMAIN s = 1..m /\ \A j \in 1..m : s[j] = Beside(way[j], off)
  <2>1. DOMAIN s = 1..m /\ \A j \in 1..m : s[j] = <<way[j][1] - way[1][1] + from[1], way[j][2] - way[1][2] + from[2]>>
    BY <1>1 DEF Shifted
  <2>2. ASSUME NEW j \in 1..m PROVE s[j] = Beside(way[j], off)
    <3>1. way[j] \in Int \X Int /\ way[1] \in Int \X Int
      BY <1>1
    <3>2. PICK x, y \in Int : way[j] = <<x, y>>
      BY <3>1
    <3>3. PICK x0, y0 \in Int : way[1] = <<x0, y0>>
      BY <3>1
    <3>4. PICK dx, dy \in Int : off = <<dx, dy>>
      OBVIOUS
    <3>5. from = <<x0 + dx, y0 + dy>>
      BY <3>3, <3>4 DEF Beside
    <3>6. s[j] = <<x - x0 + (x0 + dx), y - y0 + (y0 + dy)>>
      <4>1. s[j] = <<way[j][1] - way[1][1] + from[1], way[j][2] - way[1][2] + from[2]>>
        BY <2>1
      <4> HIDE DEF s
      <4> QED BY <3>2, <3>3, <3>5, <4>1
    <3>7. Beside(way[j], off) = <<x + dx, y + dy>>
      BY <3>2, <3>4 DEF Beside
    <3> QED BY <3>6, <3>7, SMTT(60)
  <2> QED BY <2>1, <2>2
<1>3. Len(s) = m
  BY <1>1, <1>2
<1>4. \A j \in 1..(m - 1) : OnSegment(s[j], s[j + 1], p) => p \in {s[1], s[m]}
  <2> SUFFICES ASSUME NEW j \in 1..(m - 1), OnSegment(s[j], s[j + 1], p) PROVE p \in {s[1], s[m]}
    OBVIOUS
  <2>1. j \in 1..m /\ j + 1 \in 1..m /\ 1 \in 1..m /\ m \in 1..m
    OBVIOUS
  <2>2. OnSegment(Beside(way[j], off), Beside(way[j + 1], off), p)
    <3> HIDE DEF s
    <3> QED BY <1>2, <2>1
  <2>3. p = Beside(way[1], off) \/ p = Beside(way[m], off)
    BY <1>1, <2>2 DEF SafeWay
  <2> HIDE DEF s
  <2> QED BY <1>2, <2>1, <2>3
<1> HIDE DEF s
<1>5. CASE path = s
  BY <1>3, <1>4, <1>5
<1>6. CASE path = Reverse(s)
  <2>1. path = [j \in 1..m |-> s[(m - j) + 1]]
    BY <1>3, <1>6 DEF Reverse
  <2>2. Len(path) = m
    BY <2>1
  <2>3. k \in 1..m /\ k + 1 \in 1..m /\ 1 \in 1..m /\ m \in 1..m
    BY <2>2
  <2>4. PICK j \in 1..(m - 1) : j = m - k
    BY <2>2
  <2>5. path[k] = s[j + 1] /\ path[k + 1] = s[j]
    <3>1. (m - k) + 1 = j + 1 /\ (m - (k + 1)) + 1 = j
      BY <2>4
    <3> QED BY <2>1, <2>3, <3>1
  <2>6. path[1] = s[m] /\ path[m] = s[1]
    <3>1. (m - 1) + 1 = m /\ (m - m) + 1 = 1
      OBVIOUS
    <3> QED BY <2>1, <2>3, <3>1
  <2>7. p \in {s[1], s[m]}
    BY <1>4, <2>5, BothWays
  <2> QED BY <2>2, <2>6, <2>7
<1> QED BY <1>5, <1>6 DEF s

\* The points of its zone's grid that a path meets.
MetOn(lane) ==
    {p \in Entries(arch.zones[lane.zone].xs) \X Entries(arch.zones[lane.zone].ys) :
        \E k \in 1..(Len(arch.paths[lane]) - 1) : OnSegment(arch.paths[lane][k], arch.paths[lane][k + 1], p)}

LEMMA PathsSo == ASSUME PartsOk, AsBuilt PROVE PathsClear
<1>1. PICK way : /\ arch.paths = Paths(way)
                 /\ \A route \in DOMAIN way : route \in Routes /\ way[route] \in Ways(route)
  BY DEF AsBuilt, Routed
<1>2. ASSUME NEW lane \in DOMAIN arch.paths, NEW p \in MetOn(lane)
      PROVE  p \in {arch.paths[lane][1], arch.paths[lane][Len(arch.paths[lane])]}
  <2>1. PICK route \in DOMAIN way, dir \in Entries(Directions) : lane \in RouteLanes(route, dir)
    BY <1>1 DEF Paths
  <2>2. PICK a \in Atoms(route) :
           lane = Lane(route[2], dir, route[3], Loc(route[1], Global(route[1], a[1]), a[2]))
    BY <2>1 DEF RouteLanes
  <2>3. PICK z : z = registered[route[1]]
    OBVIOUS
  <2>4. /\ route \in Routes /\ way[route] \in Ways(route)
        /\ route = <<route[1], route[2], route[3]>> /\ route[1] \in DOMAIN registered
        /\ z \in DOMAIN job.zones /\ a[1] \in Local(z) /\ a[2] \in 1..Sites(z)
    BY <1>1, <2>1, <2>2, <2>3, RouteFacts
  <2>5. /\ lane.zone = route[1] /\ lane.type = route[2] /\ lane.bus = route[3] /\ lane.dir = dir
        /\ lane.word = Global(route[1], a[1]) /\ lane.site = a[2]
    BY <2>2, LaneFields
  <2>6. lane.word - offsets[lane.zone] = a[1]
    <3>1. offsets[route[1]] \in Nat
      BY <2>4 DEF PartsOk, RegisteredOk
    <3>2. a[1] \in Nat
      <4>1. zone[z].words \in Seq(Seq(Nat \X Nat))
        BY <2>4, ZoneFacts DEF ZoneRecords
      <4> QED BY <2>4, <4>1, SeqDomain DEF Local
    <3> QED BY <2>5, <3>1, <3>2 DEF Global
  <2>7. PICK from : from = SiteAt(z, a[1], a[2])
    OBVIOUS
  <2>8. arch.paths[lane] = PathFrom(lane, way[route])
    <3>1. <<lane.zone, lane.type, lane.bus>> = route
      BY <2>4, <2>5, Zenon
    <3>2. arch.paths[lane] = PathFrom(lane, way[<<lane.zone, lane.type, lane.bus>>])
      BY <1>1 DEF Paths
    <3> QED BY <3>1, <3>2
  <2>9. \/ arch.paths[lane] = Shifted(way[route], from)
        \/ arch.paths[lane] = Reverse(Shifted(way[route], from))
    BY <2>3, <2>5, <2>6, <2>7, <2>8 DEF PathFrom
  <2>10. PICK off \in Int \X Int : /\ SafeWay(RouteGrid(z), way[route], off)
                                   /\ Beside(way[route][1], off) = from
    <3>1. PICK w : w = way[route]
      OBVIOUS
    <3>2. route \in Routes /\ z = registered[route[1]] /\ a \in Atoms(route) /\ w \in Ways(route)
      BY <2>3, <2>4, <3>1
    <3>3. FollowsSafely(z, w, from)
      BY <2>7, <3>2, RouteIsSafe, Zenon
    <3>4. FollowsSafely(z, way[route], from)
      BY <3>1, <3>3
    <3> QED BY <3>4 DEF FollowsSafely
  <2>11. p \in Points(RouteGrid(z))
    <3>1. arch.zones[lane.zone].xs = job.zones[z].xs /\ arch.zones[lane.zone].ys = job.zones[z].ys
      <4>1. PICK i \in DOMAIN registered : i = route[1]
        BY <2>4
      <4>2. z = registered[i] /\ lane.zone = i
        BY <2>3, <2>5, <4>1
      <4>3. arch.zones[i] = BuiltZone(i)
        BY <4>1 DEF AsBuilt
      <4>4. BuiltZone(i).xs = job.zones[registered[i]].xs /\ BuiltZone(i).ys = job.zones[registered[i]].ys
        BY DEF BuiltZone
      <4> QED BY <4>2, <4>3, <4>4
    <3>2. p \in Entries(job.zones[z].xs) \X Entries(job.zones[z].ys)
      BY <3>1 DEF MetOn
    <3> QED BY <3>2 DEF Points, RouteGrid, InSeq, Entries
  <2>12. PICK k \in 1..(Len(arch.paths[lane]) - 1) : OnSegment(arch.paths[lane][k], arch.paths[lane][k + 1], p)
    BY DEF MetOn
  <2> QED BY <2>9, <2>10, <2>11, <2>12, PathIsClear
<1> QED BY <1>2 DEF PathsClear, MetOn

\* The paths of _compute_paths, of every atom of every bus and either way, meet the
\* grid of their zone where they begin and where they end, and nowhere else, for
\* every architecture that a client's calls can lead to.
THEOREM PathsAlwaysClear == ArchGridsSpec => []PathsClear
<1>1. ArchInv => PathsClear
  <2>1. ASSUME ArchInv, BuiltNow PROVE PathsClear
    BY <2>1, PathsSo DEF ArchInv, BuiltNow
  <2>2. ASSUME ~ BuiltNow PROVE PathsClear
    BY <2>2 DEF PathsClear
  <2> QED BY <2>1, <2>2
<1> QED BY <1>1, ArchInvariant, PTL
=============================================================================
