-------------------------- MODULE Entangling_proofs --------------------------
(***************************************************************************)
(* What the entangling assignment promises, for every architecture, task   *)
(* and weight.                                                             *)
(*                                                                         *)
(* The Hungarian algorithm comes first: its assignments are at least cost, *)
(* for every matrix of u32 costs.  HInv is inductive: the duals stay       *)
(* feasible, the columns that have a row are tight, and so is the path     *)
(* that the columns are handed on along.  That no other choice is cheaper  *)
(* then follows by weak duality, which is an induction over the columns.   *)
(*                                                                         *)
(* Then the calls around it.  RepairInv says where a call is and what the  *)
(* repair has done so far.  SlotInv says that the matrix that is solved is *)
(* the cost matrix of the rows and proper, that the rebalancing leaves     *)
(* every row a column of its own, and what is known of the targets that    *)
(* are made of them; it is inductive with the Hungarian's theorem as a     *)
(* premise.  The promises of a call that has returned follow from it and   *)
(* from what is known of slots, distances and estimates.                   *)
(*                                                                         *)
(* Last the way home.  HomeInv says that a price of all rows together is   *)
(* less than that of a site out of reach, and that the matrix never costs  *)
(* more than the prices; so an assignment that is at least cost takes no   *)
(* site out of reach when it need not.                                     *)
(***************************************************************************)
EXTENDS ReturnLayouts, OrderLemmas
LOCAL INSTANCE SequencesExt

Busy == solving \in {"relax", "augment", "assigned"}

HTypeOK ==
    /\ Len(matrix) <= Width(matrix)
    /\ u \in [Rows -> Int] /\ v \in [ColsAndZero -> Int]
    /\ colToRow \in [ColsAndZero -> 0..Len(matrix)]
    /\ row \in Rows
    /\ minCost \in [ColsAndZero -> Int]
    /\ visited \subseteq ColsAndZero
    /\ prev \in [ColsAndZero -> ColsAndZero]
    /\ curCol \in ColsAndZero

\* The duals are feasible; those of columns only fall, and the rows to come have none.
Feasible ==
    /\ \A i \in Rows, j \in Cols : Reduced(i, j) >= 0
    /\ \A j \in Cols : v[j] <= 0

\* The first n rows have columns of their own in S, which are tight; a column that
\* never had a row has no dual.
Holding(S, n) ==
    /\ \A j \in S : colToRow[j] \in 0..n
    /\ \A j, k \in S : colToRow[j] = colToRow[k] /\ colToRow[j] # 0 => j = k
    /\ \A i \in 1..n : \E j \in S : colToRow[j] = i
    /\ \A j \in S : IF colToRow[j] = 0 THEN v[j] = 0 ELSE Reduced(colToRow[j], j) = 0

Linked ==
    /\ colToRow[0] = row
    /\ \A k \in visited : colToRow[k] # 0
    /\ \A i \in Rows : i > row => u[i] = 0

\* While the path grows: how far every open column is from the visited ones.
Growing ==
    IF visited = {}
    THEN /\ curCol = 0 /\ u[row] = 0 /\ \A j \in Cols : minCost[j] = Inf
    ELSE /\ 0 \in visited /\ curCol \in Cols \ visited
         /\ \A j \in Cols \ visited :
              /\ prev[j] \in visited /\ minCost[j] = Reduced(colToRow[prev[j]], j)
              /\ \A k \in visited : minCost[j] <= Reduced(colToRow[k], j)

\* The columns on the path are tight for the row of the column before them.  Ranks
\* that rise along it tell it from what else was visited.
Reached == (visited \cup {curCol}) \ {0}
TightUpTo(rank) ==
    \A j \in Reached :
        /\ prev[j] \in visited /\ rank[prev[j]] < rank[j]
        /\ rank[j] <= rank[curCol] => Reduced(colToRow[prev[j]], j) = 0

Relaxing ==
    /\ Holding(Cols, row - 1) /\ Growing /\ colToRow[curCol] # 0
    /\ \E rank \in [ColsAndZero -> Nat] :
          TightUpTo(rank) /\ \A j \in visited : rank[j] <= rank[curCol]

Augmenting ==
    /\ curCol \in Cols /\ Holding(Cols \ {curCol}, row - 1)
    /\ \E rank \in [ColsAndZero -> Nat] : TightUpTo(rank)

HInv ==
    Busy =>
        /\ HTypeOK /\ Feasible
        /\ solving \in {"relax", "augment"} => Linked
        /\ solving = "relax" => Relaxing
        /\ solving = "augment" => Augmenting
        /\ solving = "assigned" => Holding(Cols, Len(matrix))

----------------------------------------------------------------------------
(***************************************************************************)
(* Sums, given as the sequence F of their partial sums.                    *)
(***************************************************************************)
Sums(F, f, n) ==
    /\ F \in [0..n -> Int] /\ F[0] = 0
    /\ \A k \in 1..n : F[k] = F[k - 1] + f[k]

LEMMA SumsExist ==
    ASSUME NEW n \in Nat, NEW f \in [1..n -> Int]
    PROVE  \E F : Sums(F, f, n)
<1> DEFINE Good(F, m) == F \in [0..m -> Int] /\ F[0] = 0 /\ \A k \in 1..m : F[k] = F[k - 1] + f[k]
           S == {m \in Nat : m <= n => \E F : Good(F, m)}
<1>1. 0 \in S
  <2>1. Good([k \in 0..0 |-> 0], 0)
    OBVIOUS
  <2> HIDE DEF Good
  <2> QED BY <2>1
<1>2. ASSUME NEW m \in Nat, m \in S PROVE m + 1 \in S
  <2> SUFFICES ASSUME m + 1 <= n PROVE \E F : Good(F, m + 1)
    <3> HIDE DEF Good
    <3> QED OBVIOUS
  <2>1. PICK F : Good(F, m)
    BY <1>2
  <2>2. PICK H : H = [k \in 0..(m + 1) |-> IF k = m + 1 THEN F[m] + f[m + 1] ELSE F[k]]
    OBVIOUS
  <2>3. /\ \A k \in 0..m : H[k] = F[k] /\ F[k] \in Int
        /\ H[m + 1] = F[m] + f[m + 1] /\ f[m + 1] \in Int /\ F[m] \in Int
    BY <2>1, <2>2
  <2>4. H \in [0..(m + 1) -> Int]
    <3>1. \A k \in 0..(m + 1) : k = m + 1 \/ k \in 0..m
      OBVIOUS
    <3>2. \A k \in 0..(m + 1) : H[k] \in Int
      BY <2>3, <3>1, SMTT(60)
    <3> QED BY <2>2, <3>2
  <2>5. ASSUME NEW k \in 1..(m + 1) PROVE H[k] = H[k - 1] + f[k]
    <3>1. CASE k = m + 1
      BY <2>3, <3>1
    <3>2. CASE k # m + 1
      <4>1. k \in 1..m /\ k \in 0..m /\ k - 1 \in 0..m
        BY <3>2
      <4>2. F[k] = F[k - 1] + f[k]
        BY <2>1, <4>1
      <4> QED BY <2>3, <4>1, <4>2
    <3> QED BY <3>1, <3>2
  <2>6. Good(H, m + 1)
    <3>1. H[0] = 0
      BY <2>1, <2>3
    <3> QED BY <2>4, <2>5, <3>1
  <2> HIDE DEF Good
  <2> QED BY <2>6
<1>3. n \in S
  <2> HIDE DEF S
  <2> QED BY <1>1, <1>2, Induction
<1>4. PICK F : Good(F, n)
  <2> HIDE DEF Good
  <2> QED BY <1>3
<1> QED BY <1>4 DEF Sums

\* A sum of what is nowhere less is not less.
LEMMA SumsMonotone ==
    ASSUME NEW n \in Nat, NEW f \in [1..n -> Int], NEW g \in [1..n -> Int], NEW F, NEW G,
           Sums(F, f, n), Sums(G, g, n), \A k \in 1..n : f[k] <= g[k]
    PROVE  F[n] <= G[n]
<1> DEFINE S == {m \in Nat : m <= n => F[m] <= G[m]}
<1>1. 0 \in S
  BY DEF Sums
<1>2. ASSUME NEW m \in Nat, m \in S PROVE m + 1 \in S
  <2> SUFFICES ASSUME m + 1 <= n PROVE F[m + 1] <= G[m + 1]
    OBVIOUS
  <2>1. /\ m + 1 \in 1..n /\ m \in 0..n /\ (m + 1) - 1 = m /\ F[m] <= G[m]
    BY <1>2
  <2>2. F[m + 1] = F[m] + f[m + 1] /\ G[m + 1] = G[m] + g[m + 1] /\ f[m + 1] <= g[m + 1]
    BY <2>1 DEF Sums
  <2>3. F[m] \in Int /\ G[m] \in Int /\ f[m + 1] \in Int /\ g[m + 1] \in Int
    BY <2>1 DEF Sums
  <2> QED BY <2>1, <2>2, <2>3
<1>3. n \in S
  <2> HIDE DEF S
  <2> QED BY <1>1, <1>2, Induction
<1> QED BY <1>3

LEMMA SumsAdd ==
    ASSUME NEW n \in Nat
    PROVE  \A f, g, h \in [1..n -> Int] : \A F, G, H :
              /\ Sums(F, f, n) /\ Sums(G, g, n) /\ Sums(H, h, n)
              /\ \A k \in 1..n : f[k] = g[k] + h[k]
              => F[n] = G[n] + H[n]
<1> TAKE f, g, h \in [1..n -> Int]
<1> TAKE F, G, H
<1> HAVE /\ Sums(F, f, n) /\ Sums(G, g, n) /\ Sums(H, h, n)
         /\ \A k \in 1..n : f[k] = g[k] + h[k]
<1> DEFINE S == {m \in Nat : m <= n => F[m] = G[m] + H[m]}
<1>1. 0 \in S
  BY DEF Sums
<1>2. ASSUME NEW m \in Nat, m \in S PROVE m + 1 \in S
  <2> SUFFICES ASSUME m + 1 <= n PROVE F[m + 1] = G[m + 1] + H[m + 1]
    OBVIOUS
  <2>1. /\ m + 1 \in 1..n /\ m \in 0..n /\ (m + 1) - 1 = m /\ F[m] = G[m] + H[m]
    BY <1>2
  <2>2. /\ F[m + 1] = F[m] + f[m + 1] /\ G[m + 1] = G[m] + g[m + 1] /\ H[m + 1] = H[m] + h[m + 1]
        /\ f[m + 1] = g[m + 1] + h[m + 1]
    BY <2>1 DEF Sums
  <2>3. F[m] \in Int /\ G[m] \in Int /\ H[m] \in Int /\ g[m + 1] \in Int /\ h[m + 1] \in Int
    BY <2>1 DEF Sums
  <2> QED BY <2>1, <2>2, <2>3
<1>3. n \in S
  <2> HIDE DEF S
  <2> QED BY <1>1, <1>2, Induction
<1> QED BY <1>3

\* Two sums differ by as much as they do in the only place where they do.
LEMMA SumsDiffer ==
    ASSUME NEW n \in Nat
    PROVE  \A f, g \in [1..n -> Int], p \in 1..n : \A F, G :
              /\ Sums(F, f, n) /\ Sums(G, g, n)
              /\ \A k \in (1..n) \ {p} : g[k] = f[k]
              => G[n] - F[n] = g[p] - f[p]
<1> TAKE f, g \in [1..n -> Int], p \in 1..n
<1> TAKE F, G
<1> HAVE /\ Sums(F, f, n) /\ Sums(G, g, n)
         /\ \A k \in (1..n) \ {p} : g[k] = f[k]
<1> DEFINE S == {m \in Nat : m <= n => G[m] - F[m] = (IF m < p THEN 0 ELSE g[p] - f[p])}
<1>1. 0 \in S
  BY DEF Sums
<1>2. ASSUME NEW m \in Nat, m \in S PROVE m + 1 \in S
  <2> SUFFICES ASSUME m + 1 <= n
               PROVE  G[m + 1] - F[m + 1] = (IF m + 1 < p THEN 0 ELSE g[p] - f[p])
    OBVIOUS
  <2>1. /\ m + 1 \in 1..n /\ m \in 0..n /\ (m + 1) - 1 = m
        /\ G[m] - F[m] = (IF m < p THEN 0 ELSE g[p] - f[p])
    BY <1>2
  <2>2. F[m + 1] = F[m] + f[m + 1] /\ G[m + 1] = G[m] + g[m + 1]
    BY <2>1 DEF Sums
  <2>3. F[m] \in Int /\ G[m] \in Int /\ f[m + 1] \in Int /\ g[m + 1] \in Int
    BY <2>1 DEF Sums
  <2>4. CASE m + 1 = p
    <3>1. G[m] - F[m] = 0 /\ F[p] = F[m] + f[p] /\ G[p] = G[m] + g[p] /\ f[p] \in Int /\ g[p] \in Int
      BY <2>1, <2>2, <2>3, <2>4, SMTT(60)
    <3>2. \A a, b, x, y \in Int : a - b = 0 => (a + x) - (b + y) = x - y
      OBVIOUS
    <3>3. (G[m] + g[p]) - (F[m] + f[p]) = g[p] - f[p]
      <4>1. PICK a, b, x, y : a = G[m] /\ b = F[m] /\ x = g[p] /\ y = f[p]
        OBVIOUS
      <4>2. a \in Int /\ b \in Int /\ x \in Int /\ y \in Int /\ a - b = 0
        BY <2>3, <3>1, <4>1
      <4>3. (a + x) - (b + y) = x - y
        BY <4>2, <3>2
      <4> QED BY <4>1, <4>3, Zenon
    <3> QED BY <2>4, <3>1, <3>3
  <2>5. CASE m + 1 # p
    <3>1. g[m + 1] = f[m + 1]
      BY <2>1, <2>5
    <3> QED BY <2>1, <2>2, <2>3, <2>5, <3>1, SMTT(60)
  <2> QED BY <2>4, <2>5
<1>3. n \in S
  <2> HIDE DEF S
  <2> QED BY <1>1, <1>2, Induction
<1> QED BY <1>3

\* A sum of zeros.
LEMMA SumsOfNothing ==
    ASSUME NEW n \in Nat, NEW f \in [1..n -> Int], NEW F, Sums(F, f, n), \A k \in 1..n : f[k] = 0
    PROVE  F[n] = 0
<1>1. F[n] = F[n] + F[n]
  BY SumsAdd
<1> QED BY <1>1 DEF Sums

(***************************************************************************)
(* Weak duality in the columns.  Duals that are not positive, picked by a  *)
(* choice of different columns, sum up to no less than all of them, and to *)
(* as much when the choice leaves only zeros.                              *)
(***************************************************************************)
LEMMA ChosenDuals ==
    ASSUME NEW n \in Nat, NEW w \in Nat
    PROVE  \A c \in [1..n -> 1..w], d \in [1..w -> Int] : \A D, X :
              /\ \A i, k \in 1..n : c[i] = c[k] => i = k
              /\ \A j \in 1..w : d[j] <= 0
              /\ Sums(D, d, w) /\ Sums(X, [i \in 1..n |-> d[c[i]]], n)
              => /\ X[n] >= D[w]
                 /\ (\A j \in 1..w : d[j] = 0 \/ \E i \in 1..n : c[i] = j) => X[n] = D[w]
<1> TAKE c \in [1..n -> 1..w], d \in [1..w -> Int]
<1> TAKE D, X
<1> HAVE /\ \A i, k \in 1..n : c[i] = c[k] => i = k
         /\ \A j \in 1..w : d[j] <= 0
         /\ Sums(D, d, w) /\ Sums(X, [i \in 1..n |-> d[c[i]]], n)
<1> DEFINE Exact == \A j \in 1..w : d[j] = 0 \/ \E i \in 1..n : c[i] = j
           y(k) == [i \in 1..n |-> IF c[i] <= k THEN d[c[i]] ELSE 0]
           S == {k \in Nat : k <= w => \A Y : Sums(Y, y(k), n) => Y[n] >= D[k] /\ (Exact => Y[n] = D[k])}
<1>0. \A k \in Nat : y(k) \in [1..n -> Int]
  OBVIOUS
<1>1. 0 \in S
  <2>1. ASSUME NEW Y, Sums(Y, y(0), n) PROVE Y[n] = 0
    <3>1. \A i \in 1..n : y(0)[i] = 0
      OBVIOUS
    <3> HIDE DEF y
    <3> QED BY <1>0, <2>1, <3>1, SumsOfNothing
  <2>2. D[0] = 0
    BY DEF Sums
  <2> HIDE DEF Exact, y
  <2> QED BY <2>1, <2>2
<1>2. ASSUME NEW k \in Nat, k \in S PROVE k + 1 \in S
  <2> SUFFICES ASSUME k + 1 <= w, NEW Y, Sums(Y, y(k + 1), n)
               PROVE  Y[n] >= D[k + 1] /\ (Exact => Y[n] = D[k + 1])
    <3> HIDE DEF Exact, y
    <3> QED OBVIOUS
  <2>1. PICK Z : Sums(Z, y(k), n)
    <3> HIDE DEF y
    <3> QED BY <1>0, SumsExist
  <2>2. Z[n] >= D[k] /\ (Exact => Z[n] = D[k])
    <3> HIDE DEF Exact, y
    <3> QED BY <1>2, <2>1
  <2>3. D[k + 1] = D[k] + d[k + 1] /\ D[k] \in Int /\ d[k + 1] \in Int /\ d[k + 1] <= 0
    <3>1. k + 1 \in 1..w /\ k \in 0..w /\ (k + 1) - 1 = k
      OBVIOUS
    <3> QED BY <3>1 DEF Sums
  <2>4. Y[n] \in Int /\ Z[n] \in Int
    BY <2>1 DEF Sums
  <2>5. CASE \E i \in 1..n : c[i] = k + 1
    <3>1. PICK p \in 1..n : c[p] = k + 1
      BY <2>5
    <3>2. \A i \in (1..n) \ {p} : y(k + 1)[i] = y(k)[i]
      BY <3>1
    <3>3. y(k + 1)[p] = d[k + 1] /\ y(k)[p] = 0
      BY <3>1
    <3>4. Y[n] - Z[n] = y(k + 1)[p] - y(k)[p]
      <4>1. y(k) \in [1..n -> Int] /\ y(k + 1) \in [1..n -> Int]
        <5> HIDE DEF y
        <5> QED BY <1>0
      <4>2. PICK f, g : f = y(k) /\ g = y(k + 1)
        <5> HIDE DEF y
        <5> QED OBVIOUS
      <4>3. Y[n] - Z[n] = g[p] - f[p]
        <5>1. /\ f \in [1..n -> Int] /\ g \in [1..n -> Int] /\ Sums(Z, f, n) /\ Sums(Y, g, n)
              /\ \A i \in (1..n) \ {p} : g[i] = f[i]
          <6> HIDE DEF y
          <6> QED BY <4>1, <4>2, <2>1, <3>2
        <5>2. /\ f \in [1..n -> Int] /\ g \in [1..n -> Int] /\ p \in 1..n
              => \A F, G :
                   /\ Sums(F, f, n) /\ Sums(G, g, n)
                   /\ \A i \in (1..n) \ {p} : g[i] = f[i]
                   => G[n] - F[n] = g[p] - f[p]
          <6> HIDE DEF y, S
          <6> QED BY SumsDiffer, Zenon
        <5> HIDE DEF y, S
        <5> QED BY <5>1, <5>2, Zenon
      <4> HIDE DEF y
      <4> QED BY <4>2, <4>3
    <3>5. Y[n] = Z[n] + d[k + 1]
      <4> HIDE DEF y
      <4>1. Y[n] - Z[n] = d[k + 1]
        <5>1. y(k + 1)[p] - y(k)[p] = d[k + 1] - 0
          BY <3>3, Zenon
        <5> QED BY <5>1, <3>4, <2>3
      <4> QED BY <4>1, <2>3, <2>4
    <3> HIDE DEF Exact
    <3> QED BY <3>5, <2>2, <2>3, <2>4
  <2>6. CASE ~ \E i \in 1..n : c[i] = k + 1
    <3>1. y(k + 1) = y(k)
      <4>1. ASSUME NEW i \in 1..n PROVE c[i] <= k + 1 <=> c[i] <= k
        <5>1. c[i] \in 1..w /\ c[i] # k + 1
          BY <2>6
        <5> QED BY <5>1
      <4> QED BY <4>1
    <3>2. Y[n] >= D[k] /\ (Exact => Y[n] = D[k])
      <4> HIDE DEF Exact, y
      <4> QED BY <1>2, <3>1
    <3>3. Exact => d[k + 1] = 0
      BY <2>6
    <3> HIDE DEF Exact, y
    <3> QED BY <3>2, <3>3, <2>3, <2>4
  <2> QED BY <2>5, <2>6
<1>3. w \in S
  <2> HIDE DEF S
  <2> QED BY <1>1, <1>2, Induction
<1>4. y(w) = [i \in 1..n |-> d[c[i]]]
  OBVIOUS
<1>5. Sums(X, y(w), n)
  BY <1>4
<1>6. \A Y : Sums(Y, y(w), n) => Y[n] >= D[w] /\ (Exact => Y[n] = D[w])
  <2> HIDE DEF y, Exact
  <2> QED BY <1>3
<1>7. X[n] >= D[w] /\ (Exact => X[n] = D[w])
  <2> HIDE DEF y, Exact
  <2> QED BY <1>5, <1>6
<1> QED BY <1>7

----------------------------------------------------------------------------
(***************************************************************************)
(* What the steps rest on.                                                 *)
(***************************************************************************)
LEMMA ProperTypes ==
    ASSUME NEW m, Proper(m)
    PROVE  /\ Len(m) \in Nat \ {0} /\ DOMAIN m = 1..Len(m) /\ Width(m) \in Nat
           /\ \A i \in DOMAIN m, j \in 1..Width(m) : m[i][j] \in Nat /\ 2 * m[i][j] < Inf
<1>1. /\ m \in Seq(Seq(Nat)) /\ m # << >>
      /\ \A i \in DOMAIN m : Len(m[i]) = Width(m) /\ \A j \in 1..Width(m) : 2 * m[i][j] < Inf
  BY DEF Proper
<1>2. Len(m) \in Nat \ {0} /\ DOMAIN m = 1..Len(m)
  BY <1>1
<1>3. \A i \in DOMAIN m : m[i] \in Seq(Nat)
  BY <1>1
<1>4. Width(m) \in Nat
  BY <1>2, <1>3 DEF Width
<1>5. ASSUME NEW i \in DOMAIN m, NEW j \in 1..Width(m) PROVE m[i][j] \in Nat
  <2>1. m[i] \in Seq(Nat) /\ j \in 1..Len(m[i])
    BY <1>1, <1>3
  <2> QED BY <2>1
<1> QED BY <1>1, <1>2, <1>4, <1>5

LEMMA MatrixTypes ==
    ASSUME Proper(matrix)
    PROVE  /\ Len(matrix) \in Nat \ {0} /\ Rows = 1..Len(matrix) /\ Width(matrix) \in Nat
           /\ \A i \in Rows, j \in Cols : matrix[i][j] \in Nat /\ 2 * matrix[i][j] < Inf
  BY ProperTypes DEF Rows, Cols

\* A column is free as long as not every row has one.
LEMMA FreeColumn ==
    ASSUME Proper(matrix), HTypeOK, Holding(Cols, row - 1)
    PROVE  \E j \in Cols : colToRow[j] = 0
<1> SUFFICES ASSUME \A j \in Cols : colToRow[j] # 0 PROVE FALSE
  OBVIOUS
<1>1. /\ Width(matrix) \in Nat /\ Len(matrix) <= Width(matrix) /\ row \in 1..Len(matrix)
      /\ Len(matrix) \in Nat
  BY MatrixTypes DEF HTypeOK
<1>2. PICK w, n : w = Width(matrix) /\ n = row - 1
  OBVIOUS
<1>3. w \in Nat /\ n \in Nat /\ n < w /\ Cols = 1..w
  BY <1>1, <1>2 DEF Cols
<1>4. PICK f : f = [j \in Cols |-> colToRow[j]]
  OBVIOUS
<1>5. f \in [1..w -> 1..n]
  <2>1. \A j \in Cols : colToRow[j] \in 0..n /\ colToRow[j] # 0
    BY <1>2 DEF Holding
  <2>2. \A j \in Cols : colToRow[j] \in 1..n
    BY <2>1, <1>3
  <2> QED BY <2>2, <1>3, <1>4
<1>6. /\ IsFiniteSet(1..w) /\ IsFiniteSet(1..n)
      /\ Cardinality(1..w) = w /\ Cardinality(1..n) = n
  BY <1>3, FS_Interval
<1>7. \E j, k \in 1..w : j # k /\ f[j] = f[k]
  BY <1>3, <1>5, <1>6, FS_PigeonHole
<1> QED BY <1>3, <1>4, <1>7 DEF Holding

\* There is a cheapest column.
LEMMA CheapestIsLeast ==
    ASSUME NEW open \in SUBSET Nat, open # {}, NEW dist, \A j \in open : dist[j] \in Nat
    PROVE  /\ Cheapest(dist, open) \in open
           /\ \A k \in open : dist[Cheapest(dist, open)] <= dist[k]
<1> DEFINE Ds == {dist[j] : j \in open}
<1>1. PICK least \in Ds : \A x \in Ds : least <= x
  <2>1. Ds \in SUBSET Nat /\ Ds # {}
    OBVIOUS
  <2> HIDE DEF Ds
  <2> QED BY <2>1, LeastNumber
<1> DEFINE Js == {j \in open : dist[j] = least}
<1>2. PICK first \in Js : \A k \in Js : first <= k
  <2>1. Js \in SUBSET Nat /\ Js # {}
    BY <1>1
  <2> HIDE DEF Js
  <2> QED BY <2>1, LeastNumber
<1> DEFINE P(j) == \A k \in open : dist[j] < dist[k] \/ (dist[j] = dist[k] /\ j <= k)
<1>3. first \in open /\ P(first)
  <2>1. first \in open /\ dist[first] = least
    BY <1>2
  <2>2. ASSUME NEW k \in open PROVE dist[first] < dist[k] \/ (dist[first] = dist[k] /\ first <= k)
    <3>1. dist[k] \in Nat /\ dist[first] \in Nat /\ dist[first] <= dist[k]
      BY <1>1, <2>1
    <3>2. dist[k] = least => first <= k
      BY <1>2
    <3> QED BY <2>1, <3>1, <3>2
  <2> QED BY <2>1, <2>2
<1>4. Cheapest(dist, open) = CHOOSE j \in open : P(j)
  BY DEF Cheapest
<1>5. Cheapest(dist, open) \in open /\ P(Cheapest(dist, open))
  <2> HIDE DEF P
  <2> QED BY <1>3, <1>4
<1>6. PICK c : c = Cheapest(dist, open)
  OBVIOUS
<1>7. ASSUME NEW k \in open PROVE dist[c] <= dist[k]
  <2>1. dist[c] \in Nat /\ dist[k] \in Nat
    BY <1>5, <1>6
  <2> QED BY <1>5, <1>6, <2>1
<1> QED BY <1>5, <1>6, <1>7

\* A call begins with nothing assigned.
LEMMA AssignStep ==
    ASSUME NEW m, Assign(m), Proper(matrix')
    PROVE  HInv'
<1> SUFFICES ASSUME Busy' PROVE HInv'
  BY DEF HInv
<1>1. /\ matrix' = m
      /\ u' = Zeros(DOMAIN m) /\ v' = Zeros(0..Width(m))
      /\ colToRow' = [j \in 0..Width(m) |-> IF j = 0 THEN 1 ELSE 0]
      /\ row' = 1 /\ curCol' = 0 /\ visited' = {}
      /\ minCost' = [j \in 0..Width(m) |-> Inf] /\ prev' = Zeros(0..Width(m))
      /\ solving' = "relax" /\ Len(m) <= Width(m)
  BY DEF Assign, FreshPath, Busy
<1>2. /\ Len(m) \in Nat \ {0} /\ DOMAIN m = 1..Len(m) /\ Width(m) \in Nat
      /\ \A i \in DOMAIN m, j \in 1..Width(m) : m[i][j] \in Nat
  BY <1>1, ProperTypes
<1>3. HTypeOK'
  BY <1>1, <1>2, InfAssumption DEF HTypeOK, Rows, Cols, ColsAndZero, Zeros
<1>4. Feasible'
  BY <1>1, <1>2 DEF Feasible, Reduced, Rows, Cols, Zeros
<1>5. Linked'
  BY <1>1, <1>2 DEF Linked, Rows, Zeros
<1>6. Relaxing'
  <2>1. Holding(Cols, row - 1)'
    BY <1>1, <1>2 DEF Holding, Cols, Zeros
  <2>2. Growing'
    BY <1>1, <1>2 DEF Growing, Cols, Zeros
  <2>3. PICK rank : rank = [j \in 0..Width(m) |-> 0]
    OBVIOUS
  <2>4. rank \in [0..Width(m) -> Nat]
    BY <2>3
  <2>5. TightUpTo(rank)' /\ \A j \in visited' : rank[j] <= rank[curCol']
    BY <1>1 DEF TightUpTo, Reached
  <2> QED BY <1>1, <1>2, <2>1, <2>2, <2>4, <2>5 DEF Relaxing, ColsAndZero
<1> QED BY <1>1, <1>3, <1>4, <1>5, <1>6 DEF HInv

(***************************************************************************)
(* The path grows by a column.                                             *)
(***************************************************************************)

\* How far a column is when nothing has been visited: less than Inf.
LEMMA FirstIsNear ==
    ASSUME Proper(matrix), HTypeOK, Feasible, Holding(Cols, row - 1), u[row] = 0, NEW j \in Cols
    PROVE  Reduced(row, j) < Inf
<1>1. PICK free \in Cols : colToRow[free] = 0
  BY FreeColumn
<1>2. /\ row \in Rows /\ matrix[row][j] \in Nat /\ 2 * matrix[row][j] < Inf /\ Inf \in Nat
      /\ u \in [Rows -> Int] /\ v \in [ColsAndZero -> Int] /\ Rows = 1..Len(matrix) /\ Len(matrix) \in Nat
      /\ Cols \subseteq ColsAndZero
  BY MatrixTypes, InfAssumption DEF HTypeOK, Cols, ColsAndZero
<1>3. v[free] = 0 /\ v[j] \in Int
  BY <1>1, <1>2 DEF Holding
<1>4. CASE colToRow[j] = 0
  <2>1. v[j] = 0
    BY <1>4 DEF Holding
  <2> QED BY <1>2, <2>1 DEF Reduced
<1>5. CASE colToRow[j] # 0
  <2>1. PICK i : i = colToRow[j]
    OBVIOUS
  <2>2. i \in Rows /\ Reduced(i, j) = 0
    <3>1. i \in 0..(row - 1) /\ i # 0
      BY <1>5, <2>1 DEF Holding
    <3>2. i \in 1..Len(matrix)
      BY <1>2, <3>1
    <3> QED BY <1>2, <1>5, <2>1, <3>2 DEF Holding
  <2>3. /\ matrix[i][j] \in Nat /\ matrix[i][free] \in Nat /\ 2 * matrix[i][free] < Inf /\ u[i] \in Int
    BY <1>2, <2>2, MatrixTypes
  <2>4. Reduced(i, free) >= 0
    BY <2>2 DEF Feasible
  <2>5. matrix[i][j] - u[i] - v[j] = 0 /\ matrix[i][free] - u[i] - 0 >= 0
    BY <2>2, <2>4, <1>3 DEF Reduced
  <2>6. matrix[row][j] - 0 - v[j] < Inf
    <3>1. \A a, b, x, y, z \in Int : 2 * a < Inf /\ 2 * b < Inf /\ z - x - y = 0 /\ b - x - 0 >= 0 /\ z >= 0
             => a - 0 - y < Inf
      BY <1>2
    <3>2. matrix[row][j] \in Int /\ matrix[i][free] \in Int /\ matrix[i][j] \in Int /\ matrix[i][j] >= 0
      BY <1>2, <2>3
    <3> QED BY <2>3, <2>5, <1>2, <1>3, <3>1, <3>2
  <2> QED BY <1>2, <2>6 DEF Reduced
<1> QED BY <1>4, <1>5

LEMMA RelaxStep ==
    ASSUME Proper(matrix), HInv, solving = "relax", Relax
    PROVE  HInv'
<1> DEFINE done == visited \cup {curCol}
           open == Cols \ done
           i == colToRow[curCol]
           closer == {j \in open : Reduced(i, j) < minCost[j]}
           dist == [j \in ColsAndZero |-> IF j \in closer THEN Reduced(i, j) ELSE minCost[j]]
           next == Cheapest(dist, open)
           delta == dist[next]
           linked == {colToRow[j] : j \in done}
<1>1. /\ visited' = done
      /\ prev' = [j \in ColsAndZero |-> IF j \in closer THEN curCol ELSE prev[j]]
      /\ u' = [k \in Rows |-> IF k \in linked THEN u[k] + delta ELSE u[k]]
      /\ v' = [j \in ColsAndZero |-> IF j \in done THEN v[j] - delta ELSE v[j]]
      /\ minCost' = [j \in ColsAndZero |-> IF j \in done THEN dist[j] ELSE dist[j] - delta]
      /\ curCol' = next
      /\ solving' = IF colToRow[next] = 0 THEN "augment" ELSE "relax"
      /\ matrix' = matrix /\ colToRow' = colToRow /\ row' = row
  BY DEF Relax, Open
<1>2. HTypeOK /\ Feasible /\ Linked /\ Relaxing
  BY DEF HInv, Busy
<1>3. /\ Rows = 1..Len(matrix) /\ Len(matrix) \in Nat /\ Width(matrix) \in Nat
      /\ Cols = 1..Width(matrix) /\ ColsAndZero = 0..Width(matrix) /\ Cols \subseteq ColsAndZero
      /\ \A k \in Rows, j \in Cols : matrix[k][j] \in Nat
      /\ u \in [Rows -> Int] /\ v \in [ColsAndZero -> Int] /\ row \in Rows
      /\ minCost \in [ColsAndZero -> Int] /\ prev \in [ColsAndZero -> ColsAndZero]
      /\ visited \subseteq ColsAndZero /\ curCol \in ColsAndZero
      /\ colToRow \in [ColsAndZero -> 0..Len(matrix)]
  BY <1>2, MatrixTypes DEF HTypeOK, Cols, ColsAndZero
<1>types. /\ \A k \in Rows : u[k] \in Int
          /\ \A j \in Cols : v[j] \in Int /\ j \in Nat
          /\ \A k \in Rows, j \in Cols : matrix[k][j] \in Int
  <2>1. \A k \in Rows : u[k] \in Int
    BY <1>3
  <2>2. \A j \in Cols : v[j] \in Int
    BY <1>3
  <2>3. \A j \in Cols : j \in Nat
    BY <1>3
  <2>4. \A k \in Rows, j \in Cols : matrix[k][j] \in Int
    BY <1>3
  <2> QED BY <2>1, <2>2, <2>3, <2>4
<1>4. /\ done \subseteq ColsAndZero /\ 0 \in done /\ open \subseteq Cols
      /\ \A k \in done : colToRow[k] \in Rows
      /\ i \in Rows /\ \A k \in Rows, j \in Cols : Reduced(k, j) \in Int /\ Reduced(k, j) >= 0
  <2>1. 0 \in done
    BY <1>2 DEF Relaxing, Growing
  <2>2. \A k \in done : colToRow[k] # 0
    BY <1>2 DEF Relaxing, Linked
  <2>3. ASSUME NEW k \in done PROVE colToRow[k] \in Rows
    <3>1. k \in ColsAndZero /\ colToRow[k] # 0
      BY <1>3, <2>2
    <3>2. colToRow[k] \in 0..Len(matrix)
      BY <1>3, <3>1
    <3> QED BY <1>3, <3>1, <3>2
  <2>4. \A k \in Rows, j \in Cols : Reduced(k, j) \in Int /\ Reduced(k, j) >= 0
    <3> SUFFICES ASSUME NEW k \in Rows, NEW j \in Cols PROVE Reduced(k, j) \in Int /\ Reduced(k, j) >= 0
      OBVIOUS
    <3>1. matrix[k][j] \in Int /\ u[k] \in Int /\ v[j] \in Int
      BY <1>types
    <3> QED BY <1>2, <3>1 DEF Feasible, Reduced
  <2> QED BY <1>3, <2>1, <2>3, <2>4
<1>5. ASSUME NEW j \in open
      PROVE  /\ prev'[j] \in done /\ dist[j] = Reduced(colToRow[prev'[j]], j)
             /\ \A k \in done : dist[j] <= Reduced(colToRow[k], j)
             /\ dist[j] \in Nat
  <2>1. j \in Cols /\ j \in ColsAndZero /\ j \notin visited /\ j # curCol
    BY <1>3, <1>5
  <2>2. /\ prev'[j] = (IF j \in closer THEN curCol ELSE prev[j])
        /\ dist[j] = (IF j \in closer THEN Reduced(i, j) ELSE minCost[j])
        /\ j \in closer <=> Reduced(i, j) < minCost[j]
    BY <1>1, <2>1
  <2>3. CASE visited = {}
    <3>1. curCol = 0 /\ i = row /\ u[row] = 0 /\ minCost[j] = Inf /\ done = {0}
      BY <1>2, <2>1, <2>3 DEF Relaxing, Growing, Linked
    <3>2. j \in closer
      BY <1>2, <2>1, <2>2, <3>1, FirstIsNear DEF Relaxing
    <3>3. dist[j] = Reduced(i, j) /\ prev'[j] = 0
      BY <2>2, <3>1, <3>2
    <3>4. Reduced(i, j) \in Int /\ Reduced(i, j) >= 0
      BY <1>4, <2>1
    <3> HIDE DEF dist, closer
    <3> QED BY <3>1, <3>3, <3>4
  <2>4. CASE visited # {}
    <3>1. /\ prev[j] \in visited /\ minCost[j] = Reduced(colToRow[prev[j]], j)
          /\ \A k \in visited : minCost[j] <= Reduced(colToRow[k], j)
      BY <1>2, <2>1, <2>4 DEF Relaxing, Growing
    <3>2. Reduced(i, j) \in Int /\ minCost[j] \in Int /\ Reduced(i, j) >= 0 /\ minCost[j] >= 0
      BY <1>4, <2>1, <3>1
    <3>3. dist[j] = Reduced(colToRow[prev'[j]], j) /\ prev'[j] \in done /\ dist[j] \in Nat
      <4> HIDE DEF dist, closer
      <4> QED BY <2>2, <3>1, <3>2
    <3>4. dist[j] <= Reduced(i, j) /\ dist[j] <= minCost[j]
      <4> HIDE DEF dist, closer
      <4> QED BY <2>2, <3>2
    <3>5. ASSUME NEW k \in done PROVE dist[j] <= Reduced(colToRow[k], j)
      <4>1. CASE k = curCol
        BY <3>4, <4>1
      <4>2. CASE k # curCol
        <5>1. k \in visited /\ minCost[j] <= Reduced(colToRow[k], j) /\ Reduced(colToRow[k], j) \in Int
          BY <1>4, <2>1, <3>1, <3>5, <4>2
        <5> HIDE DEF dist
        <5> QED BY <3>2, <3>3, <3>4, <5>1
      <4> QED BY <4>1, <4>2
    <3> QED BY <3>3, <3>5
  <2> QED BY <2>3, <2>4
<1>6. open # {} /\ open \in SUBSET Nat
  <2>1. PICK free \in Cols : colToRow[free] = 0
    BY <1>2, FreeColumn DEF Relaxing
  <2>2. free \notin done
    BY <1>4, <1>3, <2>1
  <2>3. open \subseteq Cols /\ \A j \in Cols : j \in Nat
    BY <1>types
  <2> QED BY <2>1, <2>2, <2>3
<1>7. next \in open /\ delta \in Nat /\ \A j \in open : delta <= dist[j]
  <2>1. \A j \in open : dist[j] \in Nat
    BY <1>5
  <2> HIDE DEF open, dist
  <2> QED BY <1>6, <2>1, CheapestIsLeast
<1> HIDE DEF dist, next, closer
<1>8. /\ \A k \in Rows : u'[k] = (IF k \in linked THEN u[k] + delta ELSE u[k])
      /\ \A j \in ColsAndZero : v'[j] = (IF j \in done THEN v[j] - delta ELSE v[j])
      /\ \A j \in open : minCost'[j] = dist[j] - delta
      /\ \A j \in done : prev'[j] = prev[j]
      /\ curCol' = next /\ next \in Cols /\ next \notin done
  <2>1. \A j \in done : j \in ColsAndZero /\ j \notin closer
    BY <1>4 DEF closer
  <2>2. \A j \in open : j \in ColsAndZero /\ j \notin done
    BY <1>3
  <2> HIDE DEF done, open, linked
  <2>3. next \in Cols /\ next \notin done
    BY <1>7 DEF open
  <2> QED BY <1>1, <2>1, <2>2, <2>3
\* What becomes of a reduced cost.
<1>9. ASSUME NEW k \in Rows, NEW j \in Cols
      PROVE  matrix'[k][j] - u'[k] - v'[j]
                 = Reduced(k, j) - (IF k \in linked THEN delta ELSE 0) + (IF j \in done THEN delta ELSE 0)
  <2>1. matrix'[k][j] = matrix[k][j] /\ matrix[k][j] \in Int /\ u[k] \in Int /\ v[j] \in Int /\ delta \in Int
    <3> HIDE DEF done, open, delta, linked
    <3> QED BY <1>1, <1>types, <1>7
  <2>2. /\ u'[k] = (IF k \in linked THEN u[k] + delta ELSE u[k])
        /\ v'[j] = (IF j \in done THEN v[j] - delta ELSE v[j])
    BY <1>3, <1>8
  <2> HIDE DEF done, open, linked, delta
  <2> QED BY <2>1, <2>2 DEF Reduced
\* A column that has been visited has a linked row, and no other column has.
<1>10. /\ \A j \in done : colToRow[j] \in linked
       /\ \A j \in Cols : colToRow[j] # 0 /\ j \notin done => colToRow[j] \notin linked
       /\ \A k \in linked : k <= row
  <2>1. \A j, k \in Cols : colToRow[j] = colToRow[k] /\ colToRow[j] # 0 => j = k
    BY <1>2 DEF Relaxing, Holding
  <2>2. \A j \in Cols : colToRow[j] \in 0..(row - 1) /\ colToRow[j] <= row /\ colToRow[j] # row
    <3>1. \A j \in Cols : colToRow[j] \in 0..(row - 1)
      BY <1>2 DEF Relaxing, Holding
    <3> QED BY <3>1, <1>3
  <2>3. colToRow[0] = row /\ row <= row
    BY <1>2, <1>3 DEF Linked
  <2>4. \A j \in done : j = 0 \/ j \in Cols
    BY <1>3, <1>4
  <2> HIDE DEF done
  <2> QED BY <2>1, <2>2, <2>3, <2>4
<1>11. HTypeOK'
  <2>1. u' \in [Rows -> Int]
    <3>1. \A k \in Rows : u[k] \in Int /\ u[k] + delta \in Int
      BY <1>3, <1>7
    <3> HIDE DEF linked, delta
    <3> QED BY <1>1, <3>1
  <2>2. v' \in [ColsAndZero -> Int]
    <3>1. \A k \in ColsAndZero : v[k] \in Int /\ v[k] - delta \in Int
      BY <1>3, <1>7, SMTT(60)
    <3> HIDE DEF done, delta
    <3> QED BY <1>1, <3>1
  <2>3. minCost' \in [ColsAndZero -> Int]
    <3>1. \A k \in ColsAndZero : dist[k] \in Int /\ dist[k] - delta \in Int
      <4>1. \A k \in ColsAndZero : minCost[k] \in Int
        BY <1>3
      <4>2. \A k \in closer : Reduced(i, k) \in Int
        BY <1>4 DEF closer
      <4>3. \A k \in ColsAndZero : dist[k] = (IF k \in closer THEN Reduced(i, k) ELSE minCost[k])
        BY DEF dist
      <4>4. \A k \in ColsAndZero : dist[k] \in Int
        BY <4>1, <4>2, <4>3
      <4> QED BY <1>7, <4>4
    <3> HIDE DEF done, delta
    <3> QED BY <1>1, <3>1
  <2>4. prev' \in [ColsAndZero -> ColsAndZero]
    BY <1>1, <1>3
  <2>5. visited' \subseteq ColsAndZero /\ curCol' \in ColsAndZero
    <3> HIDE DEF done
    <3> QED BY <1>1, <1>4, <1>8, <1>3
  <2>6. Len(matrix) <= Width(matrix)
    BY <1>2 DEF HTypeOK
  <2> HIDE DEF done, delta, linked
  <2> QED BY <1>1, <1>3, <2>1, <2>2, <2>3, <2>4, <2>5, <2>6 DEF HTypeOK, Rows, Cols, ColsAndZero
\* Two cells that are left as they are, and one that is nearer by delta.
<1>12. /\ \A j \in done \cap Cols, k \in done : Reduced(colToRow[k], j)' = Reduced(colToRow[k], j)
       /\ \A j \in open, k \in done : Reduced(colToRow[k], j)' = Reduced(colToRow[k], j) - delta
  <2>1. ASSUME NEW j \in Cols, NEW k \in done
        PROVE  Reduced(colToRow[k], j)' = Reduced(colToRow[k], j) + (IF j \in done THEN 0 ELSE 0 - delta)
    <3>1. PICK r : r = colToRow[k]
      OBVIOUS
    <3>2. r \in Rows /\ r \in linked /\ colToRow' = colToRow /\ Reduced(r, j) \in Int /\ delta \in Int
      <4> HIDE DEF done, linked, delta, i
      <4> QED BY <1>1, <1>4, <1>7, <1>10, <3>1
    <3>3. matrix'[r][j] - u'[r] - v'[j] = Reduced(r, j) - delta + (IF j \in done THEN delta ELSE 0)
      <4> HIDE DEF done, linked, delta
      <4> QED BY <1>9, <3>2
    <3>4. Reduced(colToRow[k], j)' = matrix'[r][j] - u'[r] - v'[j]
      BY <3>1, <3>2 DEF Reduced
    <3> HIDE DEF done, linked, delta
    <3> QED BY <3>1, <3>2, <3>3, <3>4
  <2>2. \A j \in open : j \in Cols /\ j \notin done
    OBVIOUS
  <2>3. \A k \in done, j \in Cols : Reduced(colToRow[k], j) \in Int
    BY <1>4
  <2> HIDE DEF done, open, delta
  <2> QED BY <2>1, <2>2, <2>3, <1>7
<1>13. Feasible'
  <2>1. ASSUME NEW k \in Rows, NEW j \in Cols PROVE Reduced(k, j)' >= 0
    <3>1. Reduced(k, j)' = Reduced(k, j) - (IF k \in linked THEN delta ELSE 0) + (IF j \in done THEN delta ELSE 0)
      <4> HIDE DEF linked, delta, done
      <4> QED BY <1>9 DEF Reduced
    <3>2. Reduced(k, j) \in Int /\ Reduced(k, j) >= 0 /\ delta \in Nat
      BY <1>4, <1>7
    <3>3. ASSUME k \in linked, j \notin done PROVE delta <= Reduced(k, j)
      <4>1. PICK c \in done : k = colToRow[c]
        BY <3>3
      <4>2. j \in open
        BY <3>3
      <4>3. delta <= dist[j] /\ dist[j] <= Reduced(k, j) /\ dist[j] \in Nat
        <5> HIDE DEF open, delta, done
        <5> QED BY <1>5, <1>7, <4>1, <4>2
      <4> HIDE DEF delta
      <4> QED BY <4>3, <3>2
    <3> HIDE DEF linked, delta, done
    <3> QED BY <3>1, <3>2, <3>3
  <2>2. ASSUME NEW j \in Cols PROVE v'[j] <= 0
    <3>1. v[j] \in Int /\ v[j] <= 0 /\ delta \in Nat /\ j \in ColsAndZero
      BY <1>2, <1>3, <1>types, <1>7 DEF Feasible
    <3> HIDE DEF linked, delta, done
    <3> QED BY <1>8, <3>1
  <2>3. Rows' = Rows /\ Cols' = Cols
    BY <1>1 DEF Rows, Cols
  <2> QED BY <2>1, <2>2, <2>3 DEF Feasible
<1>14. Holding(Cols, row - 1)'
  <2>1. ASSUME NEW j \in Cols, colToRow[j] = 0 PROVE v'[j] = 0
    <3>1. v[j] = 0 /\ j \notin done
      <4>1. v[j] = 0
        BY <1>2, <2>1 DEF Relaxing, Holding
      <4>2. 0 \notin Rows
        BY <1>3
      <4> QED BY <1>4, <2>1, <4>1, <4>2
    <3> HIDE DEF done, delta
    <3> QED BY <1>3, <1>8, <3>1
  <2>2. ASSUME NEW j \in Cols, colToRow[j] # 0 PROVE Reduced(colToRow[j], j)' = 0
    <3>1. PICK k : k = colToRow[j]
      OBVIOUS
    <3>2. k \in Rows /\ Reduced(k, j) = 0 /\ (k \in linked <=> j \in done)
      <4>1. Reduced(k, j) = 0
        BY <1>2, <2>2, <3>1 DEF Relaxing, Holding
      <4>2. k \in 0..Len(matrix) /\ k # 0
        BY <1>3, <2>2, <3>1
      <4>3. k \in Rows
        BY <1>3, <4>2
      <4>4. k \in linked <=> j \in done
        <5> HIDE DEF linked, done
        <5> QED BY <1>10, <2>2, <3>1
      <4> QED BY <4>1, <4>3, <4>4
    <3>3. matrix'[k][j] - u'[k] - v'[j] = 0
      <4> HIDE DEF linked, done, delta
      <4> QED BY <1>7, <1>9, <3>2
    <3> QED BY <1>1, <3>1, <3>3 DEF Reduced
  <2>3. Cols' = Cols /\ colToRow' = colToRow /\ row' = row
    BY <1>1 DEF Cols
  <2> QED BY <2>1, <2>2, <2>3, <1>2 DEF Relaxing, Holding
<1>15. Linked'
  <2>1. \A k \in done : colToRow[k] # 0
    BY <1>3, <1>4
  <2>2. ASSUME NEW k \in Rows, k > row PROVE u'[k] = 0
    <3>1. u[k] = 0
      BY <1>2, <2>2 DEF Linked
    <3>2. k \notin linked
      <4> HIDE DEF linked
      <4> QED BY <1>3, <1>10, <2>2
    <3> HIDE DEF linked, delta
    <3> QED BY <1>8, <3>1, <3>2
  <2>3. Rows' = Rows
    BY <1>1 DEF Rows
  <2>4. colToRow[0] = row
    BY <1>2 DEF Linked
  <2> HIDE DEF done
  <2> QED BY <1>1, <2>1, <2>2, <2>3, <2>4 DEF Linked
<1>16. Growing'
  <2>1. visited' = done /\ done # {} /\ 0 \in done /\ next \in Cols \ done /\ Cols' = Cols /\ curCol' = next
    <3> HIDE DEF done
    <3> QED BY <1>1, <1>4, <1>8 DEF Cols
  <2>2. ASSUME NEW j \in Cols \ done
        PROVE  /\ prev'[j] \in done
               /\ minCost'[j] = Reduced(colToRow[prev[j]], j)'
               /\ \A k \in done : minCost'[j] <= Reduced(colToRow[k], j)'
    <3>1. j \in open /\ j \in Cols
      OBVIOUS
    <3> HIDE DEF open, done, delta, linked
    <3>2. PICK p : p = prev'[j]
      OBVIOUS
    <3>3. /\ p \in done /\ dist[j] = Reduced(colToRow[p], j) /\ minCost'[j] = dist[j] - delta /\ dist[j] \in Nat
          /\ \A k \in done : dist[j] <= Reduced(colToRow[k], j)
      BY <1>5, <1>8, <3>1, <3>2
    <3>4. \A k \in done : Reduced(colToRow[k], j)' = Reduced(colToRow[k], j) - delta /\ Reduced(colToRow[k], j) \in Int
      BY <1>4, <1>12, <3>1
    <3>5. Reduced(colToRow[prev[j]], j)' = Reduced(colToRow[p], j)'
      BY <3>2 DEF Reduced
    <3>6. minCost'[j] = Reduced(colToRow[p], j)'
      BY <3>3, <3>4
    <3>7. \A k \in done : minCost'[j] <= Reduced(colToRow[k], j)'
      BY <3>3, <3>4, <1>7
    <3> QED BY <3>2, <3>3, <3>5, <3>6, <3>7
  <2> HIDE DEF done, delta, linked, open
  <2> QED BY <2>1, <2>2 DEF Growing
<1>17. \E rank \in [ColsAndZero -> Nat] :
          TightUpTo(rank)' /\ \A j \in done : rank[j] <= rank[next]
  <2>1. PICK rank \in [ColsAndZero -> Nat] : TightUpTo(rank) /\ \A j \in visited : rank[j] <= rank[curCol]
    BY <1>2 DEF Relaxing
  <2>2. PICK after : after = [rank EXCEPT ![next] = rank[curCol] + 1]
    OBVIOUS
  <2>3. /\ after \in [ColsAndZero -> Nat] /\ \A j \in done : after[j] = rank[j] /\ rank[j] \in Nat /\ rank[j] <= rank[curCol]
        /\ after[next] = rank[curCol] + 1 /\ rank[curCol] \in Nat
    <3>1. rank[curCol] \in Nat /\ next \in ColsAndZero
      BY <1>3, <1>8
    <3>2. after \in [ColsAndZero -> Nat]
      BY <2>2, <3>1
    <3>3. \A j \in done : after[j] = rank[j] /\ rank[j] \in Nat
      <4> HIDE DEF done
      <4> QED BY <1>4, <1>8, <2>2
    <3>4. \A j \in done : rank[j] <= rank[curCol]
      BY <2>1, <3>1
    <3> HIDE DEF done
    <3> QED BY <2>2, <3>1, <3>2, <3>3, <3>4
  <2>4. Reached' = (done \cup {next}) \ {0}
    BY <1>1 DEF Reached
  <2>5. ASSUME NEW j \in done, j # 0
        PROVE  /\ prev'[j] \in done /\ after[prev'[j]] < after[j]
               /\ Reduced(colToRow[prev[j]], j)' = 0
    <3>1. j \in Reached /\ j \in Cols
      BY <1>3, <2>5 DEF Reached
    <3>2. PICK p : p = prev[j]
      OBVIOUS
    <3>3. p \in visited /\ rank[p] < rank[j] /\ Reduced(colToRow[p], j) = 0
      <4>1. rank[j] <= rank[curCol]
        <5> HIDE DEF done
        <5> QED BY <2>3, <2>5
      <4> QED BY <2>1, <3>1, <3>2, <4>1 DEF TightUpTo
    <3>4. p \in done /\ prev'[j] = p
      <4>1. p \in done
        BY <3>3
      <4> HIDE DEF done
      <4> QED BY <1>8, <2>5, <3>2, <4>1
    <3> HIDE DEF done, delta, linked, open
    <3>5. Reduced(colToRow[prev[j]], j)' = Reduced(colToRow[p], j)'
      BY <3>4 DEF Reduced
    <3>6. Reduced(colToRow[p], j)' = 0
      BY <1>12, <2>5, <3>1, <3>3, <3>4
    <3> QED BY <2>3, <2>5, <3>3, <3>4, <3>5, <3>6
  <2>6. PICK n : n = next
    OBVIOUS
  <2>7. /\ prev'[n] \in done /\ after[prev'[n]] < after[n]
        /\ Reduced(colToRow[prev[n]], n)' = 0
    <3> HIDE DEF done, linked, open, next
    <3>1. PICK p : p = prev'[n]
      OBVIOUS
    <3>2. n \in open /\ p \in done /\ dist[n] = Reduced(colToRow[p], n) /\ delta = dist[n] /\ dist[n] \in Nat
      BY <1>5, <1>7, <2>6, <3>1
    <3> HIDE DEF delta
    <3>3. Reduced(colToRow[p], n)' = Reduced(colToRow[p], n) - delta
      BY <1>12, <3>2
    <3>4. Reduced(colToRow[p], n)' = 0
      BY <3>2, <3>3
    <3>5. Reduced(colToRow[prev[n]], n)' = Reduced(colToRow[p], n)'
      BY <3>1 DEF Reduced
    <3>6. after[p] < after[n]
      <4>1. after[p] \in Nat /\ after[p] <= rank[curCol] /\ after[n] = rank[curCol] + 1 /\ rank[curCol] \in Nat
        BY <2>3, <2>6, <3>2
      <4> QED BY <4>1
    <3> QED BY <3>1, <3>2, <3>4, <3>5, <3>6
  <2>8. TightUpTo(after)'
    <3>1. ASSUME NEW j \in Reached'
          PROVE  /\ prev'[j] \in visited' /\ after[prev'[j]] < after[j]
                 /\ Reduced(colToRow[prev[j]], j)' = 0
      <4>1. CASE j = n
        <5> HIDE DEF done
        <5> QED BY <1>1, <2>7, <4>1
      <4>2. CASE j # n
        <5>1. j \in done /\ j # 0
          BY <2>4, <2>6, <3>1, <4>2
        <5> HIDE DEF done
        <5> QED BY <1>1, <2>5, <5>1
      <4> QED BY <4>1, <4>2
    <3> QED BY <3>1 DEF TightUpTo
  <2>9. \A j \in done : after[j] <= after[next]
    <3> HIDE DEF done
    <3> QED BY <2>3
  <2> HIDE DEF done
  <2> QED BY <2>3, <2>8, <2>9
<1>18. ColsAndZero' = ColsAndZero /\ Cols' = Cols
  BY <1>1 DEF ColsAndZero, Cols
<1>19. CASE colToRow[next] = 0
  <2>1. solving' = "augment"
    BY <1>1, <1>19
  <2>2. Holding(Cols \ {curCol}, row - 1)'
    <3>1. PICK n : n = next
      OBVIOUS
    <3>2. curCol' = n /\ colToRow'[n] = 0 /\ row' = row /\ row \in Nat
      BY <1>1, <1>3, <1>19, <3>1
    <3> QED BY <1>14, <3>2 DEF Holding
  <2>3. curCol' \in Cols'
    BY <1>8, <1>18
  <2>4. \E rank \in [ColsAndZero' -> Nat] : TightUpTo(rank)'
    <3> HIDE DEF done
    <3> QED BY <1>17, <1>18
  <2>5. Augmenting'
    BY <2>2, <2>3, <2>4 DEF Augmenting
  <2> QED BY <1>11, <1>13, <1>15, <2>1, <2>5 DEF HInv
<1>20. CASE colToRow[next] # 0
  <2>1. solving' = "relax"
    BY <1>1, <1>20
  <2>2. colToRow'[curCol'] # 0
    BY <1>1, <1>20
  <2>3. \E rank \in [ColsAndZero' -> Nat] : TightUpTo(rank)' /\ \A j \in visited' : rank[j] <= rank[curCol']
    <3> HIDE DEF done
    <3> QED BY <1>1, <1>17, <1>18
  <2>4. Relaxing'
    BY <1>14, <1>16, <2>2, <2>3 DEF Relaxing
  <2> QED BY <1>11, <1>13, <1>15, <2>1, <2>4 DEF HInv
<1> QED BY <1>19, <1>20

(***************************************************************************)
(* The columns of the path are handed on.                                  *)
(***************************************************************************)
LEMMA AugmentStep ==
    ASSUME Proper(matrix), HInv, solving = "augment", Augment
    PROVE  HInv'
<1>1. HTypeOK /\ Feasible /\ Linked /\ Augmenting
  BY DEF HInv, Busy
<1>2. /\ Rows = 1..Len(matrix) /\ Len(matrix) \in Nat /\ Width(matrix) \in Nat
      /\ Cols = 1..Width(matrix) /\ ColsAndZero = 0..Width(matrix) /\ Cols \subseteq ColsAndZero
      /\ u \in [Rows -> Int] /\ v \in [ColsAndZero -> Int] /\ row \in Rows
      /\ colToRow \in [ColsAndZero -> 0..Len(matrix)]
      /\ curCol \in Cols /\ Len(matrix) <= Width(matrix)
  BY <1>1, MatrixTypes DEF HTypeOK, Augmenting, Cols, ColsAndZero
<1>3. PICK rank \in [ColsAndZero -> Nat] : TightUpTo(rank)
  BY <1>1 DEF Augmenting
<1>4. PICK b, c : b = prev[curCol] /\ c = curCol
  OBVIOUS
<1>5. b \in visited /\ b \in ColsAndZero /\ rank[b] < rank[c] /\ Reduced(colToRow[b], c) = 0 /\ c \in Cols /\ c # b /\ c # 0
  <2>1. c \in Reached /\ c \in Cols /\ c # 0
    BY <1>2, <1>4 DEF Reached
  <2>2. b \in visited /\ rank[b] < rank[c] /\ (rank[c] <= rank[c] => Reduced(colToRow[b], c) = 0)
    BY <1>3, <1>4, <2>1 DEF TightUpTo
  <2>3. b \in ColsAndZero /\ rank[b] \in Nat /\ rank[c] \in Nat
    BY <1>1, <1>2, <2>1, <2>2 DEF HTypeOK
  <2> QED BY <2>1, <2>2, <2>3
<1>6. PICK r : r = colToRow[b]
  OBVIOUS
<1>7. r \in Rows /\ r # 0
  <2>1. r \in 0..Len(matrix)
    BY <1>2, <1>5, <1>6
  <2>2. r # 0
    BY <1>1, <1>5, <1>6 DEF Linked
  <2> QED BY <1>2, <2>1, <2>2
<1>8. /\ matrix' = matrix /\ u' = u /\ v' = v
      /\ Rows' = Rows /\ Cols' = Cols /\ ColsAndZero' = ColsAndZero
  BY DEF Augment, dualVars, Rows, Cols, ColsAndZero
<1>9. Feasible'
  BY <1>1, <1>8 DEF Feasible, Reduced
<1>10. PICK handed : handed = [colToRow EXCEPT ![c] = r]
  OBVIOUS
<1>11. /\ handed \in [ColsAndZero -> 0..Len(matrix)] /\ handed[c] = r
       /\ \A j \in ColsAndZero \ {c} : handed[j] = colToRow[j]
  BY <1>2, <1>5, <1>7, <1>10
<1>12. /\ \A j \in Cols \ {c} : colToRow[j] \in 0..(row - 1)
       /\ \A j, k \in Cols \ {c} : colToRow[j] = colToRow[k] /\ colToRow[j] # 0 => j = k
       /\ \A i \in 1..(row - 1) : \E j \in Cols \ {c} : colToRow[j] = i
       /\ \A j \in Cols \ {c} : IF colToRow[j] = 0 THEN v[j] = 0 ELSE Reduced(colToRow[j], j) = 0
  BY <1>1, <1>4 DEF Augmenting, Holding
<1>13. CASE b # 0
  <2>1. /\ colToRow' = handed /\ curCol' = b /\ solving' = "augment" /\ row' = row
        /\ minCost' = minCost /\ visited' = visited /\ prev' = prev
    BY <1>4, <1>6, <1>10, <1>13 DEF Augment, pathVars
  <2>2. HTypeOK'
    BY <1>1, <1>5, <1>8, <1>11, <2>1 DEF HTypeOK
  <2>3. Linked'
    <3>1. 0 \in ColsAndZero \ {c}
      BY <1>2, <1>5
    <3>2. \A k \in visited : handed[k] # 0
      <4>1. \A k \in visited : k \in ColsAndZero /\ colToRow[k] # 0
        BY <1>1 DEF HTypeOK, Linked
      <4> QED BY <4>1, <1>11, <1>7
    <3> QED BY <1>1, <1>8, <1>11, <2>1, <3>1, <3>2 DEF Linked
  <2>4. b \in Cols
    BY <1>2, <1>5, <1>13
  <2>5. r \in 0..(row - 1)
    BY <1>5, <1>6, <1>12, <2>4
  <2>6. Holding(Cols \ {curCol}, row - 1)'
    <3>1. \A j \in Cols \ {b} : handed[j] \in 0..(row - 1)
      BY <1>2, <1>11, <1>12, <2>5
    <3>2. ASSUME NEW j \in Cols \ {b}, NEW k \in Cols \ {b}, handed[j] = handed[k], handed[j] # 0 PROVE j = k
      <4>1. CASE j = c /\ k # c
        <5>1. colToRow[k] = colToRow[b] /\ colToRow[k] # 0
          BY <1>2, <1>6, <1>11, <3>2, <4>1
        <5> QED BY <1>5, <1>12, <2>4, <3>2, <4>1, <5>1
      <4>2. CASE k = c /\ j # c
        <5>1. colToRow[j] = colToRow[b] /\ colToRow[j] # 0
          BY <1>2, <1>6, <1>11, <3>2, <4>2
        <5> QED BY <1>5, <1>12, <2>4, <3>2, <4>2, <5>1
      <4>3. CASE j # c /\ k # c
        BY <1>2, <1>11, <1>12, <3>2, <4>3
      <4> QED BY <4>1, <4>2, <4>3
    <3>3. ASSUME NEW i \in 1..(row - 1) PROVE \E j \in Cols \ {b} : handed[j] = i
      <4>1. PICK j \in Cols \ {c} : colToRow[j] = i
        BY <1>12
      <4>2. CASE j = b
        BY <1>5, <1>6, <1>11, <4>1, <4>2
      <4>3. CASE j # b
        BY <1>2, <1>11, <4>1, <4>3
      <4> QED BY <4>2, <4>3
    <3>4. \A j \in Cols \ {b} : IF handed[j] = 0 THEN v[j] = 0 ELSE Reduced(handed[j], j) = 0
      <4>1. Reduced(handed[c], c) = 0 /\ handed[c] # 0
        BY <1>5, <1>6, <1>7, <1>11
      <4>2. \A j \in Cols \ {c} : handed[j] = colToRow[j]
        BY <1>2, <1>11
      <4> QED BY <1>12, <4>1, <4>2
    <3>5. \A j \in Cols \ {b} : IF handed[j] = 0 THEN v'[j] = 0 ELSE matrix'[handed[j]][j] - u'[handed[j]] - v'[j] = 0
      BY <3>4, <1>8 DEF Reduced
    <3> QED BY <1>8, <2>1, <3>1, <3>2, <3>3, <3>5 DEF Holding, Reduced
  <2>7. TightUpTo(rank)'
    <3>1. Reached' \subseteq Reached
      BY <1>5, <2>1 DEF Reached
    <3>2. ASSUME NEW j \in Reached, rank[j] <= rank[b]
          PROVE  Reduced(handed[prev[j]], j) = 0
      <4>1. /\ prev[j] \in visited /\ prev[j] \in ColsAndZero /\ rank[prev[j]] < rank[j]
            /\ rank[j] \in Nat /\ rank[prev[j]] \in Nat /\ rank[b] \in Nat /\ rank[c] \in Nat
        <5>1. prev[j] \in visited /\ rank[prev[j]] < rank[j]
          BY <1>3, <3>2 DEF TightUpTo
        <5>2. prev[j] \in ColsAndZero /\ j \in ColsAndZero
          BY <1>1, <1>2, <5>1 DEF HTypeOK, Reached
        <5> QED BY <1>2, <1>5, <5>1, <5>2
      <4>2. prev[j] # c
        BY <1>5, <3>2, <4>1
      <4>3. handed[prev[j]] = colToRow[prev[j]]
        BY <1>11, <4>1, <4>2
      <4>4. rank[j] <= rank[curCol]
        BY <1>4, <1>5, <3>2, <4>1
      <4>5. Reduced(colToRow[prev[j]], j) = 0
        BY <1>3, <4>4 DEF TightUpTo
      <4> QED BY <4>3, <4>5
    <3>3. \A j \in Reached : prev[j] \in visited /\ rank[prev[j]] < rank[j]
      BY <1>3 DEF TightUpTo
    <3>4. \A j \in Reached : rank[j] <= rank[b] => matrix'[handed[prev[j]]][j] - u'[handed[prev[j]]] - v'[j] = 0
      BY <3>2, <1>8 DEF Reduced
    <3> QED BY <2>1, <3>1, <3>3, <3>4 DEF TightUpTo, Reduced
  <2>8. Augmenting'
    BY <1>8, <2>1, <2>4, <2>6, <2>7 DEF Augmenting
  <2> QED BY <1>9, <2>1, <2>2, <2>3, <2>8 DEF HInv
<1>14. ASSUME b = 0
       PROVE  /\ \A j \in Cols : handed[j] \in 0..row
              /\ \A j, k \in Cols : handed[j] = handed[k] /\ handed[j] # 0 => j = k
              /\ \A i \in 1..row : \E j \in Cols : handed[j] = i
              /\ \A j \in Cols : IF handed[j] = 0 THEN v[j] = 0 ELSE Reduced(handed[j], j) = 0
  <2>1. r = row /\ row \in Nat /\ row # 0
    BY <1>1, <1>2, <1>6, <1>14 DEF Linked
  <2>2. \A j \in Cols \ {c} : handed[j] = colToRow[j] /\ handed[j] \in 0..(row - 1) /\ handed[j] # row /\ handed[j] \in 0..row
    <3>1. \A j \in Cols \ {c} : handed[j] = colToRow[j] /\ handed[j] \in 0..(row - 1)
      BY <1>2, <1>11, <1>12
    <3> QED BY <2>1, <3>1
  <2>3. handed[c] = row /\ handed[c] \in 0..row
    BY <1>11, <2>1
  <2>4. \A j \in Cols : handed[j] \in 0..row
    BY <2>2, <2>3
  <2>5. \A j, k \in Cols : handed[j] = handed[k] /\ handed[j] # 0 => j = k
    BY <1>12, <2>2, <2>3
  <2>6. \A i \in 1..row : \E j \in Cols : handed[j] = i
    <3>1. \A i \in 1..row : i = row \/ i \in 1..(row - 1)
      BY <2>1
    <3> QED BY <1>5, <1>12, <2>2, <2>3, <3>1
  <2>7. \A j \in Cols : IF handed[j] = 0 THEN v[j] = 0 ELSE Reduced(handed[j], j) = 0
    <3>1. Reduced(handed[c], c) = 0 /\ handed[c] # 0
      BY <1>5, <1>6, <1>7, <1>11
    <3> QED BY <1>12, <2>2, <3>1
  <2> QED BY <2>4, <2>5, <2>6, <2>7
<1>15. CASE b = 0 /\ row = Len(matrix)
  <2>1. /\ colToRow' = handed /\ curCol' = 0 /\ solving' = "assigned" /\ row' = row
        /\ minCost' = minCost /\ visited' = visited /\ prev' = prev
    BY <1>4, <1>6, <1>10, <1>15 DEF Augment, pathVars
  <2>2. HTypeOK'
    BY <1>1, <1>2, <1>8, <1>11, <2>1 DEF HTypeOK
  <2>3. \A j \in Cols : IF handed[j] = 0 THEN v'[j] = 0 ELSE matrix'[handed[j]][j] - u'[handed[j]] - v'[j] = 0
    BY <1>8, <1>14, <1>15 DEF Reduced
  <2>4. Holding(Cols, Len(matrix))'
    BY <1>8, <1>14, <1>15, <2>1, <2>3 DEF Holding, Reduced
  <2> QED BY <1>9, <2>1, <2>2, <2>4 DEF HInv
<1>16. CASE b = 0 /\ row # Len(matrix)
  <2>1. /\ row' = row + 1 /\ colToRow' = [handed EXCEPT ![0] = row + 1]
        /\ minCost' = [j \in ColsAndZero |-> Inf] /\ visited' = {} /\ prev' = Zeros(ColsAndZero)
        /\ curCol' = 0 /\ solving' = "relax"
    BY <1>4, <1>6, <1>10, <1>16 DEF Augment, FreshPath
  <2>2. row + 1 \in Rows /\ (row + 1) - 1 = row /\ row \in Nat
    BY <1>2, <1>16
  <2>3. /\ colToRow' \in [ColsAndZero -> 0..Len(matrix)] /\ colToRow'[0] = row + 1
        /\ \A j \in Cols : colToRow'[j] = handed[j]
    <3>1. 0 \in ColsAndZero /\ 0 \notin Cols /\ row + 1 \in 0..Len(matrix)
      BY <1>2, <2>2
    <3> QED BY <1>2, <1>11, <2>1, <3>1
  <2>4. HTypeOK'
    <3>1. 0 \in ColsAndZero
      BY <1>2
    <3>2. minCost' \in [ColsAndZero -> Int] /\ prev' \in [ColsAndZero -> ColsAndZero]
      BY <2>1, <3>1, InfAssumption DEF Zeros
    <3> QED BY <1>2, <1>8, <2>1, <2>2, <2>3, <3>1, <3>2 DEF HTypeOK
  <2>5. u[row + 1] = 0
    BY <1>1, <2>2 DEF Linked
  <2>6. Linked'
    <3>1. \A i \in Rows : i > row + 1 => u[i] = 0
      <4>1. \A i \in Rows : i > row + 1 => i > row
        BY <1>2
      <4> QED BY <1>1, <4>1 DEF Linked
    <3> QED BY <1>8, <2>1, <2>3, <3>1 DEF Linked
  <2>7. \A j \in Cols : IF handed[j] = 0 THEN v'[j] = 0 ELSE matrix'[handed[j]][j] - u'[handed[j]] - v'[j] = 0
    BY <1>8, <1>14, <1>16 DEF Reduced
  <2>8. Holding(Cols, row - 1)'
    BY <1>8, <1>14, <1>16, <2>1, <2>2, <2>3, <2>7 DEF Holding, Reduced
  <2>9. Growing'
    BY <1>2, <1>8, <2>1, <2>5 DEF Growing
  <2>10. PICK zero : zero = [j \in ColsAndZero |-> 0]
    OBVIOUS
  <2>11. zero \in [ColsAndZero -> Nat] /\ TightUpTo(zero)' /\ \A j \in visited' : zero[j] <= zero[curCol']
    BY <2>1, <2>10 DEF TightUpTo, Reached
  <2>12. Relaxing'
    <3>1. colToRow'[curCol'] # 0
      BY <2>1, <2>2, <2>3
    <3> QED BY <1>8, <2>8, <2>9, <2>11, <3>1 DEF Relaxing
  <2> QED BY <1>9, <2>1, <2>4, <2>6, <2>12 DEF HInv
<1> QED BY <1>13, <1>15, <1>16

----------------------------------------------------------------------------
(***************************************************************************)
(* The calls.                                                              *)
(***************************************************************************)

\* What is placed and what is brought home only calls the algorithm, or lets it be.
LEMMA CallsAssign ==
    ASSUME TargetsNext
    PROVE  HungarianNext \/ (\E m : Assign(m)) \/ UNCHANGED hungarianVars
<1>1. CASE Nothing
  BY <1>1 DEF Nothing
<1>2. CASE TooMany
  BY <1>2 DEF TooMany
<1>3. CASE Begin
  BY <1>3 DEF Begin
<1>4. CASE Iterate
  BY <1>4 DEF Iterate
<1>5. CASE Assigning
  BY <1>5 DEF Assigning
<1>6. CASE Assigned
  BY <1>6 DEF Assigned
<1>7. CASE Rebalance
  BY <1>7 DEF Rebalance
<1>8. CASE Detect
  BY <1>8 DEF Detect
<1>9. CASE Repair
  BY <1>9 DEF Repair
<1>10. CASE Repaired
  BY <1>10 DEF Repaired
<1>11. CASE LayOutNearest
  BY <1>11 DEF LayOutNearest
<1>12. CASE LayOut
  BY <1>12 DEF LayOut
<1>13. CASE LayingOut
  BY <1>13 DEF LayingOut
<1>14. CASE LayOutNext
  BY <1>14 DEF LayOutNext
<1>15. CASE LaidOut
  BY <1>15 DEF LaidOut
<1> QED
  BY <1>1, <1>2, <1>3, <1>4, <1>5, <1>6, <1>7, <1>8, <1>9, <1>10, <1>11, <1>12, <1>13, <1>14, <1>15
     DEF TargetsNext, ReturnNext, EntanglingNext

LEMMA HungarianUnchanged ==
    ASSUME HInv, UNCHANGED hungarianVars
    PROVE  HInv'
<1>1. /\ matrix' = matrix /\ u' = u /\ v' = v /\ colToRow' = colToRow /\ row' = row
      /\ minCost' = minCost /\ visited' = visited /\ prev' = prev /\ curCol' = curCol /\ solving' = solving
  BY DEF hungarianVars, dualVars, pathVars
<1>2. /\ HTypeOK' <=> HTypeOK
      /\ Feasible' <=> Feasible
      /\ Linked' <=> Linked
      /\ Holding(Cols, Len(matrix))' <=> Holding(Cols, Len(matrix))
  BY <1>1 DEF HTypeOK, Feasible, Linked, Holding, Reduced, Rows, Cols, ColsAndZero
<1>3. Relaxing' <=> Relaxing
  BY <1>1 DEF Relaxing, Holding, Growing, TightUpTo, Reached, Reduced, Cols, ColsAndZero
<1>4. Augmenting' <=> Augmenting
  BY <1>1 DEF Augmenting, Holding, TightUpTo, Reached, Reduced, Cols, ColsAndZero
<1> QED BY <1>1, <1>2, <1>3, <1>4 DEF HInv, Busy

\* The duals, the columns' rows and the path are right as long as a matrix is one
\* the code builds.
THEOREM HungarianInvariant == TargetsSpec => [](Proper(matrix) => HInv)
<1>1. TargetsInit => (Proper(matrix) => HInv)
  BY DEF TargetsInit, ReturnInit, EntanglingInit, HungarianIdle, HInv, Busy
<1>2. ASSUME Proper(matrix) => HInv, [TargetsNext]_<<entanglingVars, hungarianVars, layoutVars>>
      PROVE  (Proper(matrix) => HInv)'
  <2> SUFFICES ASSUME Proper(matrix') PROVE HInv'
    BY DEF Proper, Width
  <2>1. HungarianNext \/ (\E m : Assign(m)) \/ UNCHANGED hungarianVars
    BY <1>2, CallsAssign
  <2>2. CASE HungarianNext
    <3>1. matrix' = matrix
      BY <2>2 DEF HungarianNext, Relax, Augment
    <3>2. HInv /\ Proper(matrix)
      BY <1>2, <3>1
    <3>3. CASE Relax
      BY <3>2, <3>3, RelaxStep DEF Relax
    <3>4. CASE Augment
      BY <3>2, <3>4, AugmentStep DEF Augment
    <3> QED BY <2>2, <3>3, <3>4 DEF HungarianNext
  <2>3. CASE \E m : Assign(m)
    BY <2>3, AssignStep
  <2>4. CASE UNCHANGED hungarianVars
    <3>1. Proper(matrix)
      BY <2>4 DEF hungarianVars
    <3> QED BY <1>2, <2>4, <3>1, HungarianUnchanged
  <2> QED BY <2>1, <2>2, <2>3, <2>4
<1> QED BY <1>1, <1>2, PTL DEF TargetsSpec

----------------------------------------------------------------------------
(***************************************************************************)
(* The choice is at least cost.                                            *)
(***************************************************************************)
LEMMA PriceIsSum ==
    ASSUME Proper(matrix), NEW choice \in [Rows -> Cols], NEW F,
           Sums(F, [i \in 1..Len(matrix) |-> matrix[i][choice[i]]], Len(matrix))
    PROVE  Price(choice) = F[Len(matrix)]
<1> DEFINE Step(g, i) == IF i = 0 THEN 0 ELSE g[i - 1] + matrix[i][choice[i]]
           Solves(g) == g = [i \in 0..Len(matrix) |-> Step(g, i)]
           G == CHOOSE g : Solves(g)
<1>1. Len(matrix) \in Nat
  BY MatrixTypes
<1>2. Solves(F)
  <2>1. F \in [0..Len(matrix) -> Int] /\ F[0] = 0 /\ \A k \in 1..Len(matrix) : F[k] = F[k - 1] + matrix[k][choice[k]]
    BY DEF Sums
  <2>2. \A k \in 0..Len(matrix) : k = 0 \/ k \in 1..Len(matrix)
    BY <1>1
  <2>3. \A k \in 0..Len(matrix) : F[k] = Step(F, k)
    BY <2>1, <2>2
  <2> HIDE DEF Step
  <2> QED BY <2>1, <2>3
<1>3. Solves(G)
  <2> HIDE DEF Solves
  <2> QED BY <1>2
<1>4. Price(choice) = G[Len(matrix)]
  BY DEF Price
<1> HIDE DEF G
<1> DEFINE S == {m \in Nat : m <= Len(matrix) => G[m] = F[m]}
<1>5. \A k \in 0..Len(matrix) : G[k] = Step(G, k) /\ F[k] = Step(F, k)
  <2>1. \A k \in 0..Len(matrix) : G[k] = Step(G, k)
    <3> HIDE DEF Step
    <3> QED BY <1>3
  <2>2. \A k \in 0..Len(matrix) : F[k] = Step(F, k)
    <3> HIDE DEF Step
    <3> QED BY <1>2
  <2> HIDE DEF Step
  <2> QED BY <2>1, <2>2
<1>6. 0 \in S
  BY <1>1, <1>5
<1>7. ASSUME NEW m \in Nat, m \in S PROVE m + 1 \in S
  <2> SUFFICES ASSUME m + 1 <= Len(matrix) PROVE G[m + 1] = F[m + 1]
    OBVIOUS
  <2>1. m + 1 \in 0..Len(matrix) /\ m + 1 # 0 /\ (m + 1) - 1 = m /\ G[m] = F[m]
    BY <1>1, <1>7
  <2> QED BY <1>5, <2>1
<1>8. Len(matrix) \in S
  <2> HIDE DEF S
  <2> QED BY <1>1, <1>6, <1>7, Induction
<1> QED BY <1>1, <1>4, <1>8

\* What a choice costs is no less than the duals of all rows and of its columns,
\* and as much when its cells are tight.
LEMMA PriceFromDuals ==
    ASSUME Proper(matrix), HTypeOK, Feasible, NEW c \in OwnColumns,
           NEW U, Sums(U, u, Len(matrix)),
           NEW X, Sums(X, [i \in 1..Len(matrix) |-> v[c[i]]], Len(matrix))
    PROVE  /\ Price(c) >= U[Len(matrix)] + X[Len(matrix)]
           /\ (\A i \in Rows : Reduced(i, c[i]) = 0) => Price(c) = U[Len(matrix)] + X[Len(matrix)]
<1>1. PICK n : n = Len(matrix)
  OBVIOUS
<1>2. /\ n \in Nat /\ Rows = 1..n /\ c \in [1..n -> Cols] /\ Cols \subseteq ColsAndZero
      /\ u \in [1..n -> Int] /\ v \in [ColsAndZero -> Int]
      /\ \A i \in 1..n, j \in Cols : matrix[i][j] \in Nat
  <2>1. /\ n \in Nat /\ Rows = 1..n /\ Width(matrix) \in Nat
        /\ \A i \in Rows, j \in Cols : matrix[i][j] \in Nat
    BY <1>1, MatrixTypes
  <2>2. Cols \subseteq ColsAndZero
    BY <2>1 DEF Cols, ColsAndZero
  <2>3. c \in [Rows -> Cols]
    BY DEF OwnColumns
  <2>4. u \in [Rows -> Int] /\ v \in [ColsAndZero -> Int]
    BY DEF HTypeOK
  <2> QED BY <2>1, <2>2, <2>3, <2>4
<1>3. PICK x, p, s : /\ x = [i \in 1..n |-> v[c[i]]]
                     /\ p = [i \in 1..n |-> matrix[i][c[i]]]
                     /\ s = [i \in 1..n |-> u[i] + v[c[i]]]
  OBVIOUS
<1>4. \A i \in 1..n : /\ c[i] \in Cols /\ u[i] \in Int /\ v[c[i]] \in Int /\ matrix[i][c[i]] \in Int
                      /\ x[i] = v[c[i]] /\ p[i] = matrix[i][c[i]] /\ s[i] = u[i] + x[i]
                      /\ Reduced(i, c[i]) = matrix[i][c[i]] - u[i] - v[c[i]] /\ Reduced(i, c[i]) >= 0
  <2> SUFFICES ASSUME NEW i \in 1..n
               PROVE  /\ c[i] \in Cols /\ u[i] \in Int /\ v[c[i]] \in Int /\ matrix[i][c[i]] \in Int
                      /\ x[i] = v[c[i]] /\ p[i] = matrix[i][c[i]] /\ s[i] = u[i] + x[i]
                      /\ Reduced(i, c[i]) = matrix[i][c[i]] - u[i] - v[c[i]] /\ Reduced(i, c[i]) >= 0
    OBVIOUS
  <2>1. c[i] \in Cols /\ c[i] \in ColsAndZero
    BY <1>2
  <2>2. u[i] \in Int /\ v[c[i]] \in Int /\ matrix[i][c[i]] \in Int
    BY <1>2, <2>1
  <2>3. Reduced(i, c[i]) >= 0
    BY <1>2, <2>1 DEF Feasible
  <2>4. x[i] = v[c[i]] /\ p[i] = matrix[i][c[i]] /\ s[i] = u[i] + x[i]
    BY <1>3
  <2> QED BY <2>1, <2>2, <2>3, <2>4 DEF Reduced
<1>5. x \in [1..n -> Int] /\ p \in [1..n -> Int] /\ s \in [1..n -> Int]
  <2>1. \A i \in 1..n : v[c[i]] \in Int /\ matrix[i][c[i]] \in Int /\ u[i] + v[c[i]] \in Int
    BY <1>4
  <2> QED BY <1>3, <2>1
<1>6. PICK P : Sums(P, p, n)
  BY <1>2, <1>5, SumsExist
<1>7. PICK Q : Sums(Q, s, n)
  BY <1>2, <1>5, SumsExist
<1>8. Sums(U, u, n) /\ Sums(X, x, n)
  BY <1>1, <1>3
<1>9. Price(c) = P[n]
  BY <1>1, <1>2, <1>3, <1>6, PriceIsSum
<1>10. Q[n] = U[n] + X[n]
  <2>1. n \in Nat /\ u \in [1..n -> Int] /\ \A i \in 1..n : s[i] = u[i] + x[i]
    BY <1>2, <1>4
  <2>2. /\ s \in [1..n -> Int] /\ u \in [1..n -> Int] /\ x \in [1..n -> Int]
        => \A F, G, H :
              /\ Sums(F, s, n) /\ Sums(G, u, n) /\ Sums(H, x, n)
              /\ \A k \in 1..n : s[k] = u[k] + x[k]
              => F[n] = G[n] + H[n]
    BY <2>1, SumsAdd, Zenon
  <2>3. \A F, G, H : /\ Sums(F, s, n) /\ Sums(G, u, n) /\ Sums(H, x, n)
                     /\ \A k \in 1..n : s[k] = u[k] + x[k]
                     => F[n] = G[n] + H[n]
    BY <2>1, <2>2, <1>5, Zenon
  <2>4. Sums(Q, s, n) /\ Sums(U, u, n) /\ Sums(X, x, n) /\ \A k \in 1..n : s[k] = u[k] + x[k]
    BY <2>1, <1>7, <1>8, Zenon
  <2> QED BY <2>3, <2>4
<1>11. \A i \in 1..n : s[i] <= p[i] /\ (Reduced(i, c[i]) = 0 => p[i] <= s[i])
  BY <1>4
<1>12. Q[n] <= P[n]
  BY <1>2, <1>5, <1>6, <1>7, <1>11, SumsMonotone
<1>13. ASSUME \A i \in Rows : Reduced(i, c[i]) = 0 PROVE P[n] <= Q[n]
  <2>1. \A i \in 1..n : p[i] <= s[i]
    BY <1>2, <1>11, <1>13
  <2> QED BY <1>2, <1>5, <1>6, <1>7, <2>1, SumsMonotone
<1>14. P[n] \in Int /\ Q[n] \in Int
  BY <1>2, <1>6, <1>7 DEF Sums
<1> QED BY <1>1, <1>9, <1>10, <1>12, <1>13, <1>14

LEMMA AssignedIsOptimal ==
    ASSUME Proper(matrix), HInv
    PROVE  AssignmentOptimal
<1> SUFFICES ASSUME solving = "assigned"
             PROVE  /\ ColumnOf \in OwnColumns
                    /\ \A c \in OwnColumns : Price(ColumnOf) <= Price(c)
  BY DEF AssignmentOptimal
<1>1. HTypeOK /\ Feasible /\ Holding(Cols, Len(matrix))
  BY DEF HInv, Busy
<1>2. PICK n, w : n = Len(matrix) /\ w = Width(matrix)
  OBVIOUS
<1>3. /\ n \in Nat /\ w \in Nat /\ Rows = 1..n /\ Cols = 1..w /\ u \in [1..n -> Int]
      /\ v \in [0..w -> Int] /\ \A j \in Cols : v[j] \in Int /\ v[j] <= 0
  <2>1. n \in Nat /\ w \in Nat /\ Rows = 1..n /\ Cols = 1..w
    BY <1>2, MatrixTypes DEF Cols
  <2>2. u \in [1..n -> Int] /\ v \in [0..w -> Int]
    BY <1>1, <1>2, <2>1 DEF HTypeOK, ColsAndZero
  <2>3. \A j \in Cols : j \in 0..w
    BY <2>1
  <2> QED BY <1>1, <2>1, <2>2, <2>3 DEF Feasible
<1>4. /\ \A i \in Rows : \E j \in Cols : colToRow[j] = i
      /\ \A j, k \in Cols : colToRow[j] = colToRow[k] /\ colToRow[j] # 0 => j = k
      /\ \A j \in Cols : colToRow[j] # 0 => Reduced(colToRow[j], j) = 0
      /\ \A j \in Cols : colToRow[j] \in 0..n
      /\ \A j \in Cols : colToRow[j] = 0 => v[j] = 0
  BY <1>1, <1>2, <1>3 DEF Holding
<1>5. \A i \in Rows : ColumnOf[i] \in Cols /\ colToRow[ColumnOf[i]] = i
  BY <1>4 DEF ColumnOf
<1>6. ColumnOf \in OwnColumns
  <2>1. ColumnOf \in [Rows -> Cols]
    BY <1>5 DEF ColumnOf
  <2>2. \A i, k \in Rows : ColumnOf[i] = ColumnOf[k] => i = k
    <3>1. ASSUME NEW i \in Rows, NEW k \in Rows, ColumnOf[i] = ColumnOf[k] PROVE i = k
      <4>1. colToRow[ColumnOf[i]] = i /\ colToRow[ColumnOf[k]] = k
        BY <1>5
      <4> QED BY <3>1, <4>1
    <3> QED BY <3>1
  <2> QED BY <2>1, <2>2 DEF OwnColumns
<1>7. \A i \in Rows : Reduced(i, ColumnOf[i]) = 0
  <2>1. ASSUME NEW i \in Rows PROVE Reduced(i, ColumnOf[i]) = 0
    <3>1. i # 0
      BY <1>3
    <3> QED BY <1>4, <1>5, <3>1
  <2> QED BY <2>1
<1>8. \A j \in Cols : v[j] = 0 \/ \E i \in Rows : ColumnOf[i] = j
  <2>1. ASSUME NEW j \in Cols, v[j] # 0 PROVE \E i \in Rows : ColumnOf[i] = j
    <3>1. PICK i : i = colToRow[j]
      OBVIOUS
    <3>2. i \in Rows /\ i # 0
      <4>1. i \in 0..n /\ i # 0
        BY <1>4, <2>1, <3>1
      <4> QED BY <1>3, <4>1
    <3>3. ColumnOf[i] = j
      BY <1>4, <1>5, <3>1, <3>2
    <3> QED BY <3>2, <3>3
  <2> QED BY <2>1
<1>9. PICK d : d = [j \in 1..w |-> v[j]]
  OBVIOUS
<1>10. d \in [1..w -> Int] /\ \A j \in 1..w : d[j] <= 0 /\ d[j] = v[j]
  BY <1>3, <1>9
<1>11. PICK D : Sums(D, d, w)
  BY <1>3, <1>10, SumsExist
<1>12. PICK U : Sums(U, u, n)
  BY <1>3, SumsExist
<1>13. ASSUME NEW c \in OwnColumns
       PROVE  /\ Price(c) \in Int /\ Price(c) >= U[n] + D[w]
              /\ (/\ \A i \in Rows : Reduced(i, c[i]) = 0
                  /\ \A j \in Cols : v[j] = 0 \/ \E i \in Rows : c[i] = j)
                 => Price(c) = U[n] + D[w]
  <2>1. c \in [1..n -> 1..w] /\ \A i, k \in 1..n : c[i] = c[k] => i = k
    BY <1>3 DEF OwnColumns
  <2>2. PICK x : x = [i \in 1..n |-> d[c[i]]]
    OBVIOUS
  <2>3. x \in [1..n -> Int]
    BY <1>10, <2>1, <2>2
  <2>4. PICK X : Sums(X, x, n)
    BY <1>3, <2>3, SumsExist
  <2>5. [i \in 1..Len(matrix) |-> v[c[i]]] = x
    BY <1>2, <1>10, <2>1, <2>2
  <2>6. /\ Price(c) >= U[n] + X[n]
        /\ (\A i \in Rows : Reduced(i, c[i]) = 0) => Price(c) = U[n] + X[n]
    BY <1>1, <1>2, <1>12, <2>4, <2>5, PriceFromDuals
  <2>7. /\ X[n] >= D[w]
        /\ (\A j \in 1..w : d[j] = 0 \/ \E i \in 1..n : c[i] = j) => X[n] = D[w]
    <3>1. /\ c \in [1..n -> 1..w] /\ d \in [1..w -> Int]
          => \A F, G :
               /\ \A i, k \in 1..n : c[i] = c[k] => i = k
               /\ \A j \in 1..w : d[j] <= 0
               /\ Sums(F, d, w) /\ Sums(G, [i \in 1..n |-> d[c[i]]], n)
               => /\ G[n] >= F[w]
                  /\ (\A j \in 1..w : d[j] = 0 \/ \E i \in 1..n : c[i] = j) => G[n] = F[w]
      BY <1>3, ChosenDuals, ZenonT(60)
    <3>2. \A j \in 1..w : d[j] <= 0
      BY <1>10
    <3>3. Sums(X, [i \in 1..n |-> d[c[i]]], n)
      BY <2>2, <2>4
    <3> QED BY <1>10, <1>11, <2>1, <3>1, <3>2, <3>3, Zenon
  <2>8. U[n] \in Int /\ X[n] \in Int /\ D[w] \in Int
    BY <1>3, <1>11, <1>12, <2>4 DEF Sums
  <2>9. Price(c) \in Int
    <3>1. PICK p : p = [i \in 1..n |-> matrix[i][c[i]]]
      OBVIOUS
    <3>2. \A i \in 1..n : matrix[i][c[i]] \in Int
      <4>1. \A i \in Rows, j \in Cols : matrix[i][j] \in Int
        BY MatrixTypes
      <4>2. \A i \in 1..n : c[i] \in Cols
        BY <1>3, <2>1
      <4> QED BY <1>3, <4>1, <4>2
    <3>3. PICK P : Sums(P, p, n)
      <4>1. p \in [1..n -> Int]
        BY <3>1, <3>2
      <4> QED BY <1>3, <4>1, SumsExist
    <3>4. Price(c) = P[n]
      BY <1>2, <1>3, <2>1, <3>1, <3>3, PriceIsSum
    <3> QED BY <1>3, <3>3, <3>4 DEF Sums
  <2>10. (\A j \in Cols : v[j] = 0 \/ \E i \in Rows : c[i] = j) => X[n] = D[w]
    BY <1>3, <1>10, <2>7
  <2> QED BY <2>6, <2>7, <2>8, <2>9, <2>10
<1>14. Price(ColumnOf) = U[n] + D[w]
  BY <1>6, <1>7, <1>8, <1>13
<1> QED BY <1>6, <1>13, <1>14

\* hungarian (entangling.rs): whatever the costs and however often rows give their
\* columns up, the assignment that is returned gives every row a column of its own
\* and no other is cheaper, in every placement and every return layout.
THEOREM AssignmentTheorem == TargetsSpec => [](Proper(matrix) => AssignmentOptimal)
<1>1. (Proper(matrix) => HInv) => (Proper(matrix) => AssignmentOptimal)
  BY AssignedIsOptimal
<1> QED BY <1>1, HungarianInvariant, PTL

(***************************************************************************)
(* Lists in order.                                                         *)
(***************************************************************************)

\* Numbers by size.
LEMMA NumbersInOrder ==
    ASSUME NEW S \in SUBSET Int, IsFiniteSet(S)
    PROVE  SortedBy(InOrder(S, <), S, {x \in S \X S : x[1] < x[2]})
<1> DEFINE R == {x \in S \X S : x[1] < x[2]}
           t == InOrder(S, <)
           Under == [x \in S |-> Cardinality({y \in S : <<y, x>> \in R})]
<1>1. \A x, y \in S : <<x, y>> \in R <=> x < y
  OBVIOUS
<1>2. t = [k \in 1..Cardinality(S) |-> CHOOSE x \in S : Cardinality({y \in S : y < x}) = k - 1]
  BY DEF InOrder
<1>3. ASSUME NEW x \in S PROVE Under[x] = Cardinality({y \in S : y < x})
  <2>1. {y \in S : <<y, x>> \in R} = {y \in S : y < x}
    BY <1>1
  <2> HIDE DEF R
  <2> QED BY <2>1
<1>4. ASSUME NEW k \in 1..Cardinality(S), NEW x \in S, Under[x] = k - 1
      PROVE  t[k] \in S /\ Under[t[k]] = k - 1
  <2>1. Cardinality({y \in S : y < x}) = k - 1
    BY <1>3, <1>4
  <2>2. t[k] = CHOOSE z \in S : Cardinality({y \in S : y < z}) = k - 1
    BY <1>2
  <2> HIDE DEF t
  <2>3. t[k] \in S /\ Cardinality({y \in S : y < t[k]}) = k - 1
    BY <2>1, <2>2
  <2> HIDE DEF Under
  <2> QED BY <2>3, <1>3
<1>5. Orders(S, R)
  <2>1. S \subseteq Int
    OBVIOUS
  <2> HIDE DEF R
  <2>2. \A x \in S : <<x, x>> \notin R
    BY <1>1, <2>1
  <2>3. \A x, y, z \in S : <<x, y>> \in R /\ <<y, z>> \in R => <<x, z>> \in R
    BY <1>1, <2>1
  <2>4. \A x, y \in S : x # y => <<x, y>> \in R \/ <<y, x>> \in R
    BY <1>1, <2>1
  <2> QED BY <2>2, <2>3, <2>4 DEF Orders
<1>6. t = [k \in 1..Cardinality(S) |-> t[k]]
  BY <1>2
<1>7. \A x \in S : Under[x] = Cardinality({y \in S : <<y, x>> \in R})
  OBVIOUS
<1>8. SortedBy(t, S, R)
  <2> HIDE DEF t, Under, R
  <2> QED BY <1>4, <1>5, <1>6, <1>7, SortedByRank
<1> QED BY <1>8

\* Pairs by their lower atom.
LEMMA PairsInOrder ==
    ASSUME NEW S \in SUBSET (Nat \X Nat), IsFiniteSet(S)
    PROVE  InOrder(S, Ordered) \in Seq(S) /\ Entries(InOrder(S, Ordered)) \subseteq S
<1> DEFINE R == {x \in S \X S : Ordered(x[1], x[2])}
           t == InOrder(S, Ordered)
           Under == [x \in S |-> Cardinality({y \in S : <<y, x>> \in R})]
<1>1. \A x, y \in S : <<x, y>> \in R <=> Ordered(x, y)
  <2> HIDE DEF Ordered
  <2> QED OBVIOUS
<1>2. t = [k \in 1..Cardinality(S) |-> CHOOSE x \in S : Cardinality({y \in S : Ordered(y, x)}) = k - 1]
  BY DEF InOrder
<1>3. ASSUME NEW x \in S PROVE Under[x] = Cardinality({y \in S : Ordered(y, x)})
  <2>1. {y \in S : <<y, x>> \in R} = {y \in S : Ordered(y, x)}
    BY <1>1
  <2> HIDE DEF R
  <2> QED BY <2>1
<1>4. ASSUME NEW k \in 1..Cardinality(S), NEW x \in S, Under[x] = k - 1
      PROVE  t[k] \in S /\ Under[t[k]] = k - 1
  <2>1. Cardinality({y \in S : Ordered(y, x)}) = k - 1
    BY <1>3, <1>4
  <2>2. t[k] = CHOOSE z \in S : Cardinality({y \in S : Ordered(y, z)}) = k - 1
    BY <1>2
  <2> HIDE DEF t
  <2>3. t[k] \in S /\ Cardinality({y \in S : Ordered(y, t[k])}) = k - 1
    BY <2>1, <2>2
  <2> HIDE DEF Under
  <2> QED BY <2>3, <1>3
<1>5. Orders(S, R)
  <2>1. \A x \in S : x[1] \in Nat /\ x[2] \in Nat /\ x = <<x[1], x[2]>>
    OBVIOUS
  <2> HIDE DEF R
  <2>2. \A x \in S : <<x, x>> \notin R
    BY <1>1, <2>1 DEF Ordered, Lowest
  <2>3. \A x, y, z \in S : <<x, y>> \in R /\ <<y, z>> \in R => <<x, z>> \in R
    BY <1>1, <2>1 DEF Ordered, Lowest
  <2>4. \A x, y \in S : x # y => <<x, y>> \in R \/ <<y, x>> \in R
    BY <1>1, <2>1 DEF Ordered, Lowest
  <2> QED BY <2>2, <2>3, <2>4 DEF Orders
<1>6. t = [k \in 1..Cardinality(S) |-> t[k]]
  BY <1>2
<1>7. \A x \in S : Under[x] = Cardinality({y \in S : <<y, x>> \in R})
  OBVIOUS
<1>8. SortedBy(t, S, R)
  <2> HIDE DEF t, Under, R
  <2> QED BY <1>4, <1>5, <1>6, <1>7, SortedByRank
<1>9. t \in Seq(S)
  BY <1>8 DEF SortedBy
<1> HIDE DEF t
<1>10. Entries(t) \subseteq S
  BY <1>9 DEF Entries
<1> QED BY <1>9, <1>10 DEF t

(***************************************************************************)
(* The turns of a call.                                                    *)
(***************************************************************************)
Placing == {"begin", "iterate", "assign", "rebalance", "detect", "repair", "returned"}
BringingHome == {"return", "returning", "laid out"}

Mode ==
    \/ stage \in BringingHome
    \/ /\ stage \in Placing /\ task \in Tasks /\ turn \in 1..Turns
       /\ stage = "returned" => turn = Turns

\* What is known of a task.
LEMMA TaskTypes ==
    ASSUME task \in Tasks
    PROVE  /\ Depth \in Nat /\ Depth >= 1 /\ Depth <= Len(task.layers) /\ Len(task.layers) \in Nat
           /\ Turns \in Nat /\ Turns >= 1 /\ LayerOf(Turns) = 1
           /\ \A n \in 1..Turns : LayerOf(n) \in 1..Depth
           /\ \A n \in 1..Turns : task.layers[LayerOf(n)] \in Seq(Nat \X Nat)
<1>1. task.layers \in Seq(Seq(Nat \X Nat)) /\ task.layers # << >> /\ task.beta \in Nat
  BY TasksAssumption
<1>2. Len(task.layers) \in Nat /\ Len(task.layers) >= 1
  <2>1. PICK l \in Seq(Seq(Nat \X Nat)) : l = task.layers
    BY <1>1
  <2>2. Len(l) \in Nat /\ (Len(l) = 0 => l = << >>)
    OBVIOUS
  <2> QED BY <1>1, <2>1, <2>2
<1>3. Depth \in Nat /\ Depth >= 1 /\ Depth <= Len(task.layers)
  BY <1>2 DEF Depth
<1>4. Turns \in Nat /\ Turns >= 1 /\ Turns = 2 * Depth - 1
  BY <1>3 DEF Turns
<1>5. LayerOf(Turns) = 1
  BY <1>3, <1>4 DEF LayerOf
<1>6. \A n \in 1..Turns : LayerOf(n) \in 1..Depth
  BY <1>3, <1>4 DEF LayerOf
<1>7. \A i \in 1..Len(task.layers) : task.layers[i] \in Seq(Nat \X Nat)
  <2>1. PICK l \in Seq(Seq(Nat \X Nat)) : l = task.layers
    BY <1>1
  <2>2. \A i \in 1..Len(l) : l[i] \in Seq(Nat \X Nat)
    OBVIOUS
  <2> QED BY <2>1, <2>2
<1>8. \A n \in 1..Turns : task.layers[LayerOf(n)] \in Seq(Nat \X Nat)
  <2> TAKE n \in 1..Turns
  <2>1. LayerOf(n) \in 1..Depth
    BY <1>6
  <2>2. LayerOf(n) \in 1..Len(task.layers)
    BY <2>1, <1>2, <1>3
  <2> QED BY <1>7, <2>2
<1> QED BY <1>2, <1>3, <1>4, <1>5, <1>6, <1>8

\* The pairs of the layer that is placed.
LEMMA PairTypes ==
    ASSUME task \in Tasks, turn \in 1..Turns
    PROVE  /\ pairs \in Seq(Nat \X Nat) /\ IsFiniteSet(Entries(pairs)) /\ Entries(pairs) \in SUBSET (Nat \X Nat)
           /\ \A p \in Entries(pairs) : Entries(p) = {p[1], p[2]} /\ p \in Nat \X Nat /\ Len(p) = 2
<1>1. pairs \in Seq(Nat \X Nat)
  BY TaskTypes DEF pairs, Layer
<1>2. PICK s \in Seq(Nat \X Nat) : s = pairs
  BY <1>1
<1>3. \A p \in Entries(s) : p \in Nat \X Nat
  BY DEF Entries
<1>4. ASSUME NEW p \in Nat \X Nat PROVE Entries(p) = {p[1], p[2]} /\ Len(p) = 2
  BY DEF Entries
<1>5. IsFiniteSet(Entries(s))
  <2>1. IsFiniteSet(1..Len(s))
    BY FS_Interval
  <2>2. Entries(s) = {s[i] : i \in 1..Len(s)}
    BY DEF Entries
  <2> QED BY <2>1, <2>2, ImageFinite
<1> QED BY <1>1, <1>2, <1>3, <1>4, <1>5

\* What is not changed.
LEMMA TaskKept ==
    ASSUME TargetsNext
    PROVE  task' = task
  BY DEF TargetsNext, ReturnNext, EntanglingNext, Nothing, TooMany, Begin, Iterate, Assigning, Assigned, Rebalance,
         Detect, Repair, Repaired, LayOutNearest, LayOut, LayingOut, LayOutNext, LaidOut, Finish, Deliver, callVars, entanglingVars

(***************************************************************************)
(* The repair: of all the pairs one is moved at most, and when it is, all  *)
(* are apart.                                                              *)
(***************************************************************************)
RepairedOne ==
    targets # original =>
        /\ PairsSeparated(arch, targets, pairs)
        /\ \E p \in Entries(pairs) : \A q \in DOMAIN targets \ Entries(p) : targets[q] = original[q]

RepairInv ==
    /\ Mode
    /\ stage = "repair" => waiting \in Seq(Entries(pairs))
    /\ stage \in {"repair", "returned"} => RepairedOne
    /\ stage = "returned" => forward[1] = targets

\* A call that returns has its targets as those of the layer, and it is the last
\* turn, which is of the first layer.
LEMMA Delivered ==
    ASSUME Mode, stage \in Placing, stage # "returned", NEW result, Deliver(result)
    PROVE  /\ Mode' /\ stage' \in {"begin", "returned"}
           /\ stage' = "returned" => turn' = turn /\ Layer = 1 /\ Layer' = 1 /\ forward'[1] = result
<1>1. task \in Tasks /\ turn \in 1..Turns /\ task' = task
  BY DEF Mode, Placing, BringingHome, Deliver
<1>2. Turns \in Nat /\ Turns' = Turns
  BY <1>1, TaskTypes DEF Turns, Depth
<1>3. CASE turn = Turns
  <2>1. /\ stage' = "returned" /\ turn' = turn
        /\ forward' = [k \in DOMAIN forward \cup {Layer} |-> IF k = Layer THEN result ELSE forward[k]]
    BY <1>3 DEF Deliver
  <2>2. Layer = 1 /\ Layer' = 1
    BY <1>1, <1>3, <2>1, TaskTypes DEF Layer, LayerOf, Depth, Turns
  <2>3. forward'[1] = result
    BY <2>1, <2>2
  <2>4. Mode'
    BY <1>1, <1>2, <1>3, <2>1 DEF Mode, Placing
  <2> QED BY <2>1, <2>2, <2>3, <2>4
<1>4. CASE turn # Turns
  <2>1. stage' = "begin" /\ turn' = turn + 1
    BY <1>4 DEF Deliver
  <2>2. Mode'
    BY <1>1, <1>2, <1>4, <2>1 DEF Mode, Placing
  <2> QED BY <2>1, <2>2
<1> QED BY <1>3, <1>4

LEMMA RepairInit == TargetsInit => RepairInv
<1> SUFFICES ASSUME TargetsInit PROVE RepairInv
  OBVIOUS
<1>1. CASE ReturnInit
  BY <1>1 DEF ReturnInit, RepairInv, Mode, BringingHome
<1>2. CASE EntanglingInit
  <2>1. task \in Tasks /\ turn = 1 /\ stage = "begin"
    BY <1>2 DEF EntanglingInit
  <2>2. Turns \in Nat /\ Turns >= 1
    BY <2>1, TaskTypes
  <2> QED BY <2>1, <2>2 DEF RepairInv, Mode, Placing
<1> QED BY <1>1, <1>2 DEF TargetsInit

LEMMA RepairStep ==
    ASSUME RepairInv, Repair
    PROVE  RepairInv'
<1>1. /\ stage = "repair" /\ stage' = stage /\ task' = task /\ turn' = turn /\ forward' = forward /\ original' = original
      /\ waiting # << >> /\ waiting' = Tail(waiting) /\ ~ PairsSeparated(arch, targets, pairs)
  BY DEF Repair, callVars
<1>2. task \in Tasks /\ turn \in 1..Turns
  BY <1>1 DEF RepairInv, Mode, BringingHome
<1>3. pairs' = pairs /\ arch' = arch /\ Turns' = Turns
  BY <1>1 DEF pairs, arch, Layer, LayerOf, Depth, Turns
<1>4. targets = original
  BY <1>1 DEF RepairInv, RepairedOne
<1>5. waiting \in Seq(Entries(pairs))
  BY <1>1 DEF RepairInv
<1>6. Head(waiting) \in Entries(pairs) /\ waiting' \in Seq(Entries(pairs))
  BY <1>1, <1>5
<1>7. RepairedOne'
  <2>1. CASE targets' = targets
    BY <1>1, <1>4, <2>1 DEF RepairedOne
  <2>2. CASE targets' # targets
    <3> DEFINE p == Head(waiting)
    <3>1. PICK alt \in Separating(p) : targets' = Led(p, WayOf(p, alt))
      BY <2>2 DEF Repair
    <3>2. PairsSeparated(arch, targets', pairs)
      BY <3>1 DEF Separating
    <3>3. p \in Entries(pairs) /\ Entries(p) = {p[1], p[2]}
      BY <1>2, <1>6, PairTypes
    <3> HIDE DEF p
    <3>4. \A q \in DOMAIN targets' \ Entries(p) : targets'[q] = original[q]
      BY <3>1, <3>3, <1>4 DEF Led
    <3>5. PairsSeparated(arch', targets', pairs')
      BY <3>2, <1>3
    <3> QED BY <3>3, <3>4, <3>5, <1>1, <1>3 DEF RepairedOne
  <2> QED BY <2>1, <2>2
<1>8. Mode'
  BY <1>1, <1>2, <1>3 DEF Mode, Placing
<1> QED BY <1>1, <1>3, <1>6, <1>7, <1>8 DEF RepairInv

\* Finish hands the targets to the repair, or returns them.
LEMMA Finished ==
    ASSUME Mode, stage = "detect", NEW found, NEW agreed, Finish(found, agreed)
    PROVE  RepairInv'
<1>1. task \in Tasks /\ turn \in 1..Turns
  BY DEF Mode, BringingHome
<1>2. targets' = found /\ original' = found
  BY DEF Finish
<1>3. RepairedOne'
  BY <1>2 DEF RepairedOne
<1>4. CASE Len(pairs) < 2 \/ found = << >>
  <2>1. Deliver(found)
    BY <1>4 DEF Finish
  <2>2. /\ Mode' /\ stage' \in {"begin", "returned"}
        /\ stage' = "returned" => forward'[1] = found
    BY <2>1, Delivered DEF Placing
  <2> QED BY <1>2, <1>3, <2>2 DEF RepairInv
<1>5. CASE ~ (Len(pairs) < 2 \/ found = << >>)
  <2>1. waiting' = InOrder(Entries(pairs), Ordered) /\ stage' = "repair" /\ UNCHANGED callVars
    BY <1>5 DEF Finish
  <2>2. task' = task /\ turn' = turn
    BY <2>1 DEF callVars
  <2>3. Turns' = Turns /\ pairs' = pairs
    BY <2>2 DEF Turns, Depth, pairs, Layer, LayerOf
  <2>4. Mode'
    BY <1>1, <2>1, <2>2, <2>3 DEF Mode, Placing
  <2>5. waiting' \in Seq(Entries(pairs))
    <3>1. Entries(pairs) \in SUBSET (Nat \X Nat) /\ IsFiniteSet(Entries(pairs))
      BY <1>1, PairTypes
    <3> QED BY <2>1, <3>1, PairsInOrder
  <2>6. waiting' \in Seq(Entries(pairs'))
    BY <2>3, <2>5
  <2> QED BY <1>3, <2>1, <2>4, <2>6 DEF RepairInv
<1> QED BY <1>4, <1>5

\* The steps that only go on to another stage of a turn.
LEMMA StageStep ==
    ASSUME Mode, stage \in Placing, stage' \in Placing \ {"repair", "returned"}, UNCHANGED callVars
    PROVE  RepairInv'
<1>1. task \in Tasks /\ turn \in 1..Turns /\ task' = task /\ turn' = turn
  BY DEF Mode, BringingHome, Placing, callVars
<1>2. Turns' = Turns
  BY <1>1 DEF Turns, Depth
<1> QED BY <1>1, <1>2 DEF RepairInv, Mode, Placing

LEMMA HomeStep ==
    ASSUME stage' \in BringingHome
    PROVE  RepairInv'
  BY DEF RepairInv, Mode, BringingHome

\* Where a call is in its turns, and that the repair has so far left the targets as
\* they were or sent one pair elsewhere, with which all of them are apart.
THEOREM RepairInvariant == TargetsSpec => []RepairInv
<1>1. ASSUME RepairInv, [TargetsNext]_<<entanglingVars, hungarianVars, layoutVars>>
      PROVE  RepairInv'
  <2>0. Mode
    BY <1>1 DEF RepairInv
  <2>1. CASE Nothing
    <3>1. stage \in Placing /\ stage # "returned" /\ Deliver(<< >>) /\ targets' = << >> /\ original' = << >>
      BY <2>1 DEF Nothing, Placing
    <3>2. Mode' /\ stage' \in {"begin", "returned"} /\ (stage' = "returned" => forward'[1] = << >>)
      BY <2>0, <3>1, Delivered
    <3> QED BY <3>1, <3>2 DEF RepairInv, RepairedOne
  <2>2. CASE TooMany
    BY <2>0, <2>2, StageStep DEF TooMany, Placing
  <2>3. CASE Begin
    BY <2>0, <2>3, StageStep DEF Begin, Placing
  <2>4. CASE Iterate
    BY <2>0, <2>4, StageStep DEF Iterate, Placing
  <2>5. CASE Assigning
    BY <2>0, <2>5, StageStep DEF Assigning, Placing, entanglingVars
  <2>6. CASE Assigned
    BY <2>0, <2>6, StageStep DEF Assigned, Placing
  <2>7. CASE Rebalance
    BY <2>0, <2>7, StageStep DEF Rebalance, Placing
  <2>8. CASE Detect
    <3> DEFINE found == TargetsOf(RowsWith(blockers))
               new == InTheWay(found)
    <3>1. \/ Finish(found, new = << >>)
          \/ stage' = "iterate" /\ UNCHANGED callVars
      <4> HIDE DEF found, new
      <4>1. \/ Finish(found, new = << >>) /\ UNCHANGED loopVars
            \/ stage' = "iterate" /\ UNCHANGED <<callVars, resultVars>>
        <5> USE DEF found, new
        <5> QED BY <2>8 DEF Detect
      <4> QED BY <4>1
    <3>2. stage = "detect"
      BY <2>8 DEF Detect
    <3> HIDE DEF found, new
    <3>3. CASE Finish(found, new = << >>)
      BY <2>0, <3>2, <3>3, Finished
    <3>4. CASE stage' = "iterate" /\ UNCHANGED callVars
      BY <2>0, <3>2, <3>4, StageStep DEF Placing
    <3> QED BY <3>1, <3>3, <3>4
  <2>9. CASE Repair
    BY <1>1, <2>9, RepairStep
  <2>10. CASE Repaired
    <3>1. stage = "repair" /\ Deliver(targets) /\ targets' = targets /\ original' = original
      BY <2>10 DEF Repaired, resultVars
    <3>2. /\ Mode' /\ stage' \in {"begin", "returned"}
          /\ stage' = "returned" => turn' = turn /\ forward'[1] = targets
      BY <2>0, <3>1, Delivered DEF Placing
    <3>3. stage' = "returned" => RepairedOne'
      <4> SUFFICES ASSUME stage' = "returned" PROVE RepairedOne'
        OBVIOUS
      <4>1. task' = task /\ turn' = turn
        BY <3>1, <3>2 DEF Deliver
      <4>2. pairs' = pairs /\ arch' = arch
        BY <4>1 DEF pairs, Layer, LayerOf, Depth, arch
      <4>3. RepairedOne
        BY <1>1, <3>1 DEF RepairInv
      <4> QED BY <3>1, <4>2, <4>3 DEF RepairedOne
    <3> QED BY <3>1, <3>2, <3>3 DEF RepairInv
  <2>11. CASE ReturnNext
    <3>1. stage' \in BringingHome
      BY <2>11 DEF ReturnNext, LayOutNearest, LayOut, LayingOut, LayOutNext, LaidOut, entanglingVars, BringingHome
    <3> QED BY <3>1, HomeStep
  <2>12. CASE UNCHANGED <<entanglingVars, hungarianVars, layoutVars>>
    <3>1. /\ stage' = stage /\ task' = task /\ turn' = turn /\ waiting' = waiting /\ targets' = targets
          /\ original' = original /\ forward' = forward
      BY <2>12 DEF entanglingVars, callVars, resultVars
    <3>2. pairs' = pairs /\ arch' = arch /\ Turns' = Turns
      BY <3>1 DEF pairs, Layer, LayerOf, Depth, arch, Turns
    <3> QED BY <1>1, <3>1, <3>2 DEF RepairInv, Mode, RepairedOne
  <2> QED BY <1>1, <2>1, <2>2, <2>3, <2>4, <2>5, <2>6, <2>7, <2>8, <2>9, <2>10, <2>11, <2>12 DEF TargetsNext, EntanglingNext
<1> QED BY <1>1, RepairInit, PTL DEF TargetsSpec

\* The repair either leaves the targets as they are or ends with all pairs apart,
\* and it moves one pair at most.
THEOREM RepairTheorem == TargetsSpec => []RepairSeparates
<1>1. RepairInv => RepairSeparates
  <2> SUFFICES ASSUME RepairInv, Returned, targets # original
               PROVE  /\ PairsSeparated(arch, Answer, pairs)
                      /\ \E p \in Entries(pairs) : \A q \in DOMAIN Answer \ Entries(p) : Answer[q] = original[q]
    BY DEF RepairSeparates
  <2>1. Answer = targets /\ RepairedOne
    BY DEF RepairInv, Returned, Answer
  <2> QED BY <2>1 DEF RepairedOne
<1> QED BY <1>1, RepairInvariant, PTL

(***************************************************************************)
(* Slots.                                                                  *)
(***************************************************************************)

\* Every entry of sequences that are joined is an entry of one of them, no two
\* are the same one, and none is left out.
Covers(seqs, m, whole) ==
    \A i \in 1..m : \A k \in 1..Len(seqs[i]) : \E j \in 1..Len(whole) : whole[j] = seqs[i][k]
Joins(seqs, m, whole) ==
    /\ Covers(seqs, m, whole)
    /\ \E from \in [1..Len(whole) -> Nat \X Nat] :
          /\ \A j, k \in 1..Len(whole) : from[j] = from[k] => j = k
          /\ \A j \in 1..Len(whole) :
                /\ from[j][1] \in 1..m /\ from[j][2] \in 1..Len(seqs[from[j][1]])
                /\ whole[j] = seqs[from[j][1]][from[j][2]]

LEMMA JoinsOne ==
    ASSUME NEW T, NEW seqs \in Seq(Seq(T)), Len(seqs) >= 1
    PROVE  Joins(seqs, 1, seqs[1])
<1> DEFINE first == seqs[1]
<1>1. first \in Seq(T)
  OBVIOUS
<1> HIDE DEF first
<1>2. PICK from : from = [j \in 1..Len(first) |-> <<1, j>>]
  OBVIOUS
<1>3. \A j \in 1..Len(first) : from[j] = <<1, j>> /\ from[j][1] = 1 /\ from[j][2] = j
  BY <1>2
<1>4. from \in [1..Len(first) -> Nat \X Nat]
  BY <1>1, <1>2
<1>5. \A j, k \in 1..Len(first) : from[j] = from[k] => j = k
  BY <1>3
<1>6. \A j \in 1..Len(first) : /\ from[j][1] \in 1..1 /\ from[j][2] \in 1..Len(seqs[from[j][1]])
                               /\ first[j] = seqs[from[j][1]][from[j][2]]
  <2>1. first = seqs[1]
    BY DEF first
  <2>2. \A j \in 1..Len(first) : seqs[from[j][1]] = first
    BY <1>3, <2>1
  <2> QED BY <1>3, <2>2
<1>7. Covers(seqs, 1, first)
  <2>1. seqs[1] = first
    BY DEF first
  <2>2. \A i \in 1..1 : i = 1
    OBVIOUS
  <2> QED BY <2>1, <2>2 DEF Covers
<1> QED BY <1>4, <1>5, <1>6, <1>7 DEF Joins, first

LEMMA JoinsMore ==
    ASSUME NEW T, NEW seqs \in Seq(Seq(T)), NEW m \in Nat, m + 1 <= Len(seqs), NEW whole \in Seq(T), Joins(seqs, m, whole)
    PROVE  Joins(seqs, m + 1, whole \o seqs[m + 1])
<1>1. PICK from \in [1..Len(whole) -> Nat \X Nat] :
        /\ \A j, k \in 1..Len(whole) : from[j] = from[k] => j = k
        /\ \A j \in 1..Len(whole) :
              /\ from[j][1] \in 1..m /\ from[j][2] \in 1..Len(seqs[from[j][1]])
              /\ whole[j] = seqs[from[j][1]][from[j][2]]
  BY DEF Joins
<1>2. PICK more \in Seq(T) : more = seqs[m + 1]
  OBVIOUS
<1>3. PICK both \in Seq(T) : both = whole \o more
  <2>1. whole \o more \in Seq(T)
    OBVIOUS
  <2> QED BY <2>1
<1>4. /\ Len(whole) \in Nat /\ Len(more) \in Nat /\ Len(both) = Len(whole) + Len(more)
      /\ \A j \in 1..Len(both) : both[j] = IF j <= Len(whole) THEN whole[j] ELSE more[j - Len(whole)]
  BY <1>3
<1>5. PICK next : next = [j \in 1..Len(both) |-> IF j <= Len(whole) THEN from[j] ELSE <<m + 1, j - Len(whole)>>]
  OBVIOUS
<1>6. ASSUME NEW j \in 1..Len(both)
      PROVE  \/ j \in 1..Len(whole) /\ next[j] = from[j] /\ both[j] = whole[j]
             \/ /\ j - Len(whole) \in 1..Len(more) /\ next[j] = <<m + 1, j - Len(whole)>>
                /\ both[j] = more[j - Len(whole)]
  <2>1. PICK n \in Nat : n = Len(whole)
    BY <1>4
  <2>2. next[j] = IF j <= n THEN from[j] ELSE <<m + 1, j - n>>
    BY <1>5, <2>1
  <2>3. both[j] = IF j <= n THEN whole[j] ELSE more[j - n]
    BY <1>4, <2>1
  <2>4. CASE j <= n
    BY <2>1, <2>2, <2>3, <2>4
  <2>5. CASE ~ (j <= n)
    <3>1. PICK l \in Nat : l = Len(more)
      BY <1>4
    <3>2. j \in Nat /\ j <= n + l
      BY <1>4, <2>1, <3>1
    <3>3. j - n \in 1..l
      BY <2>5, <3>2
    <3> QED BY <2>1, <2>2, <2>3, <2>5, <3>1, <3>3
  <2> QED BY <2>4, <2>5
<1>7. \A j \in 1..Len(both) : j - Len(whole) \in 1..Len(more) => <<m + 1, j - Len(whole)>> \in Nat \X Nat
  OBVIOUS
<1>8. next \in [1..Len(both) -> Nat \X Nat]
  <2>1. \A j \in 1..Len(both) : next[j] \in Nat \X Nat
    BY <1>6, <1>7
  <2> QED BY <1>5, <2>1
<1>9. ASSUME NEW j \in 1..Len(both)
      PROVE  /\ next[j][1] \in 1..(m + 1) /\ next[j][2] \in 1..Len(seqs[next[j][1]])
             /\ both[j] = seqs[next[j][1]][next[j][2]]
  <2>1. CASE j \in 1..Len(whole) /\ next[j] = from[j] /\ both[j] = whole[j]
    BY <1>1, <2>1, SMTT(60)
  <2>2. CASE /\ j - Len(whole) \in 1..Len(more) /\ next[j] = <<m + 1, j - Len(whole)>>
             /\ both[j] = more[j - Len(whole)]
    BY <1>2, <2>2
  <2> QED BY <1>6, <2>1, <2>2
<1>10. ASSUME NEW j \in 1..Len(both), NEW k \in 1..Len(both), next[j] = next[k] PROVE j = k
  <2>1. \A i \in 1..Len(whole) : from[i][1] # m + 1
    BY <1>1
  <2>2. CASE j \in 1..Len(whole) /\ next[j] = from[j]
    <3>1. next[k][1] # m + 1
      BY <2>1, <2>2, <1>10
    <3>2. k \in 1..Len(whole) /\ next[k] = from[k]
      BY <1>6, <3>1
    <3> QED BY <1>1, <1>10, <2>2, <3>2
  <2>3. CASE j - Len(whole) \in 1..Len(more) /\ next[j] = <<m + 1, j - Len(whole)>>
    <3>1. next[k][1] = m + 1 /\ next[k][2] = j - Len(whole)
      BY <2>3, <1>10
    <3>2. k - Len(whole) \in 1..Len(more) /\ next[k] = <<m + 1, k - Len(whole)>>
      BY <1>6, <2>1, <3>1
    <3>3. k - Len(whole) = j - Len(whole)
      BY <3>1, <3>2
    <3> QED BY <3>3, <1>4
  <2> QED BY <1>6, <2>2, <2>3
<1>11. Covers(seqs, m + 1, both)
  <2> SUFFICES ASSUME NEW i \in 1..(m + 1), NEW k \in 1..Len(seqs[i]) PROVE \E j \in 1..Len(both) : both[j] = seqs[i][k]
    BY DEF Covers
  <2>1. CASE i = m + 1
    <3>1. k \in 1..Len(more) /\ seqs[i][k] = more[k]
      BY <1>2, <2>1
    <3>2. PICK n \in Nat, l \in 1..Len(more) : n = Len(whole) /\ l = k
      BY <1>4, <3>1
    <3>3. n + l \in 1..Len(both) /\ ~ (n + l <= n) /\ (n + l) - n = l
      BY <1>4, <3>2
    <3>4. both[n + l] = more[l]
      BY <1>4, <3>2, <3>3
    <3> QED BY <3>1, <3>2, <3>3, <3>4
  <2>2. CASE i \in 1..m
    <3>1. PICK j \in 1..Len(whole) : whole[j] = seqs[i][k]
      BY <2>2 DEF Joins, Covers
    <3>2. PICK n \in Nat : n = Len(whole)
      BY <1>4
    <3>3. j \in 1..Len(both) /\ j <= n
      BY <1>4, <3>2
    <3>4. both[j] = whole[j]
      BY <1>4, <3>2, <3>3
    <3> QED BY <3>1, <3>3, <3>4
  <2> QED BY <2>1, <2>2
<1>12. Joins(seqs, m + 1, both)
  BY <1>8, <1>9, <1>10, <1>11 DEF Joins
<1> QED BY <1>2, <1>3, <1>12

\* FlattenSeq joins.
LEMMA Flattened ==
    ASSUME NEW T, NEW seqs \in Seq(Seq(T))
    PROVE  FlattenSeq(seqs) \in Seq(T) /\ Joins(seqs, Len(seqs), FlattenSeq(seqs))
<1> DEFINE n == Len(seqs)
<1>1. n \in Nat /\ \A i \in 1..n : seqs[i] \in Seq(T)
  OBVIOUS
<1>2. CASE n = 0
  <2>1. FlattenSeq(seqs) = << >>
    BY <1>2 DEF FlattenSeq
  <2>2. Joins(seqs, n, << >>)
    <3>1. << >> \in [1..Len(<< >>) -> Nat \X Nat]
      OBVIOUS
    <3>2. Len(<< >>) = 0 /\ 1..0 = {}
      OBVIOUS
    <3>3. PICK from \in [1..Len(<< >>) -> Nat \X Nat] : TRUE
      BY <3>1
    <3>4. /\ \A j, k \in 1..Len(<< >>) : from[j] = from[k] => j = k
          /\ \A j \in 1..Len(<< >>) : FALSE
      BY <3>2
    <3>5. Covers(seqs, n, << >>)
      <4>1. 1..n = {}
        BY <1>2
      <4> HIDE DEF n
      <4> QED BY <4>1 DEF Covers
    <3> HIDE DEF n
    <3> QED BY <3>3, <3>4, <3>5 DEF Joins
  <2> QED BY <2>1, <2>2
<1>3. CASE n # 0
  <2> DEFINE Step(g, i) == IF i = 1 THEN seqs[i] ELSE g[i - 1] \o seqs[i]
             Good(F, m) == F \in [1..m -> Seq(T)] /\ \A k \in 1..m : F[k] = Step(F, k) /\ Joins(seqs, k, F[k])
             S == {m \in Nat : m + 1 <= n => \E F : Good(F, m + 1)}
  <2>1. 0 \in S
    <3>1. PICK F : F = [k \in 1..1 |-> seqs[1]]
      OBVIOUS
    <3>2. seqs[1] \in Seq(T) /\ Joins(seqs, 1, seqs[1])
      BY <1>1, <1>3, JoinsOne
    <3>3. \A k \in 1..1 : k = 1
      OBVIOUS
    <3>4. F[1] = seqs[1] /\ F \in [1..1 -> Seq(T)]
      BY <3>1, <3>2
    <3>5. Good(F, 1)
      BY <3>2, <3>3, <3>4
    <3> HIDE DEF Good
    <3> QED BY <3>5
  <2>2. ASSUME NEW i \in Nat, i \in S PROVE i + 1 \in S
    <3> SUFFICES ASSUME (i + 1) + 1 <= n PROVE \E F : Good(F, (i + 1) + 1)
      <4> HIDE DEF Good, n
      <4> QED OBVIOUS
    <3> DEFINE m == i + 1
    <3>1. m \in Nat /\ m >= 1 /\ m + 1 <= n /\ m + 1 \in 1..n
      BY <1>1
    <3>2. PICK F : Good(F, m)
      <4> HIDE DEF Good, n
      <4> QED BY <2>2, <3>1, <1>1
    <3> HIDE DEF m, n
    <3>3. F[m] \in Seq(T) /\ Joins(seqs, m, F[m]) /\ seqs[m + 1] \in Seq(T)
      <4>1. m \in 1..m
        BY <3>1
      <4>2. F[m] \in Seq(T) /\ Joins(seqs, m, F[m])
        <5>1. F \in [1..m -> Seq(T)] /\ \A k \in 1..m : Joins(seqs, k, F[k])
          BY <3>2
        <5> QED BY <4>1, <5>1
      <4> QED BY <1>1, <3>1, <4>2
    <3>4. PICK more \in Seq(T) : more = F[m] \o seqs[m + 1]
      <4>1. \A a, b \in Seq(T) : a \o b \in Seq(T)
        OBVIOUS
      <4>2. F[m] \o seqs[m + 1] \in Seq(T)
        BY <3>3, <4>1
      <4> QED BY <4>2
    <3>5. Joins(seqs, m + 1, more)
      BY <3>1, <3>3, <3>4, JoinsMore DEF n
    <3>6. PICK H : H = [k \in 1..(m + 1) |-> IF k = m + 1 THEN more ELSE F[k]]
      OBVIOUS
    <3>7. H[m + 1] = more /\ \A k \in 1..m : H[k] = F[k]
      BY <3>1, <3>6
    <3>8. \A k \in 1..(m + 1) : k = m + 1 \/ k \in 1..m
      BY <3>1
    <3>9. H \in [1..(m + 1) -> Seq(T)]
      <4>1. \A k \in 1..(m + 1) : H[k] \in Seq(T)
        BY <3>2, <3>7, <3>8
      <4> QED BY <3>6, <4>1
    <3>10. ASSUME NEW k \in 1..(m + 1) PROVE H[k] = Step(H, k) /\ Joins(seqs, k, H[k])
      <4>1. CASE k = m + 1
        <5>1. k # 1 /\ k - 1 = m /\ m \in 1..m
          BY <3>1, <4>1
        <5>2. H[k - 1] \o seqs[k] = more
          BY <3>4, <3>7, <5>1, <4>1
        <5> QED BY <3>5, <3>7, <4>1, <5>1, <5>2
      <4>2. CASE k \in 1..m
        <5>1. F[k] = Step(F, k) /\ Joins(seqs, k, F[k])
          BY <3>2, <4>2
        <5>2. k = 1 \/ k - 1 \in 1..m
          BY <3>1, <4>2
        <5> QED BY <3>7, <4>2, <5>1, <5>2
      <4> QED BY <3>8, <4>1, <4>2
    <3>11. Good(H, m + 1)
      BY <3>9, <3>10
    <3> HIDE DEF Good
    <3> QED BY <3>11 DEF m
  <2>3. n - 1 \in S
    <3>1. n - 1 \in Nat
      BY <1>1, <1>3
    <3>2. Nat \subseteq S
      <4> HIDE DEF S
      <4> QED BY <2>1, <2>2, Induction
    <3> HIDE DEF S
    <3> QED BY <3>1, <3>2
  <2>4. PICK F : Good(F, n)
    <3>1. (n - 1) + 1 = n /\ n - 1 \in Nat
      BY <1>1, <1>3
    <3> HIDE DEF Good, n
    <3> QED BY <2>3, <3>1, <1>1
  <2> DEFINE Solves(g) == g = [i \in 1..n |-> Step(g, i)]
             G == CHOOSE g : Solves(g)
  <2>5. Solves(F)
    <3>1. F \in [1..n -> Seq(T)] /\ \A k \in 1..n : F[k] = Step(F, k)
      BY <2>4
    <3> HIDE DEF Step, n
    <3> QED BY <3>1
  <2>6. Solves(G)
    <3> HIDE DEF Solves
    <3> QED BY <2>5
  <2>7. FlattenSeq(seqs) = G[n]
    BY <1>3 DEF FlattenSeq
  <2> HIDE DEF G
  <2>8. \A k \in 1..n : G[k] = Step(G, k)
    <3> HIDE DEF Step
    <3> QED BY <2>6
  <2>9. \A k \in 1..n : F[k] = Step(F, k)
    BY <2>4
  <2> DEFINE E == {m \in Nat : m + 1 <= n => G[m + 1] = F[m + 1]}
  <2>10. 0 \in E
    BY <1>1, <1>3, <2>8, <2>9
  <2>11. ASSUME NEW i \in Nat, i \in E PROVE i + 1 \in E
    <3> SUFFICES ASSUME (i + 1) + 1 <= n PROVE G[(i + 1) + 1] = F[(i + 1) + 1]
      OBVIOUS
    <3>1. G[i + 1] = F[i + 1]
      BY <2>11, <1>1
    <3>2. (i + 1) + 1 \in 1..n /\ (i + 1) + 1 # 1 /\ ((i + 1) + 1) - 1 = i + 1
      BY <1>1
    <3> HIDE DEF n
    <3> QED BY <2>8, <2>9, <3>1, <3>2
  <2>12. n - 1 \in E
    <3>1. n - 1 \in Nat
      BY <1>1, <1>3
    <3>2. Nat \subseteq E
      <4> HIDE DEF E
      <4> QED BY <2>10, <2>11, Induction
    <3> HIDE DEF E
    <3> QED BY <3>1, <3>2
  <2>13. G[n] = F[n] /\ n \in 1..n
    BY <2>12, <1>1, <1>3
  <2>14. F[n] \in Seq(T) /\ Joins(seqs, n, F[n])
    BY <2>4, <2>13
  <2> QED BY <2>7, <2>13, <2>14
<1> QED BY <1>2, <1>3

\* The shape of an architecture.
LEMMA ArchTypes ==
    ASSUME NEW a \in Archs
    PROVE  /\ Len(a.zones) \in Nat /\ DOMAIN a.zones = 1..Len(a.zones)
           /\ Len(a.words) \in Nat /\ DOMAIN a.words = 1..Len(a.words) /\ Len(a.words) >= 1
           /\ SitesPerWord(a) \in Nat
           /\ \A z \in DOMAIN a.zones :
                 /\ a.zones[z].pairs \in Seq(Nat \X Nat)
                 /\ Len(a.zones[z].pairs) \in Nat /\ DOMAIN a.zones[z].pairs = 1..Len(a.zones[z].pairs)
                 /\ \A i \in 1..Len(a.zones[z].pairs) :
                       /\ a.zones[z].pairs[i] \in (DOMAIN a.words) \X (DOMAIN a.words)
                       /\ a.zones[z].pairs[i][1] # a.zones[z].pairs[i][2]
                       /\ \A j \in 1..Len(a.zones[z].pairs) : i # j =>
                             /\ a.zones[z].pairs[i][1] \notin {a.zones[z].pairs[j][1], a.zones[z].pairs[j][2]}
                             /\ a.zones[z].pairs[i][2] \notin {a.zones[z].pairs[j][1], a.zones[z].pairs[j][2]}
<1>1. IsSequence(a.zones) /\ IsSequence(a.words) /\ \A w \in DOMAIN a.words : IsSequence(a.words[w])
  BY ArchsAssumption
<1>2. \A s : IsSequence(s) => Len(s) \in Nat /\ DOMAIN s = 1..Len(s)
  BY DEF IsSequence
<1>3. Validate(a)
  BY ArchsAssumption
<1>4. a.words # << >>
  BY <1>3 DEF Validate, Structure
<1>5. Len(a.words) >= 1
  <2>1. PICK s \in Seq(Entries(a.words)) : s = a.words
    BY <1>1 DEF IsSequence
  <2>2. Len(s) = 0 => s = << >>
    OBVIOUS
  <2> QED BY <1>1, <1>2, <1>4, <2>1, <2>2
<1>6. SitesPerWord(a) \in Nat
  <2>1. 1 \in DOMAIN a.words
    BY <1>1, <1>2, <1>5, SMTT(60)
  <2> QED BY <1>1, <1>2, <1>4, <2>1 DEF SitesPerWord
<1>7. ASSUME NEW z \in DOMAIN a.zones
      PROVE  /\ a.zones[z].pairs \in Seq(Nat \X Nat)
             /\ Len(a.zones[z].pairs) \in Nat /\ DOMAIN a.zones[z].pairs = 1..Len(a.zones[z].pairs)
             /\ \A i \in 1..Len(a.zones[z].pairs) :
                   /\ a.zones[z].pairs[i] \in (DOMAIN a.words) \X (DOMAIN a.words)
                   /\ a.zones[z].pairs[i][1] # a.zones[z].pairs[i][2]
                   /\ \A j \in 1..Len(a.zones[z].pairs) : i # j =>
                         /\ a.zones[z].pairs[i][1] \notin {a.zones[z].pairs[j][1], a.zones[z].pairs[j][2]}
                         /\ a.zones[z].pairs[i][2] \notin {a.zones[z].pairs[j][1], a.zones[z].pairs[j][2]}
  <2>1. a.zones[z].pairs \in Seq(Nat \X Nat) /\ PairsDisjoint(a.zones[z])
    BY ArchsAssumption
  <2>2. ZoneValid(a, a.zones[z])
    BY <1>3 DEF Validate
  <2>3. PICK s \in Seq(Nat \X Nat) : s = a.zones[z].pairs
    BY <2>1
  <2>4. Len(s) \in Nat /\ DOMAIN s = 1..Len(s) /\ \A i \in 1..Len(s) : s[i] \in Nat \X Nat
    OBVIOUS
  <2>5. \A i \in 1..Len(s) : Entries(s[i]) = {s[i][1], s[i][2]}
    <3>1. \A p \in Nat \X Nat : Entries(p) = {p[1], p[2]}
      BY DEF Entries
    <3> QED BY <2>4, <3>1
  <2>6. \A i \in 1..Len(s) : Entries(s[i]) \subseteq DOMAIN a.words /\ s[i][1] # s[i][2]
    BY <2>2, <2>3, <2>4 DEF ZoneValid
  <2>7. \A i, j \in 1..Len(s) : i # j => Entries(s[i]) \cap Entries(s[j]) = {}
    BY <2>1, <2>3, <2>4 DEF PairsDisjoint
  <2>8. \A i \in 1..Len(s) : s[i] \in (DOMAIN a.words) \X (DOMAIN a.words)
    <3> TAKE i \in 1..Len(s)
    <3>1. s[i] = <<s[i][1], s[i][2]>> /\ s[i][1] \in DOMAIN a.words /\ s[i][2] \in DOMAIN a.words
      BY <2>4, <2>5, <2>6
    <3> QED BY <3>1
  <2>9. \A i, j \in 1..Len(s) : i # j => s[i][1] \notin {s[j][1], s[j][2]} /\ s[i][2] \notin {s[j][1], s[j][2]}
    BY <2>5, <2>7
  <2> QED BY <2>3, <2>4, <2>6, <2>8, <2>9
<1> QED BY <1>1, <1>2, <1>5, <1>6, <1>7

\* The word pairs are those of the zones, each once.
WordPairOfZone(a, wp) == /\ wp.zone \in DOMAIN a.zones
                         /\ wp.words \in (DOMAIN a.words) \X (DOMAIN a.words)
                         /\ wp.words[1] # wp.words[2]
InZone(a, wp) == \E i \in 1..Len(a.zones[wp.zone].pairs) : wp.words = a.zones[wp.zone].pairs[i]
NoWordShared(one, other) ==
    one.zone = other.zone => /\ one.words[1] \notin {other.words[1], other.words[2]}
                             /\ one.words[2] \notin {other.words[1], other.words[2]}

LEMMA WordPairTypes ==
    ASSUME NEW a \in Archs
    PROVE  /\ Len(WordPairs(a)) \in Nat /\ DOMAIN WordPairs(a) = 1..Len(WordPairs(a))
           /\ \A p \in 1..Len(WordPairs(a)) : WordPairOfZone(a, WordPairs(a)[p])
           /\ \A p, o \in 1..Len(WordPairs(a)) : p # o => NoWordShared(WordPairs(a)[p], WordPairs(a)[o])
           /\ \A p \in 1..Len(WordPairs(a)) : InZone(a, WordPairs(a)[p])
<1> DEFINE T == [zone : DOMAIN a.zones, words : (DOMAIN a.words) \X (DOMAIN a.words)]
           ofZone(z) == [i \in DOMAIN a.zones[z].pairs |-> [zone |-> z, words |-> a.zones[z].pairs[i]]]
           seqs == [z \in DOMAIN a.zones |-> ofZone(z)]
<1>1. \A z \in DOMAIN a.zones : ofZone(z) \in Seq(T) /\ Len(ofZone(z)) = Len(a.zones[z].pairs)
  <2> TAKE z \in DOMAIN a.zones
  <2>1. Len(a.zones[z].pairs) \in Nat /\ DOMAIN a.zones[z].pairs = 1..Len(a.zones[z].pairs)
    BY ArchTypes, SMTT(60)
  <2>2. \A i \in DOMAIN a.zones[z].pairs : [zone |-> z, words |-> a.zones[z].pairs[i]] \in T
    BY <2>1, ArchTypes
  <2> HIDE DEF T
  <2> QED BY <2>1, <2>2
<1>2. seqs \in Seq(Seq(T)) /\ Len(seqs) = Len(a.zones)
  <2> HIDE DEF T, ofZone
  <2>1. Len(a.zones) \in Nat /\ DOMAIN a.zones = 1..Len(a.zones)
    BY ArchTypes
  <2> QED BY <1>1, <2>1
<1>3. \A z \in DOMAIN a.zones : seqs[z] = ofZone(z)
  OBVIOUS
<1>4. WordPairs(a) = FlattenSeq(seqs)
  BY DEF WordPairs
<1> HIDE DEF seqs, T
<1>5. PICK all \in Seq(T) : all = WordPairs(a) /\ Joins(seqs, Len(seqs), all)
  BY <1>2, <1>4, Flattened
<1>6. PICK from \in [1..Len(all) -> Nat \X Nat] :
        /\ \A j, k \in 1..Len(all) : from[j] = from[k] => j = k
        /\ \A j \in 1..Len(all) :
              /\ from[j][1] \in 1..Len(seqs) /\ from[j][2] \in 1..Len(seqs[from[j][1]])
              /\ all[j] = seqs[from[j][1]][from[j][2]]
  BY <1>5 DEF Joins
<1>7. ASSUME NEW j \in 1..Len(all)
      PROVE  /\ from[j] = <<from[j][1], from[j][2]>>
             /\ from[j][1] \in DOMAIN a.zones /\ from[j][2] \in 1..Len(a.zones[from[j][1]].pairs)
             /\ all[j].zone = from[j][1] /\ all[j].words = a.zones[from[j][1]].pairs[from[j][2]]
  <2>1. from[j] = <<from[j][1], from[j][2]>>
    BY <1>6, SMTT(60)
  <2>2. from[j][1] \in DOMAIN a.zones
    BY <1>2, <1>6, ArchTypes
  <2>3. PICK z \in DOMAIN a.zones, i \in Nat : z = from[j][1] /\ i = from[j][2]
    BY <1>6, <2>2
  <2>4. i \in 1..Len(seqs[z]) /\ all[j] = seqs[z][i]
    BY <1>6, <2>3
  <2>5. seqs[z] = ofZone(z) /\ Len(ofZone(z)) = Len(a.zones[z].pairs)
    BY <1>1, <1>3
  <2>6. i \in 1..Len(a.zones[z].pairs)
    <3> HIDE DEF ofZone
    <3> QED BY <2>4, <2>5
  <2>7. i \in DOMAIN a.zones[z].pairs
    BY <2>6, ArchTypes
  <2>8. ofZone(z)[i] = [zone |-> z, words |-> a.zones[z].pairs[i]]
    BY <2>7
  <2>9. all[j] = [zone |-> z, words |-> a.zones[z].pairs[i]]
    <3> HIDE DEF ofZone
    <3> QED BY <2>4, <2>5, <2>8
  <2> QED BY <2>1, <2>3, <2>6, <2>9
<1> HIDE DEF ofZone
<1>8. ASSUME NEW j \in 1..Len(all) PROVE WordPairOfZone(a, all[j])
  <2>1. PICK z \in DOMAIN a.zones, i \in 1..Len(a.zones[from[j][1]].pairs) : z = from[j][1] /\ i = from[j][2]
    BY <1>7
  <2>2. all[j].zone = z /\ all[j].words = a.zones[z].pairs[i] /\ i \in 1..Len(a.zones[z].pairs)
    BY <1>7, <2>1, SMTT(60)
  <2>3. a.zones[z].pairs[i] \in (DOMAIN a.words) \X (DOMAIN a.words) /\ a.zones[z].pairs[i][1] # a.zones[z].pairs[i][2]
    BY <2>2, ArchTypes
  <2> QED BY <2>2, <2>3 DEF WordPairOfZone
<1>9. ASSUME NEW j \in 1..Len(all), NEW k \in 1..Len(all), j # k PROVE NoWordShared(all[j], all[k])
  <2>1. from[j] # from[k]
    BY <1>6, <1>9, SMTT(60)
  <2>2. CASE from[j][1] = from[k][1]
    <3>1. from[j][2] # from[k][2]
      BY <1>7, <2>1, <2>2
    <3>2. PICK z \in DOMAIN a.zones : z = from[j][1] /\ z = from[k][1]
      BY <1>7, <2>2
    <3>3. PICK m \in 1..Len(a.zones[z].pairs), n \in 1..Len(a.zones[z].pairs) : m = from[j][2] /\ n = from[k][2]
      BY <1>7, <3>2
    <3>4. all[j].words = a.zones[z].pairs[m]
      BY <1>7, <3>2, <3>3
    <3>5. all[k].words = a.zones[z].pairs[n]
      BY <1>7, <3>2, <3>3
    <3>6. m # n
      BY <3>1, <3>3, SMTT(60)
    <3>7. /\ a.zones[z].pairs[m][1] \notin {a.zones[z].pairs[n][1], a.zones[z].pairs[n][2]}
          /\ a.zones[z].pairs[m][2] \notin {a.zones[z].pairs[n][1], a.zones[z].pairs[n][2]}
      BY <3>6, ArchTypes
    <3> QED BY <3>4, <3>5, <3>7 DEF NoWordShared
  <2>3. CASE from[j][1] # from[k][1]
    <3>1. all[j].zone # all[k].zone
      BY <1>7, <2>3
    <3> QED BY <3>1 DEF NoWordShared
  <2> QED BY <2>2, <2>3
<1>10. ASSUME NEW j \in 1..Len(all) PROVE InZone(a, all[j])
  <2>1. PICK z \in DOMAIN a.zones, i \in 1..Len(a.zones[from[j][1]].pairs) : z = from[j][1] /\ i = from[j][2]
    BY <1>7
  <2>2. all[j].zone = z /\ all[j].words = a.zones[z].pairs[i] /\ i \in 1..Len(a.zones[z].pairs)
    BY <1>7, <2>1
  <2> QED BY <2>2 DEF InZone
<1>11. Len(all) \in Nat /\ DOMAIN all = 1..Len(all)
  OBVIOUS
<1> QED BY <1>5, <1>8, <1>9, <1>10, <1>11

\* A slot is one site of a pair of words, and no two have a place in common.
SlotOf(a, wp, s) == [h \in {1, 2} |-> Loc(wp.zone, wp.words[h], s)]

LEMMA SlotTypes ==
    ASSUME NEW a \in Archs
    PROVE  /\ SlotsOf(a) \in Seq([{1, 2} -> AllLocations(a)])
           /\ \A j \in 1..Len(SlotsOf(a)) :
                 \E p \in 1..Len(WordPairs(a)), s \in 1..SitesPerWord(a) : SlotsOf(a)[j] = SlotOf(a, WordPairs(a)[p], s)
           /\ \A j \in 1..Len(SlotsOf(a)) : SlotsOf(a)[j][1] # SlotsOf(a)[j][2]
           /\ \A j, k \in 1..Len(SlotsOf(a)) : j # k =>
                 {SlotsOf(a)[j][1], SlotsOf(a)[j][2]} \cap {SlotsOf(a)[k][1], SlotsOf(a)[k][2]} = {}
           /\ \A p \in 1..Len(WordPairs(a)), s \in 1..SitesPerWord(a) :
                 \E j \in 1..Len(SlotsOf(a)) : SlotsOf(a)[j] = SlotOf(a, WordPairs(a)[p], s)
<1> DEFINE T == [{1, 2} -> AllLocations(a)]
           W == WordPairs(a)
           N == SitesPerWord(a)
           ofPair(p) == [s \in 1..N |-> SlotOf(a, W[p], s)]
           seqs == [p \in DOMAIN W |-> ofPair(p)]
<1>1. Len(W) \in Nat /\ DOMAIN W = 1..Len(W) /\ N \in Nat
  BY WordPairTypes, ArchTypes
<1>2. ASSUME NEW p \in 1..Len(W)
      PROVE  /\ W[p].zone \in DOMAIN a.zones /\ W[p].words[1] \in DOMAIN a.words /\ W[p].words[2] \in DOMAIN a.words
             /\ W[p].words[1] # W[p].words[2]
  <2>1. WordPairOfZone(a, W[p])
    BY WordPairTypes
  <2> HIDE DEF W
  <2> QED BY <2>1 DEF WordPairOfZone
<1>3. ASSUME NEW p \in 1..Len(W), NEW s \in 1..N
      PROVE  /\ SlotOf(a, W[p], s) \in T
             /\ SlotOf(a, W[p], s)[1] = Loc(W[p].zone, W[p].words[1], s)
             /\ SlotOf(a, W[p], s)[2] = Loc(W[p].zone, W[p].words[2], s)
             /\ SlotOf(a, W[p], s)[1] # SlotOf(a, W[p], s)[2]
  <2> HIDE DEF W
  <2>1. \A h \in {1, 2} : Loc(W[p].zone, W[p].words[h], s) \in AllLocations(a)
    BY <1>2 DEF AllLocations, Loc
  <2>2. Loc(W[p].zone, W[p].words[1], s) # Loc(W[p].zone, W[p].words[2], s)
    BY <1>2 DEF Loc
  <2>3. SlotOf(a, W[p], s) \in T
    BY <2>1 DEF SlotOf
  <2> HIDE DEF T
  <2> QED BY <2>2, <2>3 DEF SlotOf
<1> HIDE DEF T
<1>4. \A p \in 1..Len(W) : ofPair(p) \in Seq(T) /\ Len(ofPair(p)) = N
  <2> HIDE DEF W, N
  <2> QED BY <1>1, <1>3
<1>5. seqs \in Seq(Seq(T)) /\ Len(seqs) = Len(W)
  <2> HIDE DEF W, N, ofPair
  <2> QED BY <1>1, <1>4
<1>6. \A p \in 1..Len(W) : seqs[p] = ofPair(p)
  BY <1>1
<1>7. SlotsOf(a) = FlattenSeq(seqs)
  BY DEF SlotsOf, SlotOf
<1> HIDE DEF seqs
<1>8. PICK all \in Seq(T) : all = SlotsOf(a) /\ Joins(seqs, Len(seqs), all)
  BY <1>5, <1>7, Flattened
<1>9. PICK from \in [1..Len(all) -> Nat \X Nat] :
        /\ \A j, k \in 1..Len(all) : from[j] = from[k] => j = k
        /\ \A j \in 1..Len(all) :
              /\ from[j][1] \in 1..Len(seqs) /\ from[j][2] \in 1..Len(seqs[from[j][1]])
              /\ all[j] = seqs[from[j][1]][from[j][2]]
  BY <1>8 DEF Joins
<1>10. ASSUME NEW j \in 1..Len(all)
       PROVE  \E p \in 1..Len(W), s \in 1..N : from[j] = <<p, s>> /\ all[j] = SlotOf(a, W[p], s)
  <2>1. PICK p \in 1..Len(W), s \in Nat : p = from[j][1] /\ s = from[j][2] /\ from[j] = <<p, s>>
    <3>1. from[j] \in Nat \X Nat /\ from[j][1] \in 1..Len(seqs)
      BY <1>9
    <3>2. from[j][1] \in 1..Len(W)
      <4> HIDE DEF W
      <4> QED BY <1>5, <3>1
    <3> HIDE DEF W
    <3> QED BY <3>1, <3>2
  <2>2. s \in 1..Len(seqs[p]) /\ all[j] = seqs[p][s]
    BY <1>9, <2>1
  <2>3. s \in 1..N /\ seqs[p] = ofPair(p)
    <3> HIDE DEF W, N, ofPair
    <3> QED BY <1>4, <1>6, <2>2
  <2>4. ofPair(p)[s] = SlotOf(a, W[p], s)
    BY <2>3
  <2> HIDE DEF ofPair, W, N
  <2> QED BY <2>1, <2>2, <2>3, <2>4
<1>11. ASSUME NEW j \in 1..Len(all), NEW k \in 1..Len(all), j # k
       PROVE  {all[j][1], all[j][2]} \cap {all[k][1], all[k][2]} = {}
  <2>1. PICK p \in 1..Len(W), s \in 1..N : from[j] = <<p, s>> /\ all[j] = SlotOf(a, W[p], s)
    BY <1>10
  <2>2. PICK o \in 1..Len(W), r \in 1..N : from[k] = <<o, r>> /\ all[k] = SlotOf(a, W[o], r)
    BY <1>10
  <2>3. <<p, s>> # <<o, r>>
    <3>1. from[j] # from[k]
      BY <1>9, <1>11
    <3> HIDE DEF W, N
    <3> QED BY <3>1, <2>1, <2>2
  <2>4. p # o => NoWordShared(W[p], W[o])
    BY WordPairTypes
  <2>5. /\ all[j][1] = Loc(W[p].zone, W[p].words[1], s) /\ all[j][2] = Loc(W[p].zone, W[p].words[2], s)
        /\ all[k][1] = Loc(W[o].zone, W[o].words[1], r) /\ all[k][2] = Loc(W[o].zone, W[o].words[2], r)
    <3> HIDE DEF W, N
    <3> QED BY <1>3, <2>1, <2>2
  <2> HIDE DEF W, N
  <2>6. CASE p # o
    <3>1. W[p].zone # W[o].zone \/ (/\ W[p].words[1] \notin {W[o].words[1], W[o].words[2]}
                                    /\ W[p].words[2] \notin {W[o].words[1], W[o].words[2]})
      BY <2>4, <2>6 DEF NoWordShared
    <3> QED BY <2>5, <3>1 DEF Loc
  <2>7. CASE s # r
    BY <2>5, <2>7 DEF Loc
  <2> QED BY <2>3, <2>6, <2>7
<1>12. \A j \in 1..Len(all) : all[j][1] # all[j][2]
  <2> TAKE j \in 1..Len(all)
  <2>1. PICK p \in 1..Len(W), s \in 1..N : all[j] = SlotOf(a, W[p], s)
    BY <1>10
  <2> HIDE DEF W, N
  <2> QED BY <2>1, <1>3
<1>13. \A j \in 1..Len(all) : \E p \in 1..Len(W), s \in 1..N : all[j] = SlotOf(a, W[p], s)
  BY <1>10
<1>14. ASSUME NEW p \in 1..Len(W), NEW s \in 1..N PROVE \E j \in 1..Len(all) : all[j] = SlotOf(a, W[p], s)
  <2>1. p \in 1..Len(seqs) /\ s \in 1..Len(seqs[p]) /\ seqs[p] = ofPair(p)
    <3> HIDE DEF W, N, ofPair
    <3> QED BY <1>4, <1>5, <1>6
  <2>2. PICK j \in 1..Len(all) : all[j] = seqs[p][s]
    <3> HIDE DEF W, N, ofPair
    <3> QED BY <1>8, <2>1, ZenonT(60) DEF Joins, Covers
  <2>3. ofPair(p)[s] = SlotOf(a, W[p], s)
    OBVIOUS
  <2> HIDE DEF ofPair, W, N
  <2> QED BY <2>1, <2>2, <2>3
<1> QED BY <1>8, <1>11, <1>12, <1>13, <1>14, SMTT(60) DEF T

(***************************************************************************)
(* Distances.                                                              *)
(***************************************************************************)
LEMMA LocationsFinite ==
    ASSUME NEW a \in Archs
    PROVE  IsFiniteSet(AllLocations(a)) /\ Cardinality(AllLocations(a)) \in Nat
<1> DEFINE Z == DOMAIN a.zones
           W == DOMAIN a.words
           S == 1..SitesPerWord(a)
           P == (Z \X W) \X S
           f == [x \in P |-> Loc(x[1][1], x[1][2], x[2])]
<1>1. IsFiniteSet(Z) /\ IsFiniteSet(W) /\ IsFiniteSet(S)
  <2>1. /\ Len(a.zones) \in Nat /\ DOMAIN a.zones = 1..Len(a.zones)
        /\ Len(a.words) \in Nat /\ DOMAIN a.words = 1..Len(a.words)
        /\ SitesPerWord(a) \in Nat
    BY ArchTypes, ZenonT(60)
  <2>2. \A m \in Nat : IsFiniteSet(1..m)
    BY FS_Interval
  <2> QED BY <2>1, <2>2
<1>2. IsFiniteSet(P)
  <2>1. IsFiniteSet(Z \X W)
    <3> HIDE DEF Z, W
    <3> QED BY <1>1, FS_Product
  <2> HIDE DEF Z, W, S
  <2> QED BY <1>1, <2>1, FS_Product
<1>3. IsFiniteSet({f[x] : x \in P})
  <2> HIDE DEF P, f
  <2> QED BY <1>2, ImageFinite
<1>4. AllLocations(a) \subseteq {f[x] : x \in P}
  <2> SUFFICES ASSUME NEW at \in AllLocations(a) PROVE \E x \in P : f[x] = at
    <3> HIDE DEF P, f
    <3> QED OBVIOUS
  <2>1. at.zone \in Z /\ at.word \in W /\ at.site \in S /\ at = Loc(at.zone, at.word, at.site)
    BY DEF AllLocations, Loc
  <2>2. <<<<at.zone, at.word>>, at.site>> \in P
    BY <2>1
  <2>3. f[<<<<at.zone, at.word>>, at.site>>] = at
    BY <2>1, <2>2
  <2> HIDE DEF P, f
  <2> QED BY <2>2, <2>3
<1>5. IsFiniteSet(AllLocations(a))
  <2> HIDE DEF P, f
  <2> QED BY <1>3, <1>4, FS_Subset
<1> QED BY <1>5, FS_CardinalityType

\* The sets of what is within k hops.
Nearer(steps, near) == near \cup {e[1] : e \in {f \in steps : f[2] \in near}}
Within(F, n, target, steps) ==
    F = [k \in 0..n |-> IF k = 0 THEN {target} ELSE Nearer(steps, F[k - 1])]

LEMMA WithinExists ==
    ASSUME NEW n \in Nat, NEW target, NEW steps
    PROVE  \E F : Within(F, n, target, steps)
<1> DEFINE S == {m \in Nat : \E F : Within(F, m, target, steps)}
<1>1. 0 \in S
  <2>1. PICK F : F = [k \in 0..0 |-> {target}]
    OBVIOUS
  <2>2. F = [k \in 0..0 |-> IF k = 0 THEN {target} ELSE Nearer(steps, F[k - 1])]
    BY <2>1
  <2> QED BY <2>2 DEF Within
<1>2. ASSUME NEW m \in Nat, m \in S PROVE m + 1 \in S
  <2>1. PICK F : Within(F, m, target, steps)
    BY <1>2
  <2>2. PICK H : H = [k \in 0..(m + 1) |-> IF k = m + 1 THEN Nearer(steps, F[m]) ELSE F[k]]
    OBVIOUS
  <2>3. \A k \in 0..m : H[k] = F[k]
    BY <2>2
  <2>4. ASSUME NEW k \in 0..(m + 1) PROVE H[k] = IF k = 0 THEN {target} ELSE Nearer(steps, H[k - 1])
    <3>1. CASE k = m + 1
      <4>1. k # 0 /\ k - 1 = m /\ H[k] = Nearer(steps, F[m]) /\ H[m] = F[m]
        BY <2>2, <2>3, <3>1
      <4> QED BY <4>1
    <3>2. CASE k \in 0..m
      <4>1. F[k] = IF k = 0 THEN {target} ELSE Nearer(steps, F[k - 1])
        BY <2>1, <3>2 DEF Within
      <4>2. k = 0 \/ k - 1 \in 0..m
        BY <3>2
      <4> QED BY <2>3, <3>2, <4>1, <4>2
    <3> QED BY <3>1, <3>2
  <2>5. Within(H, m + 1, target, steps)
    BY <2>2, <2>4 DEF Within
  <2> QED BY <2>5
<1>3. n \in S
  <2> HIDE DEF S
  <2> QED BY <1>1, <1>2, Induction
<1> QED BY <1>3

\* Places have a distance, the target none from itself; and if there is a way, it has no
\* more hops than there are places.
HopLimit(a) == Big + Cardinality(AllLocations(a))

LEMMA HopsTypes ==
    ASSUME NEW a \in Archs, NEW target
    PROVE  /\ HopsTo(a, target) \in [AllLocations(a) -> 0..HopLimit(a)]
           /\ target \in AllLocations(a) => HopsTo(a, target)[target] = 0
           /\ \A from \in AllLocations(a) : HopsTo(a, target)[from] < Big => HopsTo(a, target)[from] <= Cardinality(AllLocations(a))
<1> DEFINE n == Cardinality(AllLocations(a))
           steps == Steps(a)
           G == CHOOSE g : Within(g, n, target, steps)
           First(from, k) == from \in G[k] /\ (k > 0 => from \notin G[k - 1])
<1>1. n \in Nat /\ Big \in Nat
  BY LocationsFinite, BigAssumption
<1>2. Within(G, n, target, steps)
  <2> HIDE DEF n, steps
  <2> QED BY <1>1, WithinExists
<1>3. HopsTo(a, target) = [from \in AllLocations(a) |-> IF from \in G[n] THEN CHOOSE k \in 0..n : First(from, k) ELSE Big]
  BY DEF HopsTo, Within, Nearer
<1> HIDE DEF G
<1>4. \A k \in 0..n : G[k] = IF k = 0 THEN {target} ELSE Nearer(steps, G[k - 1])
  <2> HIDE DEF n, steps
  <2> QED BY <1>2 DEF Within
<1>5. ASSUME NEW from, from \in G[n] PROVE \E k \in 0..n : First(from, k)
  <2> DEFINE Ks == {k \in 0..n : from \in G[k]}
  <2>1. Ks \in SUBSET Nat /\ Ks # {}
    BY <1>1, <1>5
  <2>2. PICK k \in Ks : \A m \in Ks : k <= m
    <3> HIDE DEF Ks
    <3> QED BY <2>1, LeastNumber
  <2>3. k > 0 => k - 1 \notin Ks /\ k - 1 \in 0..n
    <3> HIDE DEF n
    <3> QED BY <1>1, <2>2
  <2>4. k \in 0..n /\ First(from, k)
    BY <2>2, <2>3
  <2> QED BY <2>4
<1>6. \A k \in 0..n : target \in G[k]
  <2> DEFINE S == {m \in Nat : m <= n => target \in G[m]}
  <2>1. 0 \in S
    <3>1. 0 \in 0..n
      BY <1>1
    <3>2. G[0] = {target}
      BY <1>4, <3>1
    <3> QED BY <3>2
  <2>2. ASSUME NEW m \in Nat, m \in S PROVE m + 1 \in S
    <3> SUFFICES ASSUME m + 1 <= n PROVE target \in G[m + 1]
      OBVIOUS
    <3>1. m + 1 \in 0..n /\ m + 1 # 0 /\ (m + 1) - 1 = m /\ target \in G[m]
      BY <1>1, <2>2
    <3>2. G[m + 1] = Nearer(steps, G[m])
      BY <1>4, <3>1
    <3> QED BY <3>1, <3>2 DEF Nearer
  <2>3. Nat \subseteq S
    <3> HIDE DEF S
    <3> QED BY <2>1, <2>2, Induction
  <2> QED BY <2>3, <1>1
<1>7. ASSUME NEW from \in AllLocations(a)
      PROVE  HopsTo(a, target)[from] \in 0..HopLimit(a) /\ (HopsTo(a, target)[from] < Big => HopsTo(a, target)[from] <= n)
  <2>1. CASE from \in G[n]
    <3>1. HopsTo(a, target)[from] = CHOOSE k \in 0..n : First(from, k)
      BY <1>3, <2>1
    <3>2. HopsTo(a, target)[from] \in 0..n
      <4> HIDE DEF First, n
      <4> QED BY <1>5, <2>1, <3>1
    <3> QED BY <1>1, <3>2 DEF HopLimit
  <2>2. CASE from \notin G[n]
    BY <1>1, <1>3, <2>2 DEF HopLimit
  <2> QED BY <2>1, <2>2
<1>8. ASSUME target \in AllLocations(a) PROVE HopsTo(a, target)[target] = 0
  <2>1. target \in G[n]
    BY <1>1, <1>6
  <2>2. HopsTo(a, target)[target] = CHOOSE k \in 0..n : First(target, k)
    BY <1>3, <1>8, <2>1
  <2>3. PICK k \in 0..n : First(target, k) /\ k = HopsTo(a, target)[target]
    <3> HIDE DEF First, n
    <3> QED BY <1>5, <2>1, <2>2
  <2>4. k > 0 => k - 1 \in 0..n
    BY <1>1
  <2> QED BY <1>6, <2>3, <2>4
<1> QED BY <1>3, <1>7, <1>8

(***************************************************************************)
(* Rows.                                                                   *)
(***************************************************************************)
InCall == task \in Tasks /\ turn \in 1..Turns
Others == DOMAIN config \ PairQubits

LEMMA ValidPairTypes ==
    ASSUME InCall
    PROVE  /\ ValidPairs \in Seq(Entries(pairs))
           /\ \A k \in 1..Len(ValidPairs) : Present(ValidPairs[k])
           /\ \A k, m \in 1..Len(ValidPairs) : ValidPairs[k] = ValidPairs[m] => k = m
<1> DEFINE positions == {i \in DOMAIN pairs : Present(pairs[i])}
           order == InOrder(positions, <)
<1>1. PICK s \in Seq(Nat \X Nat) : s = pairs
  BY PairTypes DEF InCall
<1>2. DOMAIN s = 1..Len(s) /\ Len(s) \in Nat
  OBVIOUS
<1>3. positions \in SUBSET Int /\ IsFiniteSet(positions)
  <2>1. positions \in SUBSET (1..Len(s)) /\ IsFiniteSet(1..Len(s))
    BY <1>1, <1>2, FS_Interval
  <2> HIDE DEF positions
  <2>2. IsFiniteSet(positions)
    BY <2>1, FS_Subset
  <2>3. 1..Len(s) \subseteq Int
    BY <1>2
  <2> QED BY <2>1, <2>2, <2>3
<1>4. SortedBy(order, positions, {x \in positions \X positions : x[1] < x[2]})
  <2> HIDE DEF positions
  <2> QED BY <1>3, NumbersInOrder
<1>5. PICK t \in Seq(positions) : t = order
  <2> HIDE DEF positions, order
  <2> QED BY <1>4 DEF SortedBy
<1>6. ValidPairs = [k \in DOMAIN t |-> pairs[t[k]]]
  BY <1>5 DEF ValidPairs, OnlyAt
<1> HIDE DEF order
<1>7. DOMAIN t = 1..Len(t) /\ Len(t) \in Nat /\ \A k \in 1..Len(t) : t[k] \in positions
  <2> HIDE DEF positions
  <2> QED OBVIOUS
<1>8. \A k \in 1..Len(t) : pairs[t[k]] \in Entries(pairs) /\ Present(pairs[t[k]])
  BY <1>7 DEF Entries
<1>9. ValidPairs \in Seq(Entries(pairs)) /\ Len(ValidPairs) = Len(t)
  <2>1. ValidPairs \in [1..Len(t) -> Entries(pairs)]
    BY <1>6, <1>7, <1>8
  <2>2. \A n \in Nat : \A r \in [1..n -> Entries(pairs)] : r \in Seq(Entries(pairs)) /\ Len(r) = n
    OBVIOUS
  <2> QED BY <2>1, <2>2, <1>7
<1>10. \A k \in 1..Len(t) : ValidPairs[k] = pairs[t[k]]
  BY <1>6, <1>7
<1>11. \A i, j \in DOMAIN pairs : pairs[i] = pairs[j] => i = j
  <2> SUFFICES ASSUME NEW i \in DOMAIN pairs, NEW j \in DOMAIN pairs, pairs[i] = pairs[j], i # j PROVE FALSE
    OBVIOUS
  <2>1. Layer \in DOMAIN task.layers
    <3>1. Layer \in 1..Len(task.layers) /\ IsSequence(task.layers)
      <4>1. task \in Tasks /\ Layer \in 1..Depth /\ Depth <= Len(task.layers) /\ Len(task.layers) \in Nat /\ Depth \in Nat
        BY TaskTypes DEF InCall, Layer
      <4>2. task.layers \in Seq(Seq(Nat \X Nat))
        BY <4>1, TasksAssumption
      <4>3. task.layers \in Seq(Entries(task.layers))
        <5>1. PICK l \in Seq(Seq(Nat \X Nat)) : l = task.layers
          BY <4>2
        <5>2. l \in Seq(Entries(l))
          BY DEF Entries
        <5> QED BY <5>1, <5>2
      <4> QED BY <4>1, <4>3 DEF IsSequence
    <3> QED BY <3>1 DEF IsSequence
  <2>2. Entries(pairs[i]) \cap Entries(pairs[j]) = {}
    <3>1. task \in Tasks
      BY DEF InCall
    <3> QED BY <2>1, <3>1, TasksAssumption DEF pairs
  <2>3. Entries(pairs[i]) = {pairs[i][1], pairs[i][2]}
    BY PairTypes DEF InCall, Entries
  <2> QED BY <2>2, <2>3
<1>12. \A k, m \in 1..Len(t) : t[k] = t[m] => k = m
  <2> SUFFICES ASSUME NEW k \in 1..Len(t), NEW m \in 1..Len(t), k < m PROVE t[k] # t[m]
    BY <1>7
  <2>1. <<t[k], t[m]>> \in {x \in positions \X positions : x[1] < x[2]}
    <3> HIDE DEF positions
    <3> QED BY <1>4, <1>5, <1>7 DEF SortedBy
  <2>2. t[k] \in Int /\ t[m] \in Int
    BY <1>3, <1>7
  <2> HIDE DEF positions
  <2> QED BY <2>1, <2>2
<1>13. \A k, m \in 1..Len(t) : pairs[t[k]] = pairs[t[m]] => k = m
  <2>1. \A k \in 1..Len(t) : t[k] \in DOMAIN pairs
    BY <1>7
  <2> QED BY <2>1, <1>11, <1>12
<1> QED BY <1>8, <1>9, <1>10, <1>13

\* A row is a pair that is there, or an atom in the way.
PairRow(r) == r \in Entries(pairs) /\ r = <<r[1], r[2]>> /\ Len(r) = 2 /\ Entries(r) = {r[1], r[2]} /\ Entries(r) \subseteq DOMAIN config
AtomRow(r, atoms) == r = <<r[1]>> /\ Len(r) = 1 /\ Entries(r) = {r[1]} /\ r[1] \in Entries(atoms)

LEMMA RowTypes ==
    ASSUME InCall, NEW atoms \in Seq(Others)
    PROVE  /\ Len(RowsWith(atoms)) \in Nat /\ DOMAIN RowsWith(atoms) = 1..Len(RowsWith(atoms))
           /\ Len(RowsWith(atoms)) = Len(ValidPairs) + Len(atoms)
           /\ \A i \in 1..Len(RowsWith(atoms)) : PairRow(RowsWith(atoms)[i]) \/ AtomRow(RowsWith(atoms)[i], atoms)
           /\ \A i, k \in 1..Len(RowsWith(atoms)) : PairRow(RowsWith(atoms)[i]) /\ RowsWith(atoms)[i] = RowsWith(atoms)[k] => i = k
<1>1. PICK first \in Seq(Entries(pairs)) : first = ValidPairs
  BY ValidPairTypes
<1> DEFINE R == Entries(pairs) \cup {<<q>> : q \in Entries(atoms)}
<1>2. DOMAIN atoms = 1..Len(atoms) /\ Len(atoms) \in Nat /\ \A i \in 1..Len(atoms) : atoms[i] \in Entries(atoms)
  BY DEF Entries
<1>3. PICK second \in Seq(R) : second = [i \in DOMAIN atoms |-> <<atoms[i]>>]
  <2>1. [i \in 1..Len(atoms) |-> <<atoms[i]>>] \in Seq(R)
    BY <1>2
  <2> QED BY <1>2, <2>1
<1>4. Len(second) = Len(atoms) /\ \A i \in 1..Len(second) : second[i] = <<atoms[i]>>
  <2>1. DOMAIN second = 1..Len(second) /\ DOMAIN second = 1..Len(atoms) /\ Len(second) \in Nat
    BY <1>2, <1>3
  <2> QED BY <2>1, <1>2, <1>3
<1>5. PICK rows : rows = RowsWith(atoms)
  OBVIOUS
<1>6. rows = first \o second
  BY <1>1, <1>3, <1>5 DEF RowsWith
<1>7. /\ Len(first) \in Nat /\ Len(rows) = Len(first) + Len(second) /\ DOMAIN rows = 1..Len(rows) /\ Len(second) \in Nat
      /\ \A i \in 1..Len(rows) : rows[i] = IF i <= Len(first) THEN first[i] ELSE second[i - Len(first)]
  <2> HIDE DEF R
  <2> QED BY <1>6
<1>8. ASSUME NEW i \in 1..Len(rows) PROVE PairRow(rows[i]) \/ AtomRow(rows[i], atoms)
  <2>1. CASE i <= Len(first)
    <3>1. i \in 1..Len(first) /\ rows[i] = first[i] /\ first[i] \in Entries(pairs)
      BY <1>7, <2>1
    <3>2. Present(first[i])
      BY <1>1, <3>1, ValidPairTypes
    <3>3. /\ Entries(first[i]) = {first[i][1], first[i][2]} /\ first[i] \in Nat \X Nat /\ Len(first[i]) = 2
      BY <3>1, PairTypes DEF InCall
    <3>4. first[i] = <<first[i][1], first[i][2]>>
      BY <3>3
    <3> QED BY <3>1, <3>2, <3>3, <3>4 DEF PairRow, Present
  <2>2. CASE ~ (i <= Len(first))
    <3>1. PICK k \in 1..Len(atoms) : rows[i] = <<atoms[k]>>
      <4>1. i - Len(first) \in 1..Len(second) /\ rows[i] = second[i - Len(first)]
        BY <1>7, <2>2
      <4> QED BY <1>4, <4>1
    <3>2. atoms[k] \in Entries(atoms)
      BY <1>2
    <3>3. \A q : Len(<<q>>) = 1 /\ <<q>>[1] = q /\ Entries(<<q>>) = {q}
      BY DEF Entries
    <3>4. rows[i][1] = atoms[k] /\ Len(rows[i]) = 1 /\ Entries(rows[i]) = {atoms[k]}
      BY <3>1, <3>3
    <3> QED BY <3>1, <3>2, <3>4 DEF AtomRow
  <2> QED BY <2>1, <2>2
<1>9. ASSUME NEW i \in 1..Len(rows), NEW k \in 1..Len(rows), PairRow(rows[i]), rows[i] = rows[k] PROVE i = k
  <2>1. Len(rows[i]) = 2
    BY <1>9 DEF PairRow
  <2>2. ASSUME NEW m \in 1..Len(rows), Len(rows[m]) = 2 PROVE m \in 1..Len(first)
    <3> SUFFICES ASSUME ~ (m <= Len(first)) PROVE FALSE
      BY <1>7
    <3>1. m - Len(first) \in 1..Len(second) /\ rows[m] = second[m - Len(first)]
      BY <1>7
    <3>2. rows[m] = <<atoms[m - Len(first)]>>
      BY <1>4, <3>1
    <3>3. \A q : Len(<<q>>) = 1
      OBVIOUS
    <3> QED BY <2>2, <3>2, <3>3
  <2>3. i \in 1..Len(first) /\ k \in 1..Len(first)
    BY <1>9, <2>1, <2>2
  <2>4. first[i] = first[k]
    BY <1>7, <1>9, <2>3
  <2> QED BY <1>1, <2>3, <2>4, ValidPairTypes
<1> QED BY <1>1, <1>4, <1>5, <1>7, <1>8, <1>9

(***************************************************************************)
(* Costs.                                                                  *)
(***************************************************************************)
SlotPlaces(a) == UNION {Entries(Slots[a][j]) : j \in DOMAIN Slots[a]}
TargetsTyped(f) == \A q \in DOMAIN f : f[q] \in SlotPlaces(arch)
Typed ==
    /\ InCall
    /\ config \in [DOMAIN task.config -> AllLocations(arch)]
    /\ TargetsTyped(NextTargets)

\* The slots of the task.
LEMMA CallSlots ==
    ASSUME task \in Tasks
    PROVE  /\ arch \in Archs /\ slots = SlotsOf(arch) /\ Slots[arch] = slots
           /\ slots \in Seq([{1, 2} -> AllLocations(arch)]) /\ Len(slots) \in Nat /\ DOMAIN slots = 1..Len(slots)
           /\ \A j \in 1..Len(slots) :
                 /\ Entries(slots[j]) = {slots[j][1], slots[j][2]}
                 /\ slots[j][1] \in SlotPlaces(arch) /\ slots[j][2] \in SlotPlaces(arch)
                 /\ slots[j][1] # slots[j][2]
                 /\ slots[j] = <<slots[j][1], slots[j][2]>>
                 /\ \A k \in 1..Len(slots) : j # k => Entries(slots[j]) \cap Entries(slots[k]) = {}
           /\ \A to \in SlotPlaces(arch) : \E j \in 1..Len(slots) : to \in {slots[j][1], slots[j][2]}
           /\ SlotPlaces(arch) \in SUBSET AllLocations(arch)
<1>1. arch \in Archs
  BY TasksAssumption DEF arch
<1>2. slots = SlotsOf(arch) /\ Slots[arch] = slots
  BY <1>1 DEF slots, Slots, arch
<1>3. PICK s \in Seq([{1, 2} -> AllLocations(arch)]) : s = slots
  BY <1>1, <1>2, SlotTypes
<1>4. Len(s) \in Nat /\ DOMAIN s = 1..Len(s) /\ \A j \in 1..Len(s) : s[j] \in [{1, 2} -> AllLocations(arch)]
  OBVIOUS
<1>5. \A j \in 1..Len(s) : Entries(s[j]) = {s[j][1], s[j][2]} /\ s[j] = <<s[j][1], s[j][2]>>
  <2>1. ASSUME NEW f \in [{1, 2} -> AllLocations(arch)] PROVE Entries(f) = {f[1], f[2]} /\ f = <<f[1], f[2]>>
    <3>1. Entries(f) = {f[1], f[2]}
      BY DEF Entries
    <3>2. DOMAIN <<f[1], f[2]>> = {1, 2} /\ f = [h \in {1, 2} |-> f[h]]
      OBVIOUS
    <3> QED BY <3>1, <3>2
  <2> QED BY <1>4, <2>1
<1>6. \A j \in 1..Len(s) : Entries(s[j]) \subseteq SlotPlaces(arch)
  BY <1>2, <1>3, <1>4 DEF SlotPlaces
<1>7. \A to \in SlotPlaces(arch) : \E j \in 1..Len(s) : to \in Entries(s[j])
  BY <1>2, <1>3, <1>4 DEF SlotPlaces
<1>8. \A j \in 1..Len(s) : s[j][1] # s[j][2]
  BY <1>1, <1>2, <1>3, SlotTypes
<1>9. \A j, k \in 1..Len(s) : j # k => {s[j][1], s[j][2]} \cap {s[k][1], s[k][2]} = {}
  BY <1>1, <1>2, <1>3, SlotTypes
<1>10. SlotPlaces(arch) \in SUBSET AllLocations(arch)
  <2>1. \A j \in 1..Len(s) : s[j][1] \in AllLocations(arch) /\ s[j][2] \in AllLocations(arch)
    BY <1>4
  <2> SUFFICES ASSUME NEW to \in SlotPlaces(arch) PROVE to \in AllLocations(arch)
    OBVIOUS
  <2>2. PICK j \in 1..Len(s) : to \in Entries(s[j])
    BY <1>7
  <2>3. to \in {s[j][1], s[j][2]}
    BY <1>5, <2>2
  <2> QED BY <2>1, <2>3
<1>11. ASSUME NEW j \in 1..Len(s)
       PROVE  /\ Entries(s[j]) = {s[j][1], s[j][2]}
              /\ s[j][1] \in SlotPlaces(arch) /\ s[j][2] \in SlotPlaces(arch)
              /\ s[j][1] # s[j][2] /\ s[j] = <<s[j][1], s[j][2]>>
              /\ \A k \in 1..Len(s) : j # k => Entries(s[j]) \cap Entries(s[k]) = {}
  <2>1. Entries(s[j]) = {s[j][1], s[j][2]} /\ s[j] = <<s[j][1], s[j][2]>>
    BY <1>5
  <2>2. s[j][1] \in SlotPlaces(arch) /\ s[j][2] \in SlotPlaces(arch)
    BY <1>6, <2>1
  <2>3. \A k \in 1..Len(s) : j # k => Entries(s[j]) \cap Entries(s[k]) = {}
    BY <1>5, <1>9
  <2> QED BY <1>8, <2>1, <2>2, <2>3
<1>12. \A to \in SlotPlaces(arch) : \E j \in 1..Len(s) : to \in {s[j][1], s[j][2]}
  BY <1>5, <1>7
<1> QED BY <1>1, <1>2, <1>3, <1>4, <1>10, <1>11, <1>12

LEMMA HopsFromTypes ==
    ASSUME task \in Tasks, NEW from \in AllLocations(arch), NEW to \in SlotPlaces(arch)
    PROVE  HopsFrom(from, to) \in 0..HopLimit(arch) /\ (from = to => HopsFrom(from, to) = 0)
<1>1. arch \in Archs
  BY CallSlots
<1>2. Hops[arch] = [t \in SlotPlaces(arch) |-> HopsTo(arch, t)]
  BY <1>1 DEF Hops, SlotPlaces
<1>3. HopsFrom(from, to) = HopsTo(arch, to)[from]
  BY <1>2 DEF HopsFrom
<1>4. HopsTo(arch, to) \in [AllLocations(arch) -> 0..HopLimit(arch)]
  BY <1>1, HopsTypes
<1>5. from = to => HopsTo(arch, to)[to] = 0
  BY <1>1, HopsTypes
<1> QED BY <1>3, <1>4, <1>5

LEMMA ProductBound ==
    ASSUME NEW b \in Nat, NEW h \in Nat, NEW m \in 0..h
    PROVE  b * m \in Nat /\ b * h \in Nat /\ b * m <= b * h
<1> DEFINE S == {c \in Nat : c * m \in Nat /\ c * h \in Nat /\ c * m <= c * h}
<1>1. 0 \in S
  OBVIOUS
<1>2. ASSUME NEW c \in Nat, c \in S PROVE c + 1 \in S
  <2>1. (c + 1) * m = c * m + m /\ (c + 1) * h = c * h + h
    OBVIOUS
  <2> QED BY <2>1, <1>2
<1>3. Nat \subseteq S
  <2> HIDE DEF S
  <2> QED BY <1>1, <1>2, Induction
<1> QED BY <1>3

\* What an atom's leg costs at most.
LegLimit == HopLimit(arch) + task.beta * HopLimit(arch) + task.move

LEMMA LegCostTypes ==
    ASSUME Typed, NEW q \in DOMAIN config, NEW to \in SlotPlaces(arch)
    PROVE  LegCost(q, to) \in 0..LegLimit /\ LegLimit \in Nat
<1>1. task \in Tasks /\ task.beta \in Nat /\ task.move \in Nat
  BY TasksAssumption DEF Typed, InCall
<1>2. HopLimit(arch) \in Nat
  <2>1. arch \in Archs
    BY <1>1, CallSlots
  <2> QED BY <2>1, LocationsFinite, BigAssumption DEF HopLimit
<1>3. HopsFrom(config[q], to) \in 0..HopLimit(arch)
  <2>1. config[q] \in AllLocations(arch)
    BY DEF Typed
  <2> QED BY <1>1, <2>1, HopsFromTypes
<1>4. q \in DOMAIN NextTargets => HopsFrom(to, NextTargets[q]) \in 0..HopLimit(arch)
  <2> SUFFICES ASSUME q \in DOMAIN NextTargets PROVE HopsFrom(to, NextTargets[q]) \in 0..HopLimit(arch)
    OBVIOUS
  <2>1. NextTargets[q] \in SlotPlaces(arch)
    BY DEF Typed, TargetsTyped
  <2>2. to \in AllLocations(arch)
    BY <1>1, CallSlots
  <2> QED BY <1>1, <2>1, <2>2, HopsFromTypes
<1>5. PICK h \in Nat : h = HopLimit(arch)
  BY <1>2
<1>6. PICK b \in Nat : b = task.beta
  BY <1>1
<1>7. PICK m \in 0..h : m = HopsFrom(config[q], to)
  BY <1>3, <1>5
<1>8. PICK n \in 0..h : n = IF q \in DOMAIN NextTargets THEN HopsFrom(to, NextTargets[q]) ELSE 0
  BY <1>4, <1>5
<1>9. b * n \in Nat /\ b * h \in Nat /\ b * n <= b * h
  BY ProductBound
<1>10. PICK x \in Nat : x = b * n
  BY <1>9
<1>11. PICK y \in Nat : y = b * h
  BY <1>9
<1>12. PICK c \in Nat : c = task.move
  BY <1>1
<1>13. LegLimit = h + y + c
  BY <1>5, <1>6, <1>11, <1>12 DEF LegLimit
<1>14. (IF q \in DOMAIN NextTargets THEN task.beta * HopsFrom(to, NextTargets[q]) ELSE 0) \in 0..y
  <2>1. x <= y
    BY <1>9, <1>10, <1>11
  <2>2. CASE q \in DOMAIN NextTargets
    BY <1>6, <1>8, <1>10, <2>1, <2>2
  <2>3. CASE q \notin DOMAIN NextTargets
    BY <2>3
  <2> QED BY <2>2, <2>3
<1>15. (IF config[q] # to THEN task.move ELSE 0) \in 0..c
  BY <1>12
<1>16. \A i \in 0..h, j \in 0..y, k \in 0..c : i + j + k \in 0..(h + y + c)
  OBVIOUS
<1>17. LegCost(q, to) \in 0..(h + y + c)
  BY <1>7, <1>14, <1>15, <1>16 DEF LegCost
<1> QED BY <1>13, <1>17

\* What a row costs at most, and its cells.
CostLimit == 2 * LegLimit + 2 * task.occupancy
RowTyped(r) == Len(r) \in {1, 2} /\ r[1] \in DOMAIN config /\ (Len(r) = 2 => r[2] \in DOMAIN config)

LEMMA LimitTypes ==
    ASSUME task \in Tasks
    PROVE  /\ LegLimit \in Nat /\ CostLimit \in Nat /\ task.occupancy \in Nat /\ Big \in 0..CostLimit
           /\ 2 * (CostLimit + 1) < Inf /\ Inf \in Nat
<1>1. arch \in Archs /\ task.occupancy \in Nat /\ task.beta \in Nat /\ task.move \in Nat
  BY CallSlots, TasksAssumption
<1>2. PICK h \in Nat : h = HopLimit(arch) /\ Big <= h
  <2>1. HopLimit(arch) \in Nat /\ Big <= HopLimit(arch)
    BY <1>1, LocationsFinite, BigAssumption DEF HopLimit
  <2> QED BY <2>1
<1>3. PICK y \in Nat : y = task.beta * h
  <2>1. h \in 0..h
    BY <1>2
  <2> QED BY <1>1, <2>1, ProductBound
<1>4. LegLimit = h + y + task.move
  BY <1>2, <1>3 DEF LegLimit
<1>5. 2 * (2 * (h + y + task.move) + 2 * task.occupancy + 1) < Inf
  <2>1. h = Big + Cardinality(AllLocations(task.arch))
    BY <1>2 DEF HopLimit, arch
  <2>2. 2 * (2 * (h + task.beta * h + task.move) + 2 * task.occupancy + 1) < Inf
    BY <2>1, WeightsAssumption
  <2> QED BY <2>2, <1>3
<1>6. PICK l \in Nat : l = LegLimit /\ l >= h
  BY <1>1, <1>2, <1>3, <1>4
<1>7. CostLimit = 2 * l + 2 * task.occupancy
  BY <1>6 DEF CostLimit
<1>8. 2 * (2 * l + 2 * task.occupancy + 1) < Inf
  BY <1>4, <1>5, <1>6
<1> QED BY <1>1, <1>2, <1>6, <1>7, <1>8, InfAssumption, BigAssumption

LEMMA TwoAtMost ==
    ASSUME NEW T \in SUBSET {1, 2}
    PROVE  Cardinality(T) \in 0..2
<1>1. Cardinality({}) = 0 /\ IsFiniteSet({})
  BY FS_EmptySet
<1>2. \A n : Cardinality({n}) = 1 /\ IsFiniteSet({n})
  BY FS_Singleton
<1>3. \A S, x : IsFiniteSet(S) /\ x \notin S => Cardinality(S \cup {x}) = Cardinality(S) + 1
  BY FS_AddElement
<1>4. PICK S : S = {1}
  OBVIOUS
<1>5. Cardinality(S \cup {2}) = 2
  <2>1. IsFiniteSet(S) /\ Cardinality(S) = 1 /\ 2 \notin S
    BY <1>2, <1>4
  <2>2. Cardinality(S \cup {2}) = Cardinality(S) + 1
    BY <1>3, <2>1
  <2> QED BY <2>1, <2>2
<1>6. T = {} \/ T = {1} \/ T = {2} \/ T = S \cup {2}
  BY <1>4
<1>7. Cardinality(T) \in {0, 1, 2}
  BY <1>1, <1>2, <1>5, <1>6
<1> QED BY <1>7

LEMMA WayPlaces ==
    ASSUME NEW r, NEW slot, NEW way \in {Ways(r, slot)[1], Ways(r, slot)[2]}, Len(r) \in {1, 2}
    PROVE  /\ way[1] \in {slot[1], slot[2]}
           /\ Len(r) = 2 => way[2] \in {slot[1], slot[2]}
  BY DEF Ways

LEMMA BestWayIsOne ==
    ASSUME NEW r, NEW slot
    PROVE  BestWay(r, slot) \in {Ways(r, slot)[1], Ways(r, slot)[2]}
  BY DEF BestWay

LEMMA WayCostTypes ==
    ASSUME Typed, NEW r, RowTyped(r), NEW j \in 1..Len(slots),
           NEW way \in {Ways(r, slots[j])[1], Ways(r, slots[j])[2]}
    PROVE  WayCost(r, slots[j], way) \in 0..CostLimit
<1>0. task \in Tasks
  BY DEF Typed, InCall
<1>1. way[1] \in SlotPlaces(arch) /\ (Len(r) = 2 => way[2] \in SlotPlaces(arch))
  <2>1. slots[j][1] \in SlotPlaces(arch) /\ slots[j][2] \in SlotPlaces(arch)
    BY <1>0, CallSlots
  <2>2. way[1] \in {slots[j][1], slots[j][2]} /\ (Len(r) = 2 => way[2] \in {slots[j][1], slots[j][2]})
    BY WayPlaces DEF RowTyped
  <2> QED BY <2>1, <2>2
<1>2. PICK l \in Nat : l = LegLimit
  BY <1>0, LimitTypes
<1>3. PICK c \in Nat : c = task.occupancy
  BY <1>0, LimitTypes
<1>4. PICK x \in 0..l : x = LegCost(r[1], way[1])
  BY <1>1, <1>2, LegCostTypes DEF RowTyped
<1>5. PICK y \in 0..l : y = IF Len(r) = 2 THEN LegCost(r[2], way[2]) ELSE 0
  <2>1. Len(r) = 2 => LegCost(r[2], way[2]) \in 0..l
    BY <1>1, <1>2, LegCostTypes DEF RowTyped
  <2> QED BY <1>2, <2>1
<1>6. PICK n \in 0..2 : n = HeldHalves(slots[j])
  <2> DEFINE T == {h \in {1, 2} : \E q \in Standing : config[q] = slots[j][h]}
  <2>1. T \in SUBSET {1, 2}
    OBVIOUS
  <2> HIDE DEF T
  <2>2. Cardinality(T) \in 0..2
    BY <2>1, TwoAtMost
  <2> QED BY <2>2 DEF HeldHalves, T
<1>7. c * n \in 0..(2 * c)
  BY <1>3, <1>6
<1>8. CostLimit = 2 * l + 2 * c
  BY <1>2, <1>3 DEF CostLimit
<1>9. PICK z \in 0..(2 * c) : z = task.occupancy * HeldHalves(slots[j])
  BY <1>3, <1>6, <1>7
<1>10. Big \in 0..CostLimit
  BY <1>0, LimitTypes
<1>11. x + y + z \in 0..CostLimit
  BY <1>8
<1>12. WayCost(r, slots[j], way) \in {Big, x + y + z}
  BY <1>4, <1>5, <1>9 DEF WayCost
<1> QED BY <1>10, <1>11, <1>12

\* What a seed draws for a cell.
LEMMA PerturbedTypes ==
    ASSUME task \in Tasks, NEW i \in Nat \ {0}, NEW j \in 1..Len(slots), NEW c \in 0..CostLimit
    PROVE  Perturbed(i, j, c) \in 0..(CostLimit + 1) /\ (c >= Big => Perturbed(i, j, c) = c)
<1>1. CostLimit \in Nat
  BY LimitTypes
<1>2. CASE task.noise = << >> \/ c >= Big
  <2>1. Perturbed(i, j, c) = c
    BY <1>2 DEF Perturbed
  <2> QED BY <1>1, <2>1
<1>3. CASE ~ (task.noise = << >> \/ c >= Big)
  <2>1. PICK s \in Seq({-1, 0, 1}) : s = task.noise /\ s # << >>
    BY <1>3, TasksAssumption
  <2>2. Len(s) \in Nat /\ Len(s) > 0 /\ \A k \in 1..Len(s) : s[k] \in {-1, 0, 1}
    BY <2>1
  <2>3. PICK x \in Nat : x = (i - 1) * Len(slots) + j - 1
    <3>1. i - 1 \in Nat /\ Len(slots) \in Nat /\ j - 1 \in Nat
      BY CallSlots
    <3>2. \A a, b, d \in Nat : a * b + d \in Nat
      OBVIOUS
    <3>3. \A y \in Nat : y + j - 1 = y + (j - 1)
      OBVIOUS
    <3>4. (i - 1) * Len(slots) \in Nat
      BY <3>1
    <3>5. (i - 1) * Len(slots) + j - 1 \in Nat
      BY <3>1, <3>4
    <3> QED BY <3>5
  <2>4. (x % Len(s)) + 1 \in 1..Len(s)
    <3>1. PICK n \in Nat : n = Len(s) /\ n > 0
      BY <2>2
    <3>2. x % n \in 0..(n - 1)
      BY <3>1
    <3> QED BY <3>1, <3>2
  <2>5. PICK d \in {-1, 0, 1} : d = task.noise[(((i - 1) * Len(slots) + j - 1) % Len(task.noise)) + 1]
    <3>1. s[(x % Len(s)) + 1] \in {-1, 0, 1}
      BY <2>2, <2>4
    <3> QED BY <3>1, <2>1, <2>3
  <2>6. Perturbed(i, j, c) = IF c + d < 0 THEN 0 ELSE c + d
    BY <1>3, <2>5 DEF Perturbed
  <2> QED BY <1>1, <1>3, <2>6
<1> QED BY <1>2, <1>3

\* The cells of the matrix: none that is less than Big is of a blocked place.
LEMMA CellTypes ==
    ASSUME Typed, NEW rows, DOMAIN rows = 1..Len(rows), NEW i \in 1..Len(rows), Len(rows) \in Nat, RowTyped(rows[i]),
           NEW j \in 1..Len(slots)
    PROVE  /\ CostMatrix(rows)[i][j] \in 0..(CostLimit + 1)
           /\ CostMatrix(rows)[i][j] < Big => Entries(BestWay(rows[i], slots[j])) \cap task.blocked = {}
<1>0. task \in Tasks
  BY DEF Typed, InCall
<1>1. PICK c \in 0..CostLimit : c = WayCost(rows[i], slots[j], BestWay(rows[i], slots[j]))
  <2>1. BestWay(rows[i], slots[j]) \in {Ways(rows[i], slots[j])[1], Ways(rows[i], slots[j])[2]}
    BY BestWayIsOne
  <2> QED BY <2>1, WayCostTypes
<1>2. CostMatrix(rows)[i][j] = Perturbed(i, j, c)
  <2>1. DOMAIN slots = 1..Len(slots)
    BY <1>0, CallSlots
  <2> QED BY <1>1, <2>1 DEF CostMatrix
<1>3. Perturbed(i, j, c) \in 0..(CostLimit + 1) /\ (c >= Big => Perturbed(i, j, c) = c)
  BY <1>0, PerturbedTypes
<1>4. Entries(BestWay(rows[i], slots[j])) \cap task.blocked # {} => c = Big
  BY <1>1 DEF WayCost
<1> QED BY <1>2, <1>3, <1>4, BigAssumption

LEMMA MatrixProper ==
    ASSUME Typed, NEW rows, DOMAIN rows = 1..Len(rows), Len(rows) \in Nat, Len(rows) >= 1,
           \A i \in 1..Len(rows) : RowTyped(rows[i])
    PROVE  /\ Proper(CostMatrix(rows))
           /\ Len(CostMatrix(rows)) = Len(rows) /\ DOMAIN CostMatrix(rows) = 1..Len(rows)
           /\ Width(CostMatrix(rows)) = Len(slots)
<1>0. task \in Tasks
  BY DEF Typed, InCall
<1>1. DOMAIN slots = 1..Len(slots) /\ Len(slots) \in Nat
  BY <1>0, CallSlots
<1>2. PICK M : M = CostMatrix(rows)
  OBVIOUS
<1>3. \A i \in 1..Len(rows), j \in 1..Len(slots) : M[i][j] \in 0..(CostLimit + 1)
  BY <1>2, CellTypes
<1>4. DOMAIN M = 1..Len(rows) /\ M = [i \in 1..Len(rows) |-> M[i]]
  BY <1>2 DEF CostMatrix
<1>5. \A i \in 1..Len(rows) : DOMAIN M[i] = 1..Len(slots) /\ M[i] = [j \in 1..Len(slots) |-> M[i][j]]
  BY <1>1, <1>2 DEF CostMatrix
<1>6. CostLimit \in Nat /\ Inf \in Nat /\ 2 * (CostLimit + 1) < Inf
  BY <1>0, LimitTypes
<1>7. ASSUME NEW i \in 1..Len(rows)
      PROVE  M[i] \in Seq(Nat) /\ Len(M[i]) = Len(slots) /\ \A j \in 1..Len(slots) : 2 * M[i][j] < Inf
  <2>1. \A j \in 1..Len(slots) : M[i][j] \in Nat /\ 2 * M[i][j] < Inf
    BY <1>3, <1>6
  <2>2. M[i] \in [1..Len(slots) -> Nat]
    BY <1>5, <2>1
  <2>3. \A n \in Nat : \A r \in [1..n -> Nat] : r \in Seq(Nat) /\ Len(r) = n
    OBVIOUS
  <2> QED BY <1>1, <2>1, <2>2, <2>3
<1>8. M \in Seq(Seq(Nat)) /\ Len(M) = Len(rows)
  <2>1. M \in [1..Len(rows) -> Seq(Nat)]
    BY <1>4, <1>7
  <2>2. \A n \in Nat : \A r \in [1..n -> Seq(Nat)] : r \in Seq(Seq(Nat)) /\ Len(r) = n
    OBVIOUS
  <2> QED BY <2>1, <2>2
<1>9. Width(M) = Len(slots) /\ M # << >>
  <2>1. 1 \in 1..Len(rows)
    OBVIOUS
  <2>2. M # << >>
    BY <1>4, <2>1
  <2> QED BY <1>7, <2>1, <2>2 DEF Width
<1>10. \A i \in DOMAIN M : Len(M[i]) = Width(M) /\ \A j \in 1..Width(M) : 2 * M[i][j] < Inf
  BY <1>4, <1>7, <1>9
<1> QED BY <1>2, <1>4, <1>8, <1>9, <1>10 DEF Proper

\* The rows of a call.
LEMMA CallRows ==
    ASSUME Typed, NEW atoms \in Seq(Others)
    PROVE  /\ Len(RowsWith(atoms)) \in Nat /\ DOMAIN RowsWith(atoms) = 1..Len(RowsWith(atoms))
           /\ \A i \in 1..Len(RowsWith(atoms)) : RowTyped(RowsWith(atoms)[i])
           /\ ValidPairs # << >> => Len(RowsWith(atoms)) >= 1
<1>1. PICK rows : rows = RowsWith(atoms)
  OBVIOUS
<1>2. /\ Len(rows) \in Nat /\ DOMAIN rows = 1..Len(rows)
      /\ Len(rows) = Len(ValidPairs) + Len(atoms)
      /\ \A i \in 1..Len(rows) : PairRow(rows[i]) \/ AtomRow(rows[i], atoms)
  BY <1>1, RowTypes DEF Typed
<1>3. Entries(atoms) \subseteq DOMAIN config
  <2>1. DOMAIN atoms = 1..Len(atoms) /\ \A i \in 1..Len(atoms) : atoms[i] \in Others
    OBVIOUS
  <2> QED BY <2>1 DEF Entries, Others
<1>4. \A i \in 1..Len(rows) : RowTyped(rows[i])
  <2> TAKE i \in 1..Len(rows)
  <2>1. CASE PairRow(rows[i])
    BY <2>1 DEF PairRow, RowTyped
  <2>2. CASE AtomRow(rows[i], atoms)
    BY <1>3, <2>2 DEF AtomRow, RowTyped
  <2> QED BY <1>2, <2>1, <2>2
<1>5. ValidPairs # << >> => Len(rows) >= 1
  <2>1. PICK first \in Seq(Entries(pairs)) : first = ValidPairs
    BY ValidPairTypes DEF Typed
  <2>2. Len(first) \in Nat /\ (Len(first) = 0 => first = << >>)
    OBVIOUS
  <2>3. Len(atoms) \in Nat
    OBVIOUS
  <2> QED BY <1>2, <2>1, <2>2, <2>3
<1> QED BY <1>1, <1>2, <1>4, <1>5

(***************************************************************************)
(* What an assignment makes of the rows.                                   *)
(***************************************************************************)
SlotsGood(t) ==
    /\ DOMAIN t \subseteq DOMAIN config
    /\ \A q \in DOMAIN t : t[q] \in SlotPlaces(arch) /\ t[q] \notin task.blocked
    /\ \A p \in Entries(pairs) : Entries(p) \subseteq DOMAIN t =>
          \E j \in 1..Len(slots) : {t[p[1]], t[p[2]]} = Entries(slots[j])
    /\ \A p, o \in Entries(pairs) : p # o /\ Entries(p) \subseteq DOMAIN t /\ Entries(o) \subseteq DOMAIN t =>
          {t[p[1]], t[p[2]]} \cap {t[o[1]], t[o[2]]} = {}
    /\ \A q, r \in DOMAIN t \ PairQubits : \A j \in 1..Len(slots) : {t[q], t[r]} # Entries(slots[j])
NoneShared(t) == \A q, r \in DOMAIN t : q # r => t[q] # t[r]

\* Pairs have no atom in common.
LEMMA PairsApartFromEachOther ==
    ASSUME InCall
    PROVE  /\ \A p \in Entries(pairs) : p[1] # p[2] /\ p[1] \in PairQubits /\ p[2] \in PairQubits
           /\ \A p, o \in Entries(pairs) : p # o => Entries(p) \cap Entries(o) = {}
<1>1. task \in Tasks /\ Layer \in DOMAIN task.layers
  <2>1. task \in Tasks /\ Layer \in 1..Depth /\ Depth <= Len(task.layers) /\ Len(task.layers) \in Nat /\ Depth \in Nat
    BY TaskTypes DEF InCall, Layer
  <2>2. PICK l \in Seq(Seq(Nat \X Nat)) : l = task.layers
    BY <2>1, TasksAssumption
  <2> QED BY <2>1, <2>2
<1>2. \A i, j \in DOMAIN pairs : pairs[i][1] # pairs[i][2] /\ (i # j => Entries(pairs[i]) \cap Entries(pairs[j]) = {})
  BY <1>1, TasksAssumption DEF pairs
<1>3. \A p \in Entries(pairs) : Entries(p) = {p[1], p[2]}
  BY PairTypes DEF InCall
<1>4. \A p \in Entries(pairs) : \E i \in DOMAIN pairs : p = pairs[i]
  BY DEF Entries
<1>5. \A p \in Entries(pairs) : Entries(p) \subseteq PairQubits
  BY <1>4 DEF PairQubits
<1> QED BY <1>2, <1>3, <1>4, <1>5

\* The halves of a slot, as a row takes them.
TakesSlot(way, slot) ==
    /\ way[1] # way[2] /\ {way[1], way[2]} = Entries(slot)
    /\ way[1] \in Entries(way) /\ way[2] \in Entries(way)

LEMMA WayHalves ==
    ASSUME task \in Tasks, NEW j \in 1..Len(slots), NEW r, NEW way \in {Ways(r, slots[j])[1], Ways(r, slots[j])[2]}
    PROVE  /\ Len(r) = 2 => TakesSlot(way, slots[j])
           /\ Len(r) = 1 => way[1] \in Entries(slots[j]) /\ way[1] \in Entries(way)
<1>1. PICK a, b : /\ slots[j] = <<a, b>> /\ Entries(slots[j]) = {a, b} /\ a # b
  <2>1. /\ slots[j] = <<slots[j][1], slots[j][2]>> /\ Entries(slots[j]) = {slots[j][1], slots[j][2]}
        /\ slots[j][1] # slots[j][2]
    BY CallSlots
  <2> QED BY <2>1
<1>2. CASE Len(r) = 2
  <2>1. way \in {<<a, b>>, <<b, a>>}
    BY <1>1, <1>2 DEF Ways
  <2>2. \A x, y : <<x, y>>[1] = x /\ <<x, y>>[2] = y /\ Entries(<<x, y>>) = {x, y}
    BY DEF Entries
  <2> QED BY <1>1, <1>2, <2>1, <2>2 DEF TakesSlot
<1>3. CASE Len(r) = 1
  <2>1. way \in {<<a>>, <<b>>}
    BY <1>1, <1>3 DEF Ways
  <2>2. \A x : <<x>>[1] = x /\ Entries(<<x>>) = {x}
    BY DEF Entries
  <2> QED BY <1>1, <1>3, <2>1, <2>2
<1> QED BY <1>2, <1>3

\* Every qubit that gets a target has it from a row of its own.
Holds(rows, t, q, i, k) ==
    /\ i \in 1..Len(rows) /\ k \in DOMAIN rows[i] /\ rows[i][k] = q
    /\ matrix[i][columns[i]] < Big
    /\ t[q] = BestWay(rows[i], slots[columns[i]])[k]

LEMMA TargetsHeld ==
    ASSUME NEW rows, DOMAIN rows = 1..Len(rows)
    PROVE  \E holder, half : \A q \in DOMAIN TargetsOf(rows) : Holds(rows, TargetsOf(rows), q, holder[q], half[q])
<1> DEFINE placed == {i \in DOMAIN rows : matrix[i][columns[i]] < Big}
           way(i) == BestWay(rows[i], slots[columns[i]])
           first(q) == CHOOSE i \in placed : q \in Entries(rows[i])
           at(q, i) == CHOOSE k \in DOMAIN rows[i] : rows[i][k] = q
           qubits == UNION {Entries(rows[i]) : i \in placed}
<1>1. TargetsOf(rows) = [q \in qubits |-> LET i == first(q) IN way(i)[at(q, i)]]
  BY DEF TargetsOf
<1>2. PICK t : t = TargetsOf(rows)
  OBVIOUS
<1>3. ASSUME NEW q \in qubits PROVE first(q) \in placed /\ q \in Entries(rows[first(q)])
  BY <1>3
<1>4. ASSUME NEW q \in qubits PROVE at(q, first(q)) \in DOMAIN rows[first(q)] /\ rows[first(q)][at(q, first(q))] = q
  <2>1. q \in Entries(rows[first(q)])
    BY <1>3
  <2> HIDE DEF first
  <2> QED BY <2>1 DEF Entries
<1>5. \A q \in qubits : t[q] = way(first(q))[at(q, first(q))]
  <2> HIDE DEF first, at, way, qubits
  <2> QED BY <1>1, <1>2
<1>6. DOMAIN t = qubits
  <2> HIDE DEF first, at, way, qubits
  <2> QED BY <1>1, <1>2
<1>7. \A i \in placed : i \in 1..Len(rows) /\ matrix[i][columns[i]] < Big
  OBVIOUS
<1> HIDE DEF placed, first, at, qubits
<1>8. PICK holder : holder = [q \in qubits |-> first(q)]
  OBVIOUS
<1>9. PICK half : half = [q \in qubits |-> at(q, first(q))]
  OBVIOUS
<1>10. \A q \in qubits : Holds(rows, t, q, holder[q], half[q])
  <2> TAKE q \in qubits
  <2>1. holder[q] = first(q) /\ half[q] = at(q, first(q))
    BY <1>8, <1>9
  <2> QED BY <2>1, <1>3, <1>4, <1>5, <1>7 DEF Holds
<1> QED BY <1>2, <1>6, <1>10

\* What the columns of an assignment are.
ColumnsOwn(rows) ==
    /\ columns \in [1..Len(rows) -> 1..Len(slots)]
    /\ \A i, k \in 1..Len(rows) : columns[i] = columns[k] => i = k

LEMMA TargetsGood ==
    ASSUME Typed, NEW atoms \in Seq(Others), matrix = CostMatrix(RowsWith(atoms)), ColumnsOwn(RowsWith(atoms))
    PROVE  /\ SlotsGood(TargetsOf(RowsWith(atoms))) /\ NoneShared(TargetsOf(RowsWith(atoms)))
           /\ DOMAIN TargetsOf(RowsWith(atoms)) \subseteq PairQubits \cup Entries(atoms)
<1>0. task \in Tasks /\ InCall
  BY DEF Typed, InCall
<1>1. PICK rows : rows = RowsWith(atoms)
  OBVIOUS
<1>2. /\ Len(rows) \in Nat /\ DOMAIN rows = 1..Len(rows)
      /\ \A i \in 1..Len(rows) : PairRow(rows[i]) \/ AtomRow(rows[i], atoms)
      /\ \A i, k \in 1..Len(rows) : PairRow(rows[i]) /\ rows[i] = rows[k] => i = k
  BY <1>0, <1>1, RowTypes
<1>3. \A i \in 1..Len(rows) : RowTyped(rows[i])
  BY <1>1, CallRows
<1>4. PICK t : t = TargetsOf(rows)
  OBVIOUS
<1>5. PICK holder, half : \A q \in DOMAIN t : Holds(rows, t, q, holder[q], half[q])
  BY <1>2, <1>4, TargetsHeld
<1>6. PICK col \in [1..Len(rows) -> 1..Len(slots)] :
        col = columns /\ \A i, k \in 1..Len(rows) : col[i] = col[k] => i = k
  BY <1>1 DEF ColumnsOwn
<1>7. Entries(atoms) \subseteq Others
  <2>1. DOMAIN atoms = 1..Len(atoms) /\ \A i \in 1..Len(atoms) : atoms[i] \in Others
    OBVIOUS
  <2> QED BY <2>1 DEF Entries
<1> DEFINE Way(q) == BestWay(rows[holder[q]], slots[col[holder[q]]])
           SlotFor(q) == Entries(slots[col[holder[q]]])
\* Row and place of a qubit.
<1>8. ASSUME NEW q \in DOMAIN t
      PROVE  /\ holder[q] \in 1..Len(rows) /\ col[holder[q]] \in 1..Len(slots)
             /\ \/ PairRow(rows[holder[q]]) /\ half[q] \in {1, 2}
                \/ AtomRow(rows[holder[q]], atoms) /\ half[q] = 1
             /\ rows[holder[q]][half[q]] = q /\ t[q] = Way(q)[half[q]]
             /\ t[q] \in SlotFor(q) /\ t[q] \notin task.blocked
             /\ PairRow(rows[holder[q]]) => Way(q)[1] # Way(q)[2] /\ {Way(q)[1], Way(q)[2]} = SlotFor(q)
  <2>1. Holds(rows, t, q, holder[q], half[q])
    BY <1>5
  <2>2. holder[q] \in 1..Len(rows) /\ col[holder[q]] \in 1..Len(slots)
    BY <1>6, <2>1 DEF Holds
  <2>0. PICK r : r = rows[holder[q]]
    OBVIOUS
  <2>3. PICK j \in 1..Len(slots) : r = rows[holder[q]] /\ j = col[holder[q]]
    BY <2>0, <2>2
  <2>4. PICK way \in {Ways(r, slots[j])[1], Ways(r, slots[j])[2]} : way = BestWay(r, slots[j])
    BY BestWayIsOne
  <2>5. PairRow(r) \/ AtomRow(r, atoms)
    BY <1>2, <2>2, <2>3
  <2>6. half[q] \in DOMAIN r /\ r[half[q]] = q /\ t[q] = way[half[q]] /\ way = Way(q)
    BY <1>6, <2>1, <2>3, <2>4 DEF Holds
  <2>7. Entries(way) \cap task.blocked = {}
    <3>1. CostMatrix(rows)[holder[q]][j] < Big
      BY <1>1, <1>6, <2>1, <2>3 DEF Holds
    <3> QED BY <1>2, <1>3, <2>2, <2>3, <2>4, <3>1, CellTypes
  <2>8. CASE PairRow(r)
    <3>1. Len(r) = 2 /\ r = <<r[1], r[2]>>
      BY <2>8 DEF PairRow
    <3>2. half[q] \in {1, 2}
      <4>1. DOMAIN <<r[1], r[2]>> = {1, 2}
        OBVIOUS
      <4> QED BY <2>6, <3>1, <4>1
    <3>3. /\ way[1] # way[2] /\ {way[1], way[2]} = Entries(slots[j])
          /\ way[1] \in Entries(way) /\ way[2] \in Entries(way)
      <4>1. TakesSlot(way, slots[j])
        BY <1>0, <3>1, WayHalves
      <4> QED BY <4>1 DEF TakesSlot
    <3>4. t[q] \in Entries(way) /\ t[q] \in Entries(slots[j])
      BY <2>6, <3>2, <3>3
    <3> QED BY <2>2, <2>3, <2>4, <2>6, <2>7, <2>8, <3>2, <3>3, <3>4
  <2>9. CASE AtomRow(r, atoms)
    <3>1. Len(r) = 1 /\ r = <<r[1]>>
      BY <2>9 DEF AtomRow
    <3>2. half[q] = 1
      <4>1. DOMAIN <<r[1]>> = {1}
        OBVIOUS
      <4> QED BY <2>6, <3>1, <4>1
    <3>3. way[1] \in Entries(slots[j]) /\ way[1] \in Entries(way)
      BY <1>0, <3>1, WayHalves
    <3>4. t[q] \in Entries(way) /\ t[q] \in Entries(slots[j]) /\ ~ PairRow(r)
      BY <2>6, <3>1, <3>2, <3>3 DEF PairRow
    <3> QED BY <2>2, <2>3, <2>4, <2>6, <2>7, <2>9, <3>2, <3>4
  <2> QED BY <2>5, <2>8, <2>9
<1>9. ASSUME NEW q \in DOMAIN t
      PROVE  /\ q \in DOMAIN config /\ q \in PairQubits \cup Entries(atoms)
             /\ PairRow(rows[holder[q]]) => q \in PairQubits /\ rows[holder[q]] \in Entries(pairs)
                                            /\ q \in Entries(rows[holder[q]])
             /\ AtomRow(rows[holder[q]], atoms) => q \notin PairQubits /\ rows[holder[q]][1] = q
  <2>1. PICK r : r = rows[holder[q]]
    OBVIOUS
  <2>2. r[half[q]] = q /\ ((PairRow(r) /\ half[q] \in {1, 2}) \/ (AtomRow(r, atoms) /\ half[q] = 1))
    BY <1>8, <2>1
  <2>3. CASE PairRow(r) /\ half[q] \in {1, 2}
    <3>1. q \in Entries(r) /\ Entries(r) \subseteq DOMAIN config /\ r \in Entries(pairs) /\ Len(r) = 2
      BY <2>2, <2>3 DEF PairRow
    <3>2. q \in {r[1], r[2]}
      BY <2>2, <2>3
    <3>3. q \in PairQubits
      BY <1>0, <3>1, <3>2, PairsApartFromEachOther
    <3> QED BY <2>1, <3>1, <3>3 DEF AtomRow
  <2>4. CASE AtomRow(r, atoms) /\ half[q] = 1
    <3>1. r[1] = q /\ q \in Entries(atoms) /\ Len(r) = 1
      BY <2>2, <2>4 DEF AtomRow
    <3> QED BY <1>7, <2>1, <3>1 DEF Others, PairRow
  <2> QED BY <2>2, <2>3, <2>4
<1>10. \A j, k \in 1..Len(slots) : j # k => Entries(slots[j]) \cap Entries(slots[k]) = {}
  BY <1>0, CallSlots
\* Qubits of different rows.
<1>11. ASSUME NEW q \in DOMAIN t, NEW r \in DOMAIN t, holder[q] # holder[r]
       PROVE  SlotFor(q) \cap SlotFor(r) = {}
  <2>1. col[holder[q]] # col[holder[r]]
    BY <1>6, <1>8, <1>11
  <2> QED BY <1>8, <1>10, <2>1
\* Pairs.
<1>12. ASSUME NEW p \in Entries(pairs), Entries(p) \subseteq DOMAIN t
       PROVE  /\ p[1] \in DOMAIN t /\ p[2] \in DOMAIN t /\ rows[holder[p[1]]] = p
              /\ {t[p[1]], t[p[2]]} = SlotFor(p[1])
  <2>1. Entries(p) = {p[1], p[2]} /\ p[1] # p[2] /\ p[1] \in PairQubits /\ p[2] \in PairQubits
    BY <1>0, PairTypes, PairsApartFromEachOther DEF InCall
  <2>2. ASSUME NEW q \in Entries(p) PROVE rows[holder[q]] = p /\ PairRow(rows[holder[q]]) /\ holder[q] \in 1..Len(rows)
    <3>1. q \in DOMAIN t /\ q \in PairQubits
      BY <1>12, <2>1
    <3>2. PairRow(rows[holder[q]]) /\ rows[holder[q]] \in Entries(pairs) /\ q \in Entries(rows[holder[q]])
      BY <1>8, <1>9, <3>1
    <3>3. rows[holder[q]] = p
      BY <1>0, <3>2, PairsApartFromEachOther
    <3> QED BY <1>8, <3>1, <3>2, <3>3
  <2>3. holder[p[1]] = holder[p[2]]
    BY <1>2, <2>1, <2>2
  <2>4. p[1] \in DOMAIN t /\ p[2] \in DOMAIN t
    BY <1>12, <2>1
  <2>5. /\ half[p[1]] \in {1, 2} /\ half[p[2]] \in {1, 2} /\ p[half[p[1]]] = p[1] /\ p[half[p[2]]] = p[2]
        /\ t[p[1]] = Way(p[1])[half[p[1]]] /\ t[p[2]] = Way(p[1])[half[p[2]]]
        /\ {Way(p[1])[1], Way(p[1])[2]} = SlotFor(p[1])
    <3>1. rows[holder[p[1]]] = p /\ rows[holder[p[2]]] = p /\ PairRow(p)
      BY <2>1, <2>2
    <3>2. Way(p[2]) = Way(p[1])
      BY <2>3
    <3>3. ~ AtomRow(p, atoms)
      BY <3>1, SMTT(60) DEF PairRow, AtomRow
    <3> HIDE DEF Way, SlotFor
    <3> QED BY <1>8, <2>4, <3>1, <3>2, <3>3
  <2>6. half[p[1]] = 1 /\ half[p[2]] = 2
    BY <2>1, <2>5, Zenon
  <2>7. {t[p[1]], t[p[2]]} = SlotFor(p[1])
    <3> HIDE DEF Way, SlotFor
    <3> QED BY <2>5, <2>6
  <2> QED BY <2>1, <2>2, <2>4, <2>7
<1>13. ASSUME NEW p \in Entries(pairs), NEW o \in Entries(pairs), p # o, Entries(p) \subseteq DOMAIN t, Entries(o) \subseteq DOMAIN t
       PROVE  {t[p[1]], t[p[2]]} \cap {t[o[1]], t[o[2]]} = {}
  <2>1. holder[p[1]] # holder[o[1]]
    BY <1>12, <1>13
  <2>2. p[1] \in DOMAIN t /\ o[1] \in DOMAIN t
    BY <1>12, <1>13
  <2>3. SlotFor(p[1]) \cap SlotFor(o[1]) = {}
    BY <1>11, <2>1, <2>2
  <2>4. {t[p[1]], t[p[2]]} = SlotFor(p[1]) /\ {t[o[1]], t[o[2]]} = SlotFor(o[1])
    BY <1>12, <1>13
  <2> HIDE DEF SlotFor
  <2> QED BY <2>3, <2>4
\* Bystanders.
<1>14. ASSUME NEW q \in DOMAIN t \ PairQubits, NEW r \in DOMAIN t \ PairQubits, NEW j \in 1..Len(slots)
       PROVE  {t[q], t[r]} # Entries(slots[j])
  <2>1. CASE q = r
    <3>1. slots[j][1] # slots[j][2] /\ Entries(slots[j]) = {slots[j][1], slots[j][2]}
      BY <1>0, CallSlots
    <3> QED BY <2>1, <3>1
  <2>2. CASE q # r
    <3>1. rows[holder[q]][1] = q /\ rows[holder[r]][1] = r
      BY <1>8, <1>9
    <3>2. holder[q] # holder[r]
      BY <2>2, <3>1
    <3>3. col[holder[q]] # col[holder[r]] /\ col[holder[q]] \in 1..Len(slots) /\ col[holder[r]] \in 1..Len(slots)
      BY <1>6, <1>8, <3>2
    <3>4. t[q] \in Entries(slots[col[holder[q]]]) /\ t[r] \in Entries(slots[col[holder[r]]])
      BY <1>8
    <3>5. SUFFICES ASSUME t[q] \in Entries(slots[j]), t[r] \in Entries(slots[j]) PROVE FALSE
      OBVIOUS
    <3>6. j = col[holder[q]] /\ j = col[holder[r]]
      BY <1>10, <3>3, <3>4, <3>5
    <3> QED BY <3>3, <3>6
  <2> QED BY <2>1, <2>2
\* No two have one target.
<1>15. ASSUME NEW q \in DOMAIN t, NEW r \in DOMAIN t, q # r PROVE t[q] # t[r]
  <2>1. CASE holder[q] # holder[r]
    <3>1. t[q] \in SlotFor(q) /\ t[r] \in SlotFor(r)
      BY <1>8
    <3>2. SlotFor(q) \cap SlotFor(r) = {}
      BY <1>11, <2>1
    <3> HIDE DEF SlotFor
    <3> QED BY <3>1, <3>2
  <2>2. CASE holder[q] = holder[r]
    <3>1. half[q] # half[r]
      BY <1>8, <1>15, <2>2
    <3>2. PairRow(rows[holder[q]]) /\ half[q] \in {1, 2} /\ half[r] \in {1, 2}
      BY <1>8, <2>2, <3>1
    <3>3. Way(q) = Way(r)
      BY <2>2
    <3>4. Way(q)[1] # Way(q)[2] /\ t[q] = Way(q)[half[q]] /\ t[r] = Way(q)[half[r]]
      <4> HIDE DEF Way, SlotFor
      <4> QED BY <1>8, <3>2, <3>3
    <3> HIDE DEF Way
    <3> QED BY <3>1, <3>2, <3>4
  <2> QED BY <2>1, <2>2
<1>16. ASSUME NEW q \in DOMAIN t PROVE t[q] \in SlotPlaces(arch) /\ t[q] \notin task.blocked
  <2>1. \A j \in 1..Len(slots) : Entries(slots[j]) \subseteq SlotPlaces(arch)
    <3>1. ASSUME NEW j \in 1..Len(slots) PROVE Entries(slots[j]) \subseteq SlotPlaces(arch)
      <4>1. /\ Entries(slots[j]) = {slots[j][1], slots[j][2]}
            /\ slots[j][1] \in SlotPlaces(arch) /\ slots[j][2] \in SlotPlaces(arch)
        BY <1>0, CallSlots
      <4> QED BY <4>1
    <3> QED BY <3>1
  <2> QED BY <1>8, <2>1
<1>17. ASSUME NEW p \in Entries(pairs), Entries(p) \subseteq DOMAIN t
       PROVE  \E j \in 1..Len(slots) : {t[p[1]], t[p[2]]} = Entries(slots[j])
  <2>1. p[1] \in DOMAIN t /\ {t[p[1]], t[p[2]]} = SlotFor(p[1])
    BY <1>12, <1>17
  <2> QED BY <1>8, <2>1
<1>18. SlotsGood(t)
  BY <1>9, <1>13, <1>14, <1>16, <1>17 DEF SlotsGood
<1> QED BY <1>1, <1>4, <1>9, <1>15, <1>18 DEF NoneShared

(***************************************************************************)
(* Where the targets of the layers before lead.                            *)
(***************************************************************************)
PlacesTyped(c) == c \in [DOMAIN task.config -> AllLocations(arch)]

LEMMA MovedTyped ==
    ASSUME task \in Tasks, NEW c, PlacesTyped(c), NEW t, TargetsTyped(t)
    PROVE  PlacesTyped(Moved(c, t))
<1>1. SlotPlaces(arch) \in SUBSET AllLocations(arch)
  BY CallSlots
<1>2. \A q \in DOMAIN t : t[q] \in AllLocations(arch)
  BY <1>1 DEF TargetsTyped
<1> QED BY <1>2 DEF Moved, PlacesTyped

LEMMA ConfigBeforeTypes ==
    ASSUME task \in Tasks, NEW layer \in Nat \ {0}, NEW f, \A k \in 1..(layer - 1) : TargetsTyped(f[k])
    PROVE  /\ PlacesTyped(ConfigBefore(layer, f))
           /\ layer = 1 => ConfigBefore(layer, f) = task.config
<1> DEFINE n == layer - 1
           Step(g, k) == IF k = 0 THEN task.config ELSE Moved(g[k - 1], f[k])
           Solves(g, m) == g = [k \in 0..m |-> Step(g, k)]
           Good(g, m) == Solves(g, m) /\ \A k \in 0..m : PlacesTyped(g[k])
           S == {m \in Nat : m <= n => \E g : Good(g, m)}
<1>0. n \in Nat
  OBVIOUS
<1>1. PlacesTyped(task.config)
  BY TasksAssumption DEF PlacesTyped, arch
<1>2. 0 \in S
  <2>1. PICK g : g = [k \in 0..0 |-> task.config]
    OBVIOUS
  <2>2. \A k \in 0..0 : k = 0
    OBVIOUS
  <2>3. Solves(g, 0)
    BY <2>1, <2>2
  <2>4. \A k \in 0..0 : PlacesTyped(g[k])
    BY <1>1, <2>1
  <2> HIDE DEF Solves
  <2> QED BY <2>3, <2>4
<1>3. ASSUME NEW m \in Nat, m \in S PROVE m + 1 \in S
  <2> SUFFICES ASSUME m + 1 <= n PROVE \E g : Good(g, m + 1)
    <3> HIDE DEF Good, n
    <3> QED OBVIOUS
  <2>1. PICK g : Good(g, m)
    <3> HIDE DEF Good, n
    <3> QED BY <1>0, <1>3
  <2>2. PICK next : next = Moved(g[m], f[m + 1])
    OBVIOUS
  <2>3. PlacesTyped(next)
    <3>1. PlacesTyped(g[m])
      <4> HIDE DEF Solves
      <4> QED BY <2>1
    <3>2. TargetsTyped(f[m + 1])
      <4>1. m + 1 \in 1..n
        BY <1>0
      <4> QED BY <4>1
    <3> QED BY <2>2, <3>1, <3>2, MovedTyped
  <2>4. PICK h : h = [k \in 0..(m + 1) |-> IF k = m + 1 THEN next ELSE g[k]]
    OBVIOUS
  <2>5. h[m + 1] = next /\ \A k \in 0..m : h[k] = g[k]
    BY <2>4
  <2>6. \A k \in 0..(m + 1) : k = m + 1 \/ k \in 0..m
    OBVIOUS
  <2>7. \A k \in 0..m : g[k] = Step(g, k)
    <3> HIDE DEF Step, n
    <3> QED BY <2>1
  <2>8. ASSUME NEW k \in 0..(m + 1) PROVE h[k] = Step(h, k)
    <3>1. CASE k = m + 1
      <4>1. k # 0 /\ k - 1 = m /\ m \in 0..m
        BY <3>1
      <4> HIDE DEF n
      <4> QED BY <2>2, <2>5, <3>1, <4>1
    <3>2. CASE k \in 0..m
      <4>1. k = 0 \/ k - 1 \in 0..m
        BY <3>2
      <4> HIDE DEF n
      <4> QED BY <2>5, <2>7, <3>2, <4>1
    <3> QED BY <2>6, <3>1, <3>2
  <2>9. Solves(h, m + 1)
    <3> HIDE DEF Step
    <3> QED BY <2>4, <2>8
  <2>10. \A k \in 0..(m + 1) : PlacesTyped(h[k])
    <3>1. \A k \in 0..m : PlacesTyped(g[k])
      <4> HIDE DEF Solves
      <4> QED BY <2>1
    <3> QED BY <2>3, <2>5, <2>6, <3>1
  <2> HIDE DEF Solves
  <2> QED BY <2>9, <2>10
<1>4. n \in S
  <2> HIDE DEF S, n
  <2> QED BY <1>0, <1>2, <1>3, Induction
<1>5. PICK g : Good(g, n)
  <2> HIDE DEF Good, n
  <2> QED BY <1>0, <1>4
<1> DEFINE G == CHOOSE h : Solves(h, n)
<1>6. Solves(G, n)
  <2>1. Solves(g, n)
    BY <1>5
  <2> HIDE DEF Solves, n
  <2> QED BY <2>1
<1>7. ConfigBefore(layer, f) = G[n]
  BY DEF ConfigBefore
<1> HIDE DEF G
<1>8. \A k \in 0..n : G[k] = Step(G, k)
  <2> HIDE DEF Step, n
  <2> QED BY <1>6
<1>9. \A k \in 0..n : g[k] = Step(g, k)
  <2> HIDE DEF Step, n
  <2> QED BY <1>5
<1> DEFINE E == {m \in Nat : m <= n => G[m] = g[m]}
<1>10. 0 \in E
  <2>1. 0 \in 0..n
    BY <1>0
  <2> HIDE DEF n
  <2> QED BY <2>1, <1>8, <1>9
<1>11. ASSUME NEW m \in Nat, m \in E PROVE m + 1 \in E
  <2> SUFFICES ASSUME m + 1 <= n PROVE G[m + 1] = g[m + 1]
    OBVIOUS
  <2>1. m + 1 \in 0..n /\ m + 1 # 0 /\ (m + 1) - 1 = m /\ G[m] = g[m]
    BY <1>0, <1>11
  <2> HIDE DEF n
  <2> QED BY <2>1, <1>8, <1>9
<1>12. G[n] = g[n]
  <2>1. n \in E
    <3> HIDE DEF E, n
    <3> QED BY <1>0, <1>10, <1>11, Induction
  <2> QED BY <1>0, <2>1
<1>13. n \in 0..n /\ PlacesTyped(g[n])
  <2>1. n \in 0..n
    BY <1>0
  <2> HIDE DEF Solves, n
  <2> QED BY <1>5, <2>1
<1>14. layer = 1 => g[n] = task.config
  <2>1. layer = 1 => n = 0 /\ n \in 0..n
    BY <1>0
  <2> HIDE DEF n
  <2> QED BY <1>9, <2>1
<1> QED BY <1>7, <1>12, <1>13, <1>14

(***************************************************************************)
(* The calls of a task.                                                    *)
(***************************************************************************)
Known == IF turn <= Depth THEN 1..(turn - 1) ELSE 1..Depth
BaseInv ==
    /\ InCall
    /\ PlacesTyped(config)
    /\ \A k \in DOMAIN forward : TargetsTyped(forward[k])
    /\ Layer = 1 => config = task.config

LEMMA BaseTyped ==
    ASSUME BaseInv, DOMAIN forward = Known
    PROVE  Typed
<1>1. TargetsTyped(NextTargets)
  <2>1. CASE turn > Depth
    <3>1. Layer + 1 \in DOMAIN forward
      BY <2>1, TaskTypes DEF BaseInv, InCall, Known, Layer, LayerOf, Turns
    <3>2. NextTargets = forward[Layer + 1]
      BY <2>1 DEF NextTargets
    <3> QED BY <3>1, <3>2 DEF BaseInv
  <2>2. CASE ~ (turn > Depth)
    <3>1. NextTargets = << >> /\ DOMAIN << >> = {}
      BY <2>2 DEF NextTargets
    <3> QED BY <3>1 DEF TargetsTyped
  <2> QED BY <2>1, <2>2
<1> QED BY <1>1 DEF BaseInv, Typed, PlacesTyped

LEMMA DeliverKeeps ==
    ASSUME BaseInv, DOMAIN forward = Known, NEW result, TargetsTyped(result), Deliver(result)
    PROVE  /\ BaseInv' /\ stage' \in {"begin", "returned"}
           /\ stage' = "begin" => DOMAIN forward' = Known'
           /\ stage' = "returned" => turn' = turn /\ config' = config
<1>1. task \in Tasks /\ turn \in 1..Turns /\ task' = task
  BY DEF BaseInv, InCall, Deliver
<1>2. Turns' = Turns /\ Depth' = Depth /\ arch' = arch
  BY <1>1 DEF Turns, Depth, arch
<1>3. Depth \in Nat /\ Depth >= 1 /\ Turns = 2 * Depth - 1 /\ Turns \in Nat
  BY <1>1, TaskTypes DEF Turns
<1>4. PICK f : f = forward'
  OBVIOUS
<1>5. /\ DOMAIN f = DOMAIN forward \cup {Layer}
      /\ \A k \in DOMAIN f : f[k] = IF k = Layer THEN result ELSE forward[k]
  BY <1>4 DEF Deliver
<1>6. \A k \in DOMAIN f : TargetsTyped(f[k])
  BY <1>5 DEF BaseInv
<1>7. (\A k \in DOMAIN forward : TargetsTyped(forward[k]))'
  BY <1>2, <1>4, <1>6 DEF TargetsTyped
<1>8. PlacesTyped(config)
  BY DEF BaseInv
<1>9. CASE turn = Turns
  <2>1. stage' = "returned" /\ turn' = turn /\ config' = config
    BY <1>9 DEF Deliver
  <2>2. Layer' = Layer
    BY <1>2, <2>1 DEF Layer, LayerOf
  <2>3. BaseInv'
    BY <1>1, <1>2, <1>7, <1>8, <2>1, <2>2 DEF BaseInv, InCall, PlacesTyped
  <2> QED BY <2>1, <2>3
<1>10. CASE turn # Turns
  <2>1. stage' = "begin" /\ turn' = turn + 1 /\ config' = ConfigBefore(LayerOf(turn + 1), f)
    BY <1>4, <1>10 DEF Deliver
  <2>2. turn' \in 1..Turns'
    BY <1>1, <1>2, <1>3, <1>10, <2>1
  <2>3. Layer' = LayerOf(turn + 1) /\ LayerOf(turn + 1) \in 1..Depth
    <3>1. LayerOf(turn + 1) \in 1..Depth
      BY <1>1, <1>2, <2>1, <2>2, TaskTypes
    <3> QED BY <1>2, <2>1, <3>1 DEF Layer, LayerOf
  <2>4. DOMAIN f = IF turn + 1 <= Depth THEN 1..turn ELSE 1..Depth
    <3>1. turn \in Nat /\ turn >= 1
      BY <1>1, <1>3
    <3>2. CASE turn <= Depth
      <4>1. DOMAIN forward = 1..(turn - 1) /\ Layer = turn
        BY <3>2 DEF Known, Layer, LayerOf
      <4>2. 1..turn = 1..(turn - 1) \cup {turn}
        BY <3>1
      <4>3. DOMAIN f = 1..turn
        BY <1>5, <4>1, <4>2
      <4> QED BY <1>3, <3>1, <3>2, <4>3
    <3>3. CASE ~ (turn <= Depth)
      <4>1. DOMAIN forward = 1..Depth
        BY <3>3 DEF Known
      <4>2. Layer \in 1..Depth
        BY <1>1, TaskTypes DEF Layer
      <4>3. DOMAIN f = 1..Depth
        BY <1>5, <4>1, <4>2
      <4> QED BY <1>3, <3>1, <3>3, <4>3
    <3> QED BY <3>2, <3>3
  <2>5. DOMAIN forward' = Known'
    <3>1. turn' - 1 = turn
      BY <1>1, <1>3, <2>1
    <3> QED BY <1>2, <1>4, <2>1, <2>4, <3>1 DEF Known
  <2>6. \A k \in 1..(LayerOf(turn + 1) - 1) : k \in DOMAIN f
    BY <1>1, <1>3, <2>3, <2>4 DEF LayerOf
  <2>7. /\ PlacesTyped(config')
        /\ LayerOf(turn + 1) = 1 => config' = task.config
    <3>1. PICK layer \in Nat \ {0} : layer = LayerOf(turn + 1)
      BY <1>3, <2>3
    <3>2. \A k \in 1..(layer - 1) : TargetsTyped(f[k])
      BY <1>6, <2>6, <3>1
    <3>3. /\ PlacesTyped(ConfigBefore(layer, f))
          /\ layer = 1 => ConfigBefore(layer, f) = task.config
      BY <1>1, <3>1, <3>2, ConfigBeforeTypes
    <3> QED BY <2>1, <3>1, <3>3
  <2>8. PlacesTyped(config)'
    BY <1>1, <1>2, <2>7 DEF PlacesTyped
  <2>9. (Layer = 1 => config = task.config)'
    BY <1>1, <2>3, <2>7
  <2>10. InCall'
    BY <1>1, <2>2 DEF InCall
  <2> QED BY <1>7, <2>1, <2>5, <2>8, <2>9, <2>10 DEF BaseInv
<1> QED BY <1>9, <1>10

(***************************************************************************)
(* What a turn does not change.                                            *)
(***************************************************************************)
LEMMA CallFrame ==
    ASSUME UNCHANGED callVars
    PROVE  /\ task' = task /\ turn' = turn /\ forward' = forward /\ config' = config
           /\ arch' = arch /\ slots' = slots /\ Layer' = Layer /\ pairs' = pairs /\ Depth' = Depth /\ Turns' = Turns
           /\ NextTargets' = NextTargets /\ PairQubits' = PairQubits /\ ValidPairs' = ValidPairs /\ Others' = Others
           /\ Known' = Known
           /\ BaseInv => BaseInv'
<1>1. task' = task /\ turn' = turn /\ forward' = forward /\ config' = config
  BY DEF callVars
<1>2. arch' = arch /\ slots' = slots /\ Layer' = Layer /\ pairs' = pairs /\ Depth' = Depth /\ Turns' = Turns
  BY <1>1 DEF arch, slots, Layer, LayerOf, pairs, Depth, Turns
<1>3. NextTargets' = NextTargets /\ Known' = Known
  BY <1>1, <1>2 DEF NextTargets, Known
<1>4. PairQubits' = PairQubits
  BY <1>2 DEF PairQubits
<1>5. ValidPairs' = ValidPairs
  <2>1. {i \in DOMAIN pairs : Present(pairs[i])}' = {i \in DOMAIN pairs : Present(pairs[i])}
    BY <1>1, <1>2 DEF Present
  <2>2. PICK P : P = {i \in DOMAIN pairs : Present(pairs[i])}
    OBVIOUS
  <2>3. PICK Q : Q = {i \in DOMAIN pairs : Present(pairs[i])}'
    OBVIOUS
  <2>4. ValidPairs = OnlyAt(pairs, P)
    BY <2>2 DEF ValidPairs
  <2>5. ValidPairs' = OnlyAt(pairs', Q)
    BY <2>3 DEF ValidPairs
  <2> QED BY <1>2, <2>1, <2>2, <2>3, <2>4, <2>5
<1>6. Others' = Others
  BY <1>1, <1>4 DEF Others
<1>7. BaseInv => BaseInv'
  BY <1>1, <1>2 DEF BaseInv, InCall, PlacesTyped, TargetsTyped
<1> QED BY <1>1, <1>2, <1>3, <1>4, <1>5, <1>6, <1>7

LEMMA MatrixFrame ==
    ASSUME UNCHANGED callVars, blockers' = blockers
    PROVE  /\ RowQubits' = RowQubits /\ Standing' = Standing
           /\ RowsWith(blockers)' = RowsWith(blockers)
           /\ CostMatrix(RowsWith(blockers))' = CostMatrix(RowsWith(blockers))
<1>1. /\ task' = task /\ config' = config /\ arch' = arch /\ slots' = slots /\ NextTargets' = NextTargets
      /\ PairQubits' = PairQubits /\ ValidPairs' = ValidPairs
  BY CallFrame
<1>2. RowQubits' = RowQubits
  BY <1>1 DEF RowQubits
<1>3. Standing' = Standing
  BY <1>1, <1>2 DEF Standing
<1>4. RowsWith(blockers)' = RowsWith(blockers)
  BY <1>1 DEF RowsWith
<1>5. ASSUME NEW q, NEW to PROVE LegCost(q, to)' = LegCost(q, to)
  BY <1>1 DEF LegCost, HopsFrom
<1>6. ASSUME NEW slot PROVE HeldHalves(slot)' = HeldHalves(slot)
  <2>1. PICK P : P = {h \in {1, 2} : \E q \in Standing : config[q] = slot[h]}
    OBVIOUS
  <2>2. PICK Q : Q = {h \in {1, 2} : \E q \in Standing : config[q] = slot[h]}'
    OBVIOUS
  <2>3. P = Q
    BY <1>1, <1>3, <2>1, <2>2
  <2>4. HeldHalves(slot) = Cardinality(P)
    BY <2>1 DEF HeldHalves
  <2>5. HeldHalves(slot)' = Cardinality(Q)
    BY <2>2 DEF HeldHalves
  <2> QED BY <2>3, <2>4, <2>5
<1>7. ASSUME NEW r, NEW slot, NEW way PROVE WayCost(r, slot, way)' = WayCost(r, slot, way)
  BY <1>1, <1>5, <1>6 DEF WayCost
<1>8. ASSUME NEW r, NEW slot PROVE BestWay(r, slot)' = BestWay(r, slot)
  BY <1>7 DEF BestWay
<1>9. ASSUME NEW i, NEW j, NEW c PROVE Perturbed(i, j, c)' = Perturbed(i, j, c)
  BY <1>1 DEF Perturbed
<1>10. ASSUME NEW rows PROVE CostMatrix(rows)' = CostMatrix(rows)
  <2>1. PICK M : M = CostMatrix(rows)
    OBVIOUS
  <2>2. PICK N : N = CostMatrix(rows)'
    OBVIOUS
  <2>3. ASSUME NEW i, NEW j, NEW slot
        PROVE  Perturbed(i, j, WayCost(rows[i], slot, BestWay(rows[i], slot)))'
                 = Perturbed(i, j, WayCost(rows[i], slot, BestWay(rows[i], slot)))
    <3>1. PICK way : way = BestWay(rows[i], slot)
      OBVIOUS
    <3>2. PICK c : c = WayCost(rows[i], slot, way)
      OBVIOUS
    <3>3. way = BestWay(rows[i], slot)' /\ c = WayCost(rows[i], slot, way)'
      BY <1>7, <1>8, <3>1, <3>2
    <3>4. c = WayCost(rows[i], slot, BestWay(rows[i], slot))'
      BY <3>3
    <3>5. Perturbed(i, j, c)' = Perturbed(i, j, c)
      BY <1>9
    <3> QED BY <3>1, <3>2, <3>4, <3>5
  <2>4. PICK S : S = slots
    OBVIOUS
  <2>5. S = slots'
    BY <1>1, <2>4
  <2>6. M = [i \in DOMAIN rows |-> [j \in DOMAIN S |-> Perturbed(i, j, WayCost(rows[i], S[j], BestWay(rows[i], S[j])))]]
    BY <2>1, <2>4 DEF CostMatrix
  <2>7. N = [i \in DOMAIN rows |-> [j \in DOMAIN S |-> Perturbed(i, j, WayCost(rows[i], S[j], BestWay(rows[i], S[j])))']]
    <3>1. N = [i \in DOMAIN rows |-> [j \in DOMAIN slots |-> Perturbed(i, j, WayCost(rows[i], slots[j], BestWay(rows[i], slots[j])))]]'
      BY <2>2 DEF CostMatrix
    <3> QED BY <2>5, <3>1
  <2>8. M = N
    BY <2>3, <2>6, <2>7
  <2> QED BY <2>1, <2>2, <2>8
<1> QED BY <1>4, <1>2, <1>3, <1>10

(***************************************************************************)
(* Who is in the way.                                                      *)
(***************************************************************************)
LEMMA NumbersListed ==
    ASSUME NEW S \in SUBSET Nat, IsFiniteSet(S)
    PROVE  InOrder(S, <) \in Seq(S) /\ (InOrder(S, <) = << >> => S = {})
<1> DEFINE t == InOrder(S, <)
<1>1. S \in SUBSET Int
  OBVIOUS
<1>2. SortedBy(t, S, {x \in S \X S : x[1] < x[2]})
  <2> HIDE DEF t
  <2> QED BY <1>1, NumbersInOrder DEF t
<1> HIDE DEF t
<1>3. t \in Seq(S) /\ Len(t) = Cardinality(S)
  BY <1>2 DEF SortedBy
<1>4. t = << >> => S = {}
  <2> SUFFICES ASSUME t = << >> PROVE S = {}
    OBVIOUS
  <2>1. Cardinality(S) = 0
    BY <1>3
  <2> QED BY <2>1, FS_EmptySet
<1> QED BY <1>3, <1>4 DEF t

LEMMA BothEmpty ==
    ASSUME NEW S, NEW s \in Seq(S), NEW t \in Seq(S)
    PROVE  s \o t \in Seq(S) /\ (s \o t = << >> => s = << >> /\ t = << >>)
<1>1. PICK both \in Seq(S) : both = s \o t
  <2>1. s \o t \in Seq(S)
    OBVIOUS
  <2> QED BY <2>1
<1>2. Len(both) = Len(s) + Len(t) /\ Len(s) \in Nat /\ Len(t) \in Nat
  BY <1>1
<1>3. both = << >> => Len(s) = 0 /\ Len(t) = 0
  BY <1>2
<1>4. (Len(s) = 0 => s = << >>) /\ (Len(t) = 0 => t = << >>)
  OBVIOUS
<1> QED BY <1>1, <1>3, <1>4

LEMMA InTheWayTypes ==
    ASSUME BaseInv, NEW found
    PROVE  /\ InTheWay(found) \in Seq(Standing)
           /\ InTheWay(found) = << >> =>
                 OnTargets(found) = {} /\ (Layer = 1 => PartneredNow = {} /\ PartneredThen(found) = {})
<1> DEFINE hemming == UNION {Hemming(p) : p \in PairQubits \cap DOMAIN config}
           ab == OnTargets(found) \cup hemming
           d == IF Layer = 1 THEN PartneredNow \ ab ELSE {}
           e == IF Layer = 1 THEN PartneredThen(found) \ (ab \cup d) ELSE {}
<1>1. Standing \in SUBSET Nat /\ IsFiniteSet(Standing)
  <2>1. DOMAIN config = DOMAIN task.config
    BY DEF BaseInv, PlacesTyped
  <2>2. DOMAIN task.config \in SUBSET Nat /\ IsFiniteSet(DOMAIN task.config)
    BY TasksAssumption DEF BaseInv, InCall
  <2>3. Standing \in SUBSET DOMAIN task.config
    BY <2>1 DEF Standing
  <2> QED BY <2>2, <2>3, FS_Subset
<1>2. OnTargets(found) \in SUBSET Standing /\ PartneredThen(found) \in SUBSET Standing
  BY DEF OnTargets, PartneredThen
<1>3. hemming \in SUBSET Standing
  <2>1. \A p : Hemming(p) \in SUBSET Standing
    BY DEF Hemming
  <2> QED BY <2>1
<1>4. PartneredNow \in SUBSET Standing
  <2>1. ASSUME NEW x \in PartneredNow PROVE x \in Standing
    <3>1. PICK y \in Standing \X Standing : x \in {y[1], y[2]}
      BY DEF PartneredNow
    <3> QED BY <3>1
  <2> QED BY <2>1
<1>5. InTheWay(found) = (InOrder(ab, <) \o InOrder(d, <)) \o InOrder(e, <)
  BY DEF InTheWay
<1>6. ab \in SUBSET Standing /\ d \in SUBSET Standing /\ e \in SUBSET Standing
  <2> HIDE DEF hemming
  <2> QED BY <1>2, <1>3, <1>4
<1>7. OnTargets(found) \subseteq ab
  OBVIOUS
<1>8. ab = {} /\ d = {} /\ e = {} =>
         OnTargets(found) = {} /\ (Layer = 1 => PartneredNow = {} /\ PartneredThen(found) = {})
  <2> HIDE DEF hemming
  <2> QED OBVIOUS
<1> HIDE DEF ab, d, e
<1>9. ASSUME NEW S \in SUBSET Standing
      PROVE  InOrder(S, <) \in Seq(Standing) /\ (InOrder(S, <) = << >> => S = {})
  <2>1. S \in SUBSET Nat /\ IsFiniteSet(S)
    BY <1>1, FS_Subset
  <2>2. InOrder(S, <) \in Seq(S) /\ (InOrder(S, <) = << >> => S = {})
    BY <2>1, NumbersListed
  <2>3. PICK t \in Seq(S) : t = InOrder(S, <)
    BY <2>2
  <2>4. t \in Seq(Standing)
    OBVIOUS
  <2> QED BY <2>2, <2>3, <2>4
<1>10. PICK x \in Seq(Standing) : x = InOrder(ab, <) /\ (x = << >> => ab = {})
  BY <1>6, <1>9
<1>11. PICK y \in Seq(Standing) : y = InOrder(d, <) /\ (y = << >> => d = {})
  BY <1>6, <1>9
<1>12. PICK z \in Seq(Standing) : z = InOrder(e, <) /\ (z = << >> => e = {})
  BY <1>6, <1>9
<1>13. PICK xy \in Seq(Standing) : xy = x \o y /\ (xy = << >> => x = << >> /\ y = << >>)
  <2>1. x \o y \in Seq(Standing) /\ (x \o y = << >> => x = << >> /\ y = << >>)
    BY BothEmpty
  <2> QED BY <2>1
<1>14. xy \o z \in Seq(Standing) /\ (xy \o z = << >> => xy = << >> /\ z = << >>)
  BY BothEmpty
<1> QED BY <1>5, <1>8, <1>10, <1>11, <1>12, <1>13, <1>14

LEMMA FittingTypes ==
    ASSUME NEW S, NEW atoms \in Seq(S), Len(slots) \in Nat, Len(ValidPairs) \in Nat
    PROVE  Fitting(atoms) \in Seq(S)
<1>0. PICK n \in Nat, m \in Nat : n = Len(slots) /\ m = Len(ValidPairs)
  OBVIOUS
<1>1. PICK room \in Int : room = Len(slots) - Len(ValidPairs)
  <2>1. n - m \in Int
    OBVIOUS
  <2> QED BY <1>0, <2>1
<1>2. CASE Len(atoms) <= room
  BY <1>1, <1>2 DEF Fitting
<1>3. CASE ~ (Len(atoms) <= room)
  <2>1. Fitting(atoms) = SubSeq(atoms, 1, room)
    BY <1>1, <1>3 DEF Fitting
  <2>2. CASE room < 1
    <3>1. SubSeq(atoms, 1, room) = << >>
      BY <2>2
    <3>2. << >> \in Seq(S)
      OBVIOUS
    <3> QED BY <2>1, <3>1, <3>2
  <2>3. CASE room >= 1
    <3>1. SubSeq(atoms, 1, room) \in Seq(S)
      BY <1>3, <2>3
    <3> QED BY <2>1, <3>1
  <2> QED BY <2>2, <2>3
<1> QED BY <1>2, <1>3

\* The slot a pair is sent to is nobody's.
LEMMA LedKeeps ==
    ASSUME InCall, SlotsGood(targets), NEW p \in Entries(pairs), Involved(p), NEW alt \in Alternatives(p)
    PROVE  SlotsGood(Led(p, WayOf(p, alt))) /\ DOMAIN Led(p, WayOf(p, alt)) = DOMAIN targets
<1>0. task \in Tasks
  BY DEF InCall
<1>1. /\ \A o \in Entries(pairs) : Entries(o) = {o[1], o[2]} /\ Len(o) = 2 /\ o[1] # o[2]
      /\ \A o \in Entries(pairs) : o[1] \in PairQubits /\ o[2] \in PairQubits
      /\ \A o \in Entries(pairs) : o # p => Entries(o) \cap Entries(p) = {}
  BY PairTypes, PairsApartFromEachOther DEF InCall
<1>2. p[1] \in DOMAIN targets /\ p[2] \in DOMAIN targets
  BY <1>1 DEF Involved
<1>3. PICK j \in 1..Len(slots), h \in {1, 2} : j = alt[1] /\ h = alt[2]
  BY <1>0, CallSlots DEF Alternatives
<1>4. /\ \A o \in Entries(pairs) : j \notin SlotWith(o)
      /\ Entries(slots[j]) \cap task.blocked = {}
  BY <1>3 DEF Alternatives
<1>5. PICK way \in {Ways(p, slots[j])[1], Ways(p, slots[j])[2]} : way = WayOf(p, alt)
  BY <1>3 DEF WayOf
<1>6. TakesSlot(way, slots[j])
  BY <1>0, <1>1, WayHalves
<1>7. PICK t : t = Led(p, WayOf(p, alt))
  OBVIOUS
<1>8. /\ DOMAIN t = DOMAIN targets /\ t[p[1]] = way[1] /\ t[p[2]] = way[2]
      /\ \A q \in DOMAIN targets : q \notin Entries(p) => t[q] = targets[q]
  BY <1>1, <1>2, <1>5, <1>7 DEF Led
<1>9. {t[p[1]], t[p[2]]} = Entries(slots[j]) /\ t[p[1]] \in Entries(slots[j]) /\ t[p[2]] \in Entries(slots[j])
  BY <1>6, <1>8 DEF TakesSlot
<1>10. ASSUME NEW o \in Entries(pairs), o # p, Entries(o) \subseteq DOMAIN t
       PROVE  t[o[1]] = targets[o[1]] /\ t[o[2]] = targets[o[2]]
  BY <1>1, <1>8, <1>10
<1>11. ASSUME NEW o \in Entries(pairs), o # p, Entries(o) \subseteq DOMAIN t
       PROVE  \E k \in 1..Len(slots) : k # j /\ {t[o[1]], t[o[2]]} = Entries(slots[k])
  <2>1. PICK k \in 1..Len(slots) : {targets[o[1]], targets[o[2]]} = Entries(slots[k])
    BY <1>8, <1>11 DEF SlotsGood
  <2>2. k \in SlotWith(o)
    <3>1. DOMAIN slots = 1..Len(slots)
      BY <1>0, CallSlots
    <3> QED BY <1>8, <1>11, <2>1, <3>1 DEF SlotWith
  <2> QED BY <1>4, <1>10, <1>11, <2>1, <2>2
<1>12. ASSUME NEW k \in 1..Len(slots), k # j PROVE Entries(slots[k]) \cap Entries(slots[j]) = {}
  BY <1>0, <1>12, CallSlots
<1>13. ASSUME NEW q \in DOMAIN t PROVE t[q] \in SlotPlaces(arch) /\ t[q] \notin task.blocked
  <2>1. CASE q \in Entries(p)
    <3>1. q = p[1] \/ q = p[2]
      BY <1>1, <2>1
    <3>2. Entries(slots[j]) \subseteq SlotPlaces(arch)
      <4>1. /\ Entries(slots[j]) = {slots[j][1], slots[j][2]}
            /\ slots[j][1] \in SlotPlaces(arch) /\ slots[j][2] \in SlotPlaces(arch)
        BY <1>0, CallSlots
      <4> QED BY <4>1
    <3> QED BY <1>4, <1>9, <3>1, <3>2
  <2>2. CASE q \notin Entries(p)
    BY <1>8, <2>2 DEF SlotsGood
  <2> QED BY <2>1, <2>2
<1>14. ASSUME NEW o \in Entries(pairs), Entries(o) \subseteq DOMAIN t
       PROVE  \E k \in 1..Len(slots) : {t[o[1]], t[o[2]]} = Entries(slots[k])
  BY <1>9, <1>11, <1>14
<1>15. ASSUME NEW o \in Entries(pairs), o # p, Entries(o) \subseteq DOMAIN t
       PROVE  {t[p[1]], t[p[2]]} \cap {t[o[1]], t[o[2]]} = {}
  <2>1. PICK k \in 1..Len(slots) : k # j /\ {t[o[1]], t[o[2]]} = Entries(slots[k])
    BY <1>11, <1>15
  <2> QED BY <1>9, <1>12, <2>1
<1>16. ASSUME NEW a \in Entries(pairs), NEW b \in Entries(pairs), a # b, Entries(a) \subseteq DOMAIN t, Entries(b) \subseteq DOMAIN t
       PROVE  {t[a[1]], t[a[2]]} \cap {t[b[1]], t[b[2]]} = {}
  <2>1. CASE a = p
    <3>1. {t[p[1]], t[p[2]]} \cap {t[b[1]], t[b[2]]} = {}
      BY <1>15, <1>16, <2>1
    <3> QED BY <2>1, <3>1
  <2>2. CASE b = p
    <3>1. {t[p[1]], t[p[2]]} \cap {t[a[1]], t[a[2]]} = {}
      BY <1>15, <1>16, <2>2
    <3> QED BY <2>2, <3>1
  <2>3. CASE a # p /\ b # p
    <3>1. {targets[a[1]], targets[a[2]]} \cap {targets[b[1]], targets[b[2]]} = {}
      BY <1>8, <1>16 DEF SlotsGood
    <3>2. /\ t[a[1]] = targets[a[1]] /\ t[a[2]] = targets[a[2]]
          /\ t[b[1]] = targets[b[1]] /\ t[b[2]] = targets[b[2]]
      BY <1>10, <1>16, <2>3
    <3> QED BY <3>1, <3>2
  <2> QED BY <2>1, <2>2, <2>3
<1>17. ASSUME NEW q \in DOMAIN t \ PairQubits, NEW r \in DOMAIN t \ PairQubits, NEW k \in 1..Len(slots)
       PROVE  {t[q], t[r]} # Entries(slots[k])
  <2>1. q \notin Entries(p) /\ r \notin Entries(p)
    BY <1>1
  <2>2. t[q] = targets[q] /\ t[r] = targets[r] /\ q \in DOMAIN targets /\ r \in DOMAIN targets
    BY <1>8, <2>1
  <2>3. {targets[q], targets[r]} # Entries(slots[k])
    BY <2>2 DEF SlotsGood
  <2> QED BY <2>2, <2>3
<1>18. DOMAIN t \subseteq DOMAIN config
  BY <1>8 DEF SlotsGood
<1>19. SlotsGood(t)
  BY <1>13, <1>14, <1>16, <1>17, <1>18 DEF SlotsGood
<1> QED BY <1>7, <1>8, <1>19

\* What is known of targets when they are found: those that the repair may change,
\* and those it has begun with.
DoneWith(t, o, agreed) ==
    /\ SlotsGood(t)
    /\ t = o => NoneShared(t)
    /\ DOMAIN t = DOMAIN o /\ DOMAIN o \subseteq RowQubits
    /\ agreed => OnTargets(o) = {} /\ (Layer = 1 => PartneredNow = {} /\ PartneredThen(o) = {})

LEMMA DoneFrame ==
    ASSUME task' = task, turn' = turn, config' = config, blockers' = blockers,
           NEW t, NEW o, NEW agreed, DoneWith(t, o, agreed)
    PROVE  DoneWith(t, o, agreed)'
<1>1. arch' = arch /\ slots' = slots /\ Layer' = Layer /\ pairs' = pairs
  BY DEF arch, slots, Layer, LayerOf, pairs, Depth
<1>2. PairQubits' = PairQubits
  BY <1>1 DEF PairQubits
<1>3. RowQubits' = RowQubits
  BY <1>2 DEF RowQubits
<1>4. Standing' = Standing
  BY <1>3 DEF Standing
<1>5. SlotsGood(t)'
  <2>0. SlotsGood(t)
    BY DEF DoneWith
  <2>1. (\A q \in DOMAIN t : t[q] \in SlotPlaces(arch) /\ t[q] \notin task.blocked)'
    BY <1>1, <2>0 DEF SlotsGood
  <2>2. (\A p \in Entries(pairs) : Entries(p) \subseteq DOMAIN t =>
            \E j \in 1..Len(slots) : {t[p[1]], t[p[2]]} = Entries(slots[j]))'
    BY <1>1, <2>0 DEF SlotsGood
  <2>3. (\A p, m \in Entries(pairs) : p # m /\ Entries(p) \subseteq DOMAIN t /\ Entries(m) \subseteq DOMAIN t =>
            {t[p[1]], t[p[2]]} \cap {t[m[1]], t[m[2]]} = {})'
    BY <1>1, <2>0 DEF SlotsGood
  <2>4. (\A q, r \in DOMAIN t \ PairQubits : \A j \in 1..Len(slots) : {t[q], t[r]} # Entries(slots[j]))'
    BY <1>1, <1>2, <2>0 DEF SlotsGood
  <2>5. (DOMAIN t \subseteq DOMAIN config)'
    BY <2>0 DEF SlotsGood
  <2> QED BY <2>1, <2>2, <2>3, <2>4, <2>5 DEF SlotsGood
<1>6. t = o => NoneShared(t)'
  BY DEF DoneWith, NoneShared
<1>7. OnTargets(o)' = OnTargets(o)
  BY <1>2, <1>4 DEF OnTargets
<1>8. PartneredThen(o)' = PartneredThen(o)
  BY <1>1, <1>2, <1>4 DEF PartneredThen
<1>9. PartneredNow' = PartneredNow
  BY <1>1, <1>4 DEF PartneredNow
<1> QED BY <1>1, <1>3, <1>5, <1>6, <1>7, <1>8, <1>9 DEF DoneWith

(***************************************************************************)
(* The invariant: at every stage of a call what the next needs.            *)
(***************************************************************************)
MatrixMade == matrix = CostMatrix(RowsWith(blockers))
Choosing == {"iterate", "assign", "rebalance", "detect"}
Found == {"repair", "returned"}
SlotInv ==
    stage \in Placing =>
        /\ BaseInv
        /\ stage # "returned" => DOMAIN forward = Known
        /\ stage \in Choosing => blockers \in Seq(Others) /\ ValidPairs # << >>
        /\ stage = "assign" => solving = "panicked" \/ MatrixMade
        /\ stage \in {"rebalance", "detect"} => MatrixMade /\ ColumnsOwn(RowsWith(blockers))
        /\ stage \in Found => DoneWith(targets, original, converged)

LEMMA SlotInit == TargetsInit => SlotInv
<1> SUFFICES ASSUME TargetsInit PROVE SlotInv
  OBVIOUS
<1>1. CASE ReturnInit
  BY <1>1 DEF ReturnInit, SlotInv, Placing
<1>2. CASE EntanglingInit
  <2>1. task \in Tasks /\ turn = 1 /\ forward = << >> /\ config = task.config /\ stage = "begin"
    BY <1>2 DEF EntanglingInit
  <2>2. InCall
    BY <2>1, TaskTypes DEF InCall
  <2>3. PlacesTyped(config)
    BY <2>1, TasksAssumption DEF PlacesTyped, arch
  <2>4. DOMAIN forward = {}
    BY <2>1
  <2>5. Known = {}
    <3>1. Depth \in Nat /\ Depth >= 1 /\ 1..0 = {}
      BY <2>1, TaskTypes
    <3> QED BY <2>1, <3>1 DEF Known
  <2> QED BY <2>1, <2>2, <2>3, <2>4, <2>5 DEF SlotInv, BaseInv, Choosing, Found
<1> QED BY <1>1, <1>2 DEF TargetsInit

\* The rows of the matrix that is made.
LEMMA MadeTypes ==
    ASSUME Typed, blockers \in Seq(Others), ValidPairs # << >>
    PROVE  /\ Proper(CostMatrix(RowsWith(blockers)))
           /\ DOMAIN CostMatrix(RowsWith(blockers)) = 1..Len(RowsWith(blockers))
           /\ Width(CostMatrix(RowsWith(blockers))) = Len(slots) /\ Len(slots) \in Nat
<1>1. PICK rows : rows = RowsWith(blockers)
  OBVIOUS
<1>2. PICK atoms \in Seq(Others) : atoms = blockers
  OBVIOUS
<1>3. /\ Len(rows) \in Nat /\ DOMAIN rows = 1..Len(rows) /\ Len(rows) >= 1
      /\ \A i \in 1..Len(rows) : RowTyped(rows[i])
  BY <1>1, <1>2, CallRows
<1>4. Len(slots) \in Nat
  BY CallSlots DEF Typed, InCall
<1> QED BY <1>1, <1>3, <1>4, MatrixProper

\* More pairs than slots: hungarian panics.
LEMMA TooManyPanics ==
    ASSUME Typed, slots # << >>, Len(ValidPairs) > Len(slots), NEW m, m = CostMatrix(ValidPairs), Assign(m)
    PROVE  solving' = "panicked" /\ ValidPairs # << >>
<1>1. PICK rows \in Seq(Entries(pairs)) : rows = ValidPairs
  BY ValidPairTypes DEF Typed
<1>2. Len(slots) \in Nat
  BY CallSlots DEF Typed, InCall
<1>3. Len(rows) \in Nat /\ DOMAIN rows = 1..Len(rows) /\ Len(rows) >= 1 /\ rows # << >>
  BY <1>1, <1>2
<1>4. ASSUME NEW i \in 1..Len(rows) PROVE RowTyped(rows[i])
  <2>1. rows[i] \in Entries(pairs) /\ Present(rows[i])
    BY <1>1, ValidPairTypes DEF Typed
  <2>2. Entries(rows[i]) = {rows[i][1], rows[i][2]} /\ Len(rows[i]) = 2
    BY <2>1, PairTypes DEF Typed, InCall
  <2> QED BY <2>1, <2>2 DEF Present, RowTyped
<1>5. Len(m) = Len(rows) /\ Width(m) = Len(slots)
  BY <1>1, <1>3, <1>4, MatrixProper
<1> QED BY <1>1, <1>2, <1>3, <1>5 DEF Assign

\* A step within a turn before the targets are found.
LEMMA ChoosingStep ==
    ASSUME SlotInv, stage \in Placing, stage # "returned", stage' \in Choosing, UNCHANGED callVars,
           blockers' \in Seq(Others), ValidPairs # << >>,
           stage' = "assign" => solving' = "panicked" \/ MatrixMade',
           stage' \in {"rebalance", "detect"} => MatrixMade' /\ ColumnsOwn(RowsWith(blockers))'
    PROVE  SlotInv'
<1>1. BaseInv' /\ Known' = Known /\ Others' = Others /\ ValidPairs' = ValidPairs /\ forward' = forward
  BY CallFrame DEF SlotInv
<1>2. DOMAIN forward = Known
  BY DEF SlotInv
<1> QED BY <1>1, <1>2 DEF SlotInv, Choosing, Found

\* The end of a turn.
LEMMA DoneDeliver ==
    ASSUME SlotInv, stage \in Placing, stage # "returned", NEW t, NEW o, NEW agreed, Deliver(t), DoneWith(t, o, agreed),
           targets' = t, original' = o, converged' = agreed, blockers' = blockers
    PROVE  SlotInv'
<1>1. BaseInv /\ DOMAIN forward = Known /\ task' = task
  BY DEF SlotInv, Deliver
<1>2. TargetsTyped(t)
  BY DEF DoneWith, SlotsGood, TargetsTyped
<1>3. /\ BaseInv' /\ stage' \in {"begin", "returned"}
      /\ stage' = "begin" => DOMAIN forward' = Known'
      /\ stage' = "returned" => turn' = turn /\ config' = config
  BY <1>1, <1>2, DeliverKeeps
<1>4. stage' = "returned" => DoneWith(targets, original, converged)'
  <2> SUFFICES ASSUME stage' = "returned" PROVE DoneWith(targets, original, converged)'
    OBVIOUS
  <2>1. DoneWith(t, o, agreed)'
    BY <1>1, <1>3, DoneFrame
  <2> QED BY <2>1
<1> QED BY <1>3, <1>4 DEF SlotInv, Choosing, Found

\* No targets at all.
LEMMA NothingDone ==
    ASSUME BaseInv
    PROVE  DoneWith(<< >>, << >>, FALSE)
<1>1. DOMAIN << >> = {}
  OBVIOUS
<1>2. \A p \in Entries(pairs) : ~ (Entries(p) \subseteq DOMAIN << >>)
  <2> TAKE p \in Entries(pairs)
  <2>1. Entries(p) = {p[1], p[2]}
    BY PairTypes DEF BaseInv, InCall
  <2> QED BY <1>1, <2>1
<1>3. PICK t : t = << >> /\ DOMAIN t = {}
  BY <1>1
<1>4. SlotsGood(t) /\ NoneShared(t)
  BY <1>2, <1>3 DEF SlotsGood, NoneShared
<1> QED BY <1>3, <1>4 DEF DoneWith

LEMMA NothingStep ==
    ASSUME SlotInv, Nothing
    PROVE  SlotInv'
<1>1. /\ stage = "begin" /\ stage \in Placing /\ Deliver(<< >>) /\ targets' = << >> /\ original' = << >> /\ converged' = FALSE
      /\ blockers' = blockers
  BY DEF Nothing, loopVars, Placing
<1>2. DoneWith(<< >>, << >>, FALSE)
  BY <1>1, NothingDone DEF SlotInv
<1> QED BY <1>1, <1>2, DoneDeliver

LEMMA RebalanceStep ==
    ASSUME SlotInv, Rebalance
    PROVE  SlotInv'
<1>1. /\ stage = "rebalance" /\ stage \in Placing /\ UNCHANGED callVars /\ blockers' = blockers /\ matrix' = matrix
      /\ stage' \in {"rebalance", "detect"}
  BY DEF Rebalance, loopVars, hungarianVars, Placing
<1>2. blockers \in Seq(Others) /\ ValidPairs # << >> /\ MatrixMade /\ ColumnsOwn(RowsWith(blockers)) /\ BaseInv /\ DOMAIN forward = Known
  BY <1>1 DEF SlotInv, Choosing
<1>3. /\ DOMAIN matrix = 1..Len(RowsWith(blockers)) /\ Width(matrix) = Len(slots)
  BY <1>2, BaseTyped, MadeTypes DEF MatrixMade
<1>4. PICK n : n = Len(RowsWith(blockers))
  OBVIOUS
<1>5. PICK col \in [1..n -> 1..Len(slots)] : col = columns /\ \A i, k \in 1..n : col[i] = col[k] => i = k
  BY <1>2, <1>4 DEF ColumnsOwn
<1>6. PICK next \in [1..n -> 1..Len(slots)] : next = columns' /\ \A i, k \in 1..n : next[i] = next[k] => i = k
  <2>1. CASE columns' = columns
    BY <1>5, <2>1
  <2>2. CASE columns' # columns
    <3>1. PICK m \in MovesOver : columns' = [columns EXCEPT ![m[1]] = m[2]]
      BY <2>2 DEF Rebalance
    <3>2. m[1] \in 1..n /\ m[2] \in 1..Len(slots) /\ m[2] \notin Entries(columns)
      BY <1>3, <1>4 DEF MovesOver, Rows, Cols
    <3>3. \A i \in 1..n : col[i] # m[2]
      BY <1>5, <3>2 DEF Entries
    <3>4. PICK next : next = [col EXCEPT ![m[1]] = m[2]]
      OBVIOUS
    <3>5. next \in [1..n -> 1..Len(slots)] /\ \A i \in 1..n : next[i] = IF i = m[1] THEN m[2] ELSE col[i]
      BY <3>2, <3>4
    <3>6. next = columns'
      BY <1>5, <3>1, <3>4
    <3>7. \A i, k \in 1..n : next[i] = next[k] => i = k
      <4> TAKE i, k \in 1..n
      <4> HAVE next[i] = next[k]
      <4>1. CASE i = m[1]
        BY <3>3, <3>5, <4>1
      <4>2. CASE i # m[1]
        BY <1>5, <3>3, <3>5, <4>2
      <4> QED BY <4>1, <4>2
    <3> QED BY <3>5, <3>6, <3>7
  <2> QED BY <2>1, <2>2
<1>7. /\ RowsWith(blockers)' = RowsWith(blockers)
      /\ CostMatrix(RowsWith(blockers))' = CostMatrix(RowsWith(blockers))
  BY <1>1, MatrixFrame
<1>8. slots' = slots
  BY <1>1, CallFrame
<1>9. MatrixMade'
  BY <1>1, <1>2, <1>7 DEF MatrixMade
<1>10. ColumnsOwn(RowsWith(blockers))'
  BY <1>4, <1>6, <1>7, <1>8 DEF ColumnsOwn
<1> QED BY <1>1, <1>2, <1>9, <1>10, ChoosingStep DEF Choosing

LEMMA AssignedStep ==
    ASSUME SlotInv, Assigned, Proper(matrix) => AssignmentOptimal
    PROVE  SlotInv'
<1>1. /\ stage = "assign" /\ stage \in Placing /\ solving = "assigned" /\ columns' = ColumnOf
      /\ UNCHANGED callVars /\ blockers' = blockers /\ matrix' = matrix /\ stage' \in {"rebalance", "detect"}
  BY DEF Assigned, loopVars, hungarianVars, Placing
<1>2. blockers \in Seq(Others) /\ ValidPairs # << >> /\ MatrixMade /\ BaseInv /\ DOMAIN forward = Known
  BY <1>1 DEF SlotInv, Choosing
<1>3. /\ Proper(matrix) /\ DOMAIN matrix = 1..Len(RowsWith(blockers)) /\ Width(matrix) = Len(slots)
  BY <1>2, BaseTyped, MadeTypes DEF MatrixMade
<1>4. ColumnOf \in OwnColumns
  BY <1>1, <1>3 DEF AssignmentOptimal
<1>5. PICK n : n = Len(RowsWith(blockers))
  OBVIOUS
<1>6. PICK next \in [1..n -> 1..Len(slots)] : next = ColumnOf /\ \A i, k \in 1..n : next[i] = next[k] => i = k
  BY <1>3, <1>4, <1>5 DEF OwnColumns, Rows, Cols
<1>7. /\ RowsWith(blockers)' = RowsWith(blockers)
      /\ CostMatrix(RowsWith(blockers))' = CostMatrix(RowsWith(blockers))
  BY <1>1, MatrixFrame
<1>8. slots' = slots
  BY <1>1, CallFrame
<1>9. MatrixMade'
  BY <1>1, <1>2, <1>7 DEF MatrixMade
<1>10. ColumnsOwn(RowsWith(blockers))'
  BY <1>1, <1>5, <1>6, <1>7, <1>8 DEF ColumnsOwn
<1> QED BY <1>1, <1>2, <1>9, <1>10, ChoosingStep DEF Choosing

LEMMA BeginStep ==
    ASSUME SlotInv, Begin
    PROVE  SlotInv'
<1>1. /\ stage = "begin" /\ stage \in Placing /\ UNCHANGED callVars /\ blockers' = << >> /\ ValidPairs # << >>
      /\ stage' = "iterate"
  BY DEF Begin, Placing
<1>2. blockers' \in Seq(Others)
  BY <1>1
<1> QED BY <1>1, <1>2, ChoosingStep DEF Choosing

LEMMA TooManyStep ==
    ASSUME SlotInv, TooMany
    PROVE  SlotInv'
<1>1. /\ stage = "begin" /\ stage \in Placing /\ UNCHANGED callVars /\ blockers' = << >> /\ stage' = "assign"
      /\ slots # << >> /\ Len(ValidPairs) > Len(slots)
      /\ \E m \in {CostMatrix(ValidPairs)} : Assign(m)
  BY DEF TooMany, Placing
<1>2. Typed
  BY <1>1, BaseTyped DEF SlotInv
<1>3. PICK m : m = CostMatrix(ValidPairs) /\ Assign(m)
  BY <1>1
<1>4. solving' = "panicked" /\ ValidPairs # << >>
  BY <1>1, <1>2, <1>3, TooManyPanics
<1>5. blockers' \in Seq(Others)
  BY <1>1
<1> QED BY <1>1, <1>4, <1>5, ChoosingStep DEF Choosing

LEMMA IterateStep ==
    ASSUME SlotInv, Iterate
    PROVE  SlotInv'
<1>1. /\ stage = "iterate" /\ stage \in Placing /\ UNCHANGED callVars /\ blockers' = blockers /\ stage' = "assign"
      /\ \E m \in {CostMatrix(RowsWith(blockers))} : Assign(m)
  BY DEF Iterate, Placing, loopVars
<1>2. blockers \in Seq(Others) /\ ValidPairs # << >>
  BY <1>1 DEF SlotInv, Choosing
<1>3. matrix' = CostMatrix(RowsWith(blockers))
  BY <1>1 DEF Assign
<1>4. CostMatrix(RowsWith(blockers))' = CostMatrix(RowsWith(blockers))
  BY <1>1, MatrixFrame
<1>5. MatrixMade'
  BY <1>3, <1>4 DEF MatrixMade
<1> QED BY <1>1, <1>2, <1>5, ChoosingStep DEF Choosing

LEMMA AssigningStep ==
    ASSUME SlotInv, Assigning
    PROVE  SlotInv'
<1>1. /\ stage = "assign" /\ stage \in Placing /\ UNCHANGED callVars /\ blockers' = blockers /\ stage' = "assign"
  BY DEF Assigning, Placing, entanglingVars, loopVars
<1>2. solving # "panicked" /\ matrix' = matrix
  BY DEF Assigning, HungarianNext, Relax, Augment
<1>3. blockers \in Seq(Others) /\ ValidPairs # << >> /\ MatrixMade
  BY <1>1, <1>2 DEF SlotInv, Choosing
<1>4. CostMatrix(RowsWith(blockers))' = CostMatrix(RowsWith(blockers))
  BY <1>1, MatrixFrame
<1>5. MatrixMade'
  BY <1>2, <1>3, <1>4 DEF MatrixMade
<1> QED BY <1>1, <1>3, <1>5, ChoosingStep DEF Choosing

LEMMA DetectStep ==
    ASSUME SlotInv, Detect
    PROVE  SlotInv'
<1>1. stage = "detect" /\ stage \in Placing
  BY DEF Detect, Placing
<1>2. /\ blockers \in Seq(Others) /\ ValidPairs # << >> /\ MatrixMade /\ ColumnsOwn(RowsWith(blockers))
      /\ BaseInv /\ DOMAIN forward = Known
  BY <1>1 DEF SlotInv, Choosing
<1>3. Typed
  BY <1>2, BaseTyped
<1>4. PICK found : found = TargetsOf(RowsWith(blockers))
  OBVIOUS
<1>5. PICK new : new = InTheWay(found)
  OBVIOUS
<1>6. \/ Finish(found, new = << >>) /\ blockers' = blockers
      \/ blockers' = Fitting(blockers \o new) /\ stage' = "iterate" /\ UNCHANGED callVars
  BY <1>4, <1>5 DEF Detect, loopVars
<1>7. PICK atoms \in Seq(Others) : atoms = blockers
  BY <1>2
<1>8. SlotsGood(found) /\ NoneShared(found) /\ DOMAIN found \subseteq PairQubits \cup Entries(atoms)
  BY <1>2, <1>3, <1>4, <1>7, TargetsGood DEF MatrixMade
<1>9. /\ new \in Seq(Standing)
      /\ new = << >> => OnTargets(found) = {} /\ (Layer = 1 => PartneredNow = {} /\ PartneredThen(found) = {})
  BY <1>2, <1>5, InTheWayTypes
<1>10. DoneWith(found, found, new = << >>)
  <2>1. DOMAIN found \subseteq RowQubits
    BY <1>7, <1>8 DEF RowQubits
  <2> QED BY <1>8, <1>9, <2>1 DEF DoneWith
<1>11. CASE Finish(found, new = << >>) /\ blockers' = blockers
  <2>1. targets' = found /\ original' = found /\ converged' = (new = << >>)
    BY <1>11 DEF Finish
  <2>2. CASE Deliver(found)
    <3>1. PICK agreed : agreed = (new = << >>)
      OBVIOUS
    <3>2. DoneWith(found, found, agreed)
      BY <1>10, <3>1
    <3> QED BY <1>1, <1>11, <2>1, <2>2, <3>1, <3>2, DoneDeliver
  <2>3. CASE stage' = "repair" /\ UNCHANGED callVars
    <3>1. /\ BaseInv' /\ Known' = Known /\ forward' = forward
          /\ task' = task /\ turn' = turn /\ config' = config
      BY <1>2, <2>3, CallFrame
    <3>2. PICK agreed : agreed = (new = << >>)
      OBVIOUS
    <3>3. DoneWith(found, found, agreed)
      BY <1>10, <3>2
    <3>4. DoneWith(found, found, agreed)'
      BY <1>11, <3>1, <3>3, DoneFrame
    <3>5. DoneWith(targets, original, converged)'
      BY <2>1, <3>2, <3>4
    <3> QED BY <1>2, <2>3, <3>1, <3>5 DEF SlotInv, Choosing, Found
  <2> QED BY <1>11, <2>2, <2>3 DEF Finish
<1>12. CASE blockers' = Fitting(blockers \o new) /\ stage' = "iterate" /\ UNCHANGED callVars
  <2>1. Standing \subseteq Others
    BY DEF Standing, RowQubits, Others
  <2>2. PICK more \in Seq(Others) : more = atoms \o new
    <3>1. new \in Seq(Others)
      <4>1. PICK s \in Seq(Standing) : s = new
        BY <1>9
      <4>2. \A i \in 1..Len(s) : s[i] \in Others
        BY <2>1
      <4>3. s \in Seq(Others)
        BY <4>2
      <4> QED BY <4>1, <4>3
    <3>2. atoms \o new \in Seq(Others)
      BY <3>1
    <3> QED BY <3>2
  <2>3. Len(slots) \in Nat /\ Len(ValidPairs) \in Nat
    <3>1. Len(slots) \in Nat
      BY <1>3, CallSlots DEF Typed, InCall
    <3>2. PICK first \in Seq(Entries(pairs)) : first = ValidPairs
      BY <1>3, ValidPairTypes DEF Typed
    <3> QED BY <3>1, <3>2
  <2>4. blockers' \in Seq(Others)
    <3>1. Fitting(more) \in Seq(Others)
      BY <2>3, FittingTypes
    <3> QED BY <1>7, <1>12, <2>2, <3>1
  <2> QED BY <1>1, <1>2, <1>12, <2>4, ChoosingStep DEF Choosing
<1> QED BY <1>6, <1>11, <1>12

LEMMA RepairKeepsSlots ==
    ASSUME SlotInv, RepairInv, Repair
    PROVE  SlotInv'
<1>1. /\ stage = "repair" /\ stage \in Placing /\ stage' = "repair" /\ UNCHANGED callVars /\ blockers' = blockers
      /\ original' = original /\ converged' = converged /\ waiting # << >> /\ ~ PairsSeparated(arch, targets, pairs)
  BY DEF Repair, Placing, loopVars
<1>2. DoneWith(targets, original, converged) /\ BaseInv /\ DOMAIN forward = Known
  BY <1>1 DEF SlotInv, Found
<1>3. InCall
  BY <1>2 DEF BaseInv
<1>4. targets = original
  BY <1>1 DEF RepairInv, RepairedOne
<1>5. PICK t : t = targets'
  OBVIOUS
<1>6. DoneWith(t, original, converged)
  <2>1. CASE t = targets
    BY <1>2, <2>1
  <2>2. CASE t # targets
    <3>1. Head(waiting) \in Entries(pairs)
      BY <1>1 DEF RepairInv
    <3>2. PICK p \in Entries(pairs) : p = Head(waiting)
      BY <3>1
    <3>3. PICK alt \in Separating(p) : t = Led(p, WayOf(p, alt)) /\ Involved(p)
      BY <1>5, <2>2, <3>2 DEF Repair
    <3>4. alt \in Alternatives(p)
      BY <3>3 DEF Separating
    <3>5. SlotsGood(t) /\ DOMAIN t = DOMAIN targets
      <4>1. SlotsGood(targets)
        BY <1>2 DEF DoneWith
      <4> QED BY <1>3, <3>3, <3>4, <4>1, LedKeeps
    <3> QED BY <1>2, <1>4, <2>2, <3>5 DEF DoneWith
  <2> QED BY <2>1, <2>2
<1>7. /\ BaseInv' /\ Known' = Known /\ forward' = forward
      /\ task' = task /\ turn' = turn /\ config' = config
  BY <1>1, <1>2, CallFrame
<1>8. PICK o, agreed : o = original /\ agreed = converged
  OBVIOUS
<1>9. DoneWith(t, o, agreed)'
  BY <1>1, <1>6, <1>7, <1>8, DoneFrame
<1>10. DoneWith(targets, original, converged)'
  BY <1>1, <1>5, <1>8, <1>9
<1> QED BY <1>1, <1>2, <1>7, <1>10 DEF SlotInv, Choosing, Found

LEMMA RepairedKeepsSlots ==
    ASSUME SlotInv, Repaired
    PROVE  SlotInv'
<1>1. /\ stage = "repair" /\ stage \in Placing /\ stage # "returned" /\ Deliver(targets)
      /\ blockers' = blockers /\ targets' = targets /\ original' = original /\ converged' = converged
  BY DEF Repaired, Placing, loopVars, resultVars
<1>2. PICK t, o, agreed : t = targets /\ o = original /\ agreed = converged
  OBVIOUS
<1>3. DoneWith(t, o, agreed)
  BY <1>1, <1>2 DEF SlotInv, Found
<1> QED BY <1>1, <1>2, <1>3, DoneDeliver

\* In every turn the matrix is made of the rows and proper, every row has a column of
\* its own also when it is rebalanced, and the targets that are found, repaired and
\* handed on lead the atoms to slots of their own.
THEOREM SlotInvariant == TargetsSpec => []SlotInv
<1> DEFINE Known2 == RepairInv /\ (Proper(matrix) => AssignmentOptimal)
<1>1. ASSUME SlotInv, Known2, [TargetsNext]_<<entanglingVars, hungarianVars, layoutVars>>
      PROVE  SlotInv'
  <2>1. CASE Nothing
    BY <1>1, <2>1, NothingStep
  <2>2. CASE TooMany
    BY <1>1, <2>2, TooManyStep
  <2>3. CASE Begin
    BY <1>1, <2>3, BeginStep
  <2>4. CASE Iterate
    BY <1>1, <2>4, IterateStep
  <2>5. CASE Assigning
    BY <1>1, <2>5, AssigningStep
  <2>6. CASE Assigned
    BY <1>1, <2>6, AssignedStep
  <2>7. CASE Rebalance
    BY <1>1, <2>7, RebalanceStep
  <2>8. CASE Detect
    BY <1>1, <2>8, DetectStep
  <2>9. CASE Repair
    BY <1>1, <2>9, RepairKeepsSlots
  <2>10. CASE Repaired
    BY <1>1, <2>10, RepairedKeepsSlots
  <2>11. CASE ReturnNext
    <3>1. stage' \in BringingHome
      BY <2>11 DEF ReturnNext, LayOutNearest, LayOut, LayingOut, LayOutNext, LaidOut, entanglingVars, BringingHome
    <3> QED BY <3>1 DEF SlotInv, BringingHome, Placing
  <2>12. CASE UNCHANGED <<entanglingVars, hungarianVars, layoutVars>>
    <3>1. /\ UNCHANGED callVars /\ blockers' = blockers /\ stage' = stage /\ columns' = columns /\ targets' = targets
          /\ original' = original /\ converged' = converged /\ matrix' = matrix /\ solving' = solving
      BY <2>12 DEF entanglingVars, loopVars, resultVars, hungarianVars
    <3>2. /\ task' = task /\ turn' = turn /\ forward' = forward /\ config' = config /\ Known' = Known
          /\ Others' = Others /\ ValidPairs' = ValidPairs /\ slots' = slots /\ (BaseInv => BaseInv')
      BY <3>1, CallFrame
    <3>3. /\ RowsWith(blockers)' = RowsWith(blockers)
          /\ CostMatrix(RowsWith(blockers))' = CostMatrix(RowsWith(blockers))
      BY <3>1, MatrixFrame
    <3>4. DoneWith(targets, original, converged) => DoneWith(targets, original, converged)'
      <4> SUFFICES ASSUME DoneWith(targets, original, converged) PROVE DoneWith(targets, original, converged)'
        OBVIOUS
      <4>1. PICK t, o, agreed : t = targets /\ o = original /\ agreed = converged
        OBVIOUS
      <4>2. DoneWith(t, o, agreed)
        BY <4>1
      <4>3. DoneWith(t, o, agreed)'
        BY <3>1, <3>2, <4>2, DoneFrame
      <4> QED BY <3>1, <4>1, <4>3
    <3>5. MatrixMade => MatrixMade'
      BY <3>1, <3>3 DEF MatrixMade
    <3>6. ColumnsOwn(RowsWith(blockers)) => ColumnsOwn(RowsWith(blockers))'
      BY <3>1, <3>2, <3>3 DEF ColumnsOwn
    <3> QED BY <1>1, <3>1, <3>2, <3>4, <3>5, <3>6 DEF SlotInv
  <2> QED BY <1>1, <2>1, <2>2, <2>3, <2>4, <2>5, <2>6, <2>7, <2>8, <2>9, <2>10, <2>11, <2>12 DEF TargetsNext, EntanglingNext
<1>2. TargetsSpec => []Known2
  BY RepairInvariant, AssignmentTheorem, PTL
<1> HIDE DEF Known2
<1> QED BY <1>1, <1>2, SlotInit, PTL DEF TargetsSpec

\* What is known when the call has returned.
LEMMA WhenReturned ==
    ASSUME SlotInv, RepairInv, Returned
    PROVE  /\ BaseInv /\ Layer = 1 /\ pairs = task.layers[1] /\ config = task.config
           /\ Answer = targets /\ RepairedOne /\ DoneWith(targets, original, converged)
<1>1. stage = "returned" /\ stage \in Placing
  BY DEF Returned, Placing
<1>2. task \in Tasks /\ turn = Turns
  BY <1>1 DEF RepairInv, Mode, BringingHome
<1>3. Layer = 1
  BY <1>2, TaskTypes DEF Layer
<1> QED BY <1>1, <1>3 DEF SlotInv, Found, RepairInv, BaseInv, Answer, pairs

\* Whatever the weights, the seed, the rebalancing and the repair do: the pairs
\* that get targets get slots of their own, none of it blocked, and unless one
\* of them was sent elsewhere by the repair, no two atoms have one target.
THEOREM PairsTheorem == TargetsSpec => []PairsGetSlots
<1>1. SlotInv /\ RepairInv => PairsGetSlots
  <2> SUFFICES ASSUME SlotInv, RepairInv, Returned PROVE PairsGetSlots
    BY DEF PairsGetSlots
  <2>1. /\ BaseInv /\ pairs = task.layers[1] /\ DoneWith(targets, original, converged)
    BY WhenReturned
  <2>2. PICK t : t = targets /\ t = Answer
    BY WhenReturned
  <2>3. SlotsGood(t) /\ (targets = original => NoneShared(t))
    BY <2>1, <2>2 DEF DoneWith
  <2>4. ASSUME NEW p \in Entries(pairs), Entries(p) \subseteq DOMAIN t
        PROVE  <<t[p[1]], t[p[2]]>> \in Entries(slots) \cup {<<s[2], s[1]>> : s \in Entries(slots)}
    <3>1. PICK j \in 1..Len(slots) : {t[p[1]], t[p[2]]} = Entries(slots[j])
      BY <2>3, <2>4 DEF SlotsGood
    <3>2. task \in Tasks
      BY <2>1 DEF BaseInv, InCall
    <3>3. /\ Entries(slots[j]) = {slots[j][1], slots[j][2]} /\ slots[j][1] # slots[j][2]
          /\ slots[j] = <<slots[j][1], slots[j][2]>> /\ j \in DOMAIN slots
      BY <3>2, CallSlots
    <3>4. slots[j] \in Entries(slots)
      BY <3>3 DEF Entries
    <3>5. \/ t[p[1]] = slots[j][1] /\ t[p[2]] = slots[j][2]
          \/ t[p[1]] = slots[j][2] /\ t[p[2]] = slots[j][1]
      BY <3>1, <3>3
    <3>6. CASE t[p[1]] = slots[j][1] /\ t[p[2]] = slots[j][2]
      <4>1. <<t[p[1]], t[p[2]]>> = slots[j]
        BY <3>3, <3>6
      <4> QED BY <3>4, <4>1
    <3>7. CASE t[p[1]] = slots[j][2] /\ t[p[2]] = slots[j][1]
      BY <3>4, <3>7
    <3> QED BY <3>5, <3>6, <3>7
  <2>5. \A p, o \in Entries(pairs) : p # o /\ Entries(p) \subseteq DOMAIN t /\ Entries(o) \subseteq DOMAIN t =>
           {t[p[1]], t[p[2]]} \cap {t[o[1]], t[o[2]]} = {}
    BY <2>3 DEF SlotsGood
  <2>6. \A q \in DOMAIN t : t[q] \notin task.blocked
    BY <2>3 DEF SlotsGood
  <2>7. targets = original => \A q, r \in DOMAIN t : q # r => t[q] # t[r]
    BY <2>3 DEF NoneShared
  <2> QED BY <2>1, <2>2, <2>4, <2>5, <2>6, <2>7 DEF PairsGetSlots
<1> QED BY <1>1, SlotInvariant, RepairInvariant, PTL

LEMMA OtherWord ==
    ASSUME NEW Z, NEW W, NEW S, NEW at \in [zone : Z, word : W, site : S], NEW other
    PROVE  [at EXCEPT !.word = other] = [zone |-> at.zone, word |-> other, site |-> at.site]
OBVIOUS

\* The halves of a slot are partners of each other.
LEMMA HalvesArePartners ==
    ASSUME task \in Tasks, NEW j \in 1..Len(slots)
    PROVE  slots[j][2] \in CzPartner(arch, slots[j][1]) /\ slots[j][1] \in CzPartner(arch, slots[j][2])
<1>1. PICK a \in Archs : a = arch
  BY CallSlots
<1>2. slots = SlotsOf(a)
  BY <1>1, CallSlots
<1>3. PICK p \in 1..Len(WordPairs(a)), s \in 1..SitesPerWord(a) : slots[j] = SlotOf(a, WordPairs(a)[p], s)
  <2>1. j \in 1..Len(SlotsOf(a)) /\ slots[j] = SlotsOf(a)[j]
    BY <1>2
  <2>2. \E p \in 1..Len(WordPairs(a)), s \in 1..SitesPerWord(a) : SlotsOf(a)[j] = SlotOf(a, WordPairs(a)[p], s)
    BY <2>1, SlotTypes
  <2> QED BY <2>1, <2>2
<1>4. PICK wp : wp = WordPairs(a)[p]
  OBVIOUS
<1>5. WordPairOfZone(a, wp) /\ InZone(a, wp)
  BY <1>4, WordPairTypes
<1>6. PICK z \in DOMAIN a.zones : z = wp.zone
  BY <1>5 DEF WordPairOfZone
<1>7. PICK ps \in Seq(Nat \X Nat) : ps = a.zones[z].pairs
  BY ArchTypes
<1>8. PICK i \in 1..Len(ps) : wp.words = ps[i]
  BY <1>5, <1>6, <1>7 DEF InZone
<1>9. Len(ps) \in Nat /\ DOMAIN ps = 1..Len(ps) /\ \A k \in 1..Len(ps) : ps[k] \in Nat \X Nat
  BY SMTT(60)
<1>10. PICK v1, v2 : v1 = ps[i][1] /\ v2 = ps[i][2]
  OBVIOUS
<1>11. /\ v1 # v2
       /\ \A k \in 1..Len(ps) : i # k => v1 \notin {ps[k][1], ps[k][2]} /\ v2 \notin {ps[k][1], ps[k][2]}
  <2>1. \A m \in 1..Len(a.zones[z].pairs) :
           /\ a.zones[z].pairs[m][1] # a.zones[z].pairs[m][2]
           /\ \A k \in 1..Len(a.zones[z].pairs) : m # k =>
                 /\ a.zones[z].pairs[m][1] \notin {a.zones[z].pairs[k][1], a.zones[z].pairs[k][2]}
                 /\ a.zones[z].pairs[m][2] \notin {a.zones[z].pairs[k][1], a.zones[z].pairs[k][2]}
    BY ArchTypes, SMTT(60)
  <2> QED BY <1>7, <1>8, <1>10, <2>1
<1>12. \A k \in 1..Len(ps) : Entries(ps[k]) = {ps[k][1], ps[k][2]}
  <2>1. \A q \in Nat \X Nat : Entries(q) = {q[1], q[2]}
    BY SMTT(60) DEF Entries
  <2> QED BY <1>9, <2>1
<1>13. \A w \in {v1, v2} : PairsWith(ps, w) = {i}
  <2> TAKE w \in {v1, v2}
  <2>1. \A k \in DOMAIN ps : w \in Entries(ps[k]) <=> k = i
    BY <1>9, <1>10, <1>11, <1>12
  <2> QED BY <1>9, <2>1 DEF PairsWith
<1>14. \A w \in {v1, v2} : FirstIn(PairsWith(ps, w)) = {i}
  <2>1. FirstIn({i}) = {i}
    BY <1>8 DEF FirstIn
  <2> QED BY <1>13, <2>1
<1>15. slots[j][1] = Loc(z, v1, s) /\ slots[j][2] = Loc(z, v2, s)
  BY <1>3, <1>4, <1>6, <1>8, <1>10 DEF SlotOf
<1>16. \A w \in {v1, v2} : CzPartner(a, Loc(z, w, s)) = {Loc(z, Other(ps[i], w), s)}
  <2> TAKE w \in {v1, v2}
  <2>1. PICK at : at = Loc(z, w, s)
    OBVIOUS
  <2>2. at = [zone |-> z, word |-> w, site |-> s]
    BY <2>1 DEF Loc
  <2>3. at.zone = z /\ at.word = w
    BY <2>2
  <2>4. \A w1 : [at EXCEPT !.word = w1] = [zone |-> z, word |-> w1, site |-> s]
    <3>1. PICK Z, W, S : Z = {z} /\ W = {w} /\ S = {s}
      OBVIOUS
    <3>2. at \in [zone : Z, word : W, site : S]
      BY <2>2, <3>1
    <3>3. \A w1 : [at EXCEPT !.word = w1] = [zone |-> at.zone, word |-> w1, site |-> at.site]
      BY <3>2, OtherWord, SMTT(60)
    <3>4. at.zone = z /\ at.site = s
      BY <2>2
    <3> QED BY <3>3, <3>4
  <2>5. at.zone = z /\ at.word = w /\ [at EXCEPT !.word = Other(ps[i], w)] = Loc(z, Other(ps[i], w), s)
    BY <2>3, <2>4 DEF Loc
  <2>6. CzPartner(a, at) = {[at EXCEPT !.word = Other(ps[k], at.word)] : k \in FirstIn(PairsWith(ps, at.word))}
    BY <1>6, <1>7, <2>5 DEF CzPartner
  <2>7. CzPartner(a, at) = {[at EXCEPT !.word = Other(ps[k], w)] : k \in {i}}
    BY <1>14, <2>5, <2>6
  <2> QED BY <2>1, <2>5, <2>7
<1>17. Other(ps[i], v1) = v2 /\ Other(ps[i], v2) = v1
  BY <1>10, <1>11 DEF Other
<1> QED BY <1>1, <1>15, <1>16, <1>17

\* When the iterations agree and every row has a place, the targets are a goal:
\* all pairs are in slots, and no two other atoms are partners by accident.
THEOREM GoalTheorem == TargetsSpec => []TargetsMeetGoal
<1>1. SlotInv /\ RepairInv => TargetsMeetGoal
  <2> SUFFICES ASSUME SlotInv, RepairInv, Returned, converged, (PairQubits \cup Entries(blockers)) \subseteq DOMAIN Answer
               PROVE  /\ EntanglingGoal(arch, Left, pairs)
                      /\ targets = original => \A p \in PairQubits, q \in DOMAIN Left \ PairQubits : Left[p] # Left[q]
    BY DEF TargetsMeetGoal
  <2>1. /\ BaseInv /\ Layer = 1 /\ config = task.config /\ Answer = targets /\ RepairedOne
        /\ DoneWith(targets, original, converged)
    BY WhenReturned
  <2>2. InCall /\ task \in Tasks
    BY <2>1 DEF BaseInv, InCall
  <2>3. PICK t, o, at : t = targets /\ o = original /\ at = Left
    OBVIOUS
  <2>4. /\ SlotsGood(t) /\ (t = o => NoneShared(t))
        /\ DOMAIN t = DOMAIN o /\ DOMAIN o \subseteq RowQubits
        /\ OnTargets(o) = {} /\ PartneredNow = {} /\ PartneredThen(o) = {}
    BY <2>1, <2>3 DEF DoneWith
  <2>5. DOMAIN t = RowQubits /\ DOMAIN t \subseteq DOMAIN config /\ PairQubits \subseteq RowQubits
    BY <2>1, <2>3, <2>4 DEF RowQubits, SlotsGood
  <2>6. /\ DOMAIN at = DOMAIN config
        /\ \A q \in DOMAIN config : at[q] = IF q \in DOMAIN t THEN t[q] ELSE config[q]
    BY <2>1, <2>3 DEF Left, Moved
  <2>7. Standing = DOMAIN config \ DOMAIN t
    BY <2>5 DEF Standing
  <2>8. \A q \in DOMAIN t \ PairQubits : o[q] = t[q]
    <3> TAKE q \in DOMAIN t \ PairQubits
    <3>1. \A p \in Entries(pairs) : Entries(p) \subseteq PairQubits
      BY <2>2, PairTypes, PairsApartFromEachOther DEF InCall
    <3> QED BY <2>1, <2>3, <3>1 DEF RepairedOne
  <2>9. Slots[arch] = slots /\ DOMAIN slots = 1..Len(slots)
    BY <2>2, CallSlots
  <2>10. PICK valid : valid = UNION {{<<s[1], s[2]>>, <<s[2], s[1]>>} : s \in Entries(slots)}
    OBVIOUS
  <2>11. \A x, y : <<x, y>> \in valid =>
            \E j \in 1..Len(slots) : {x, y} = Entries(slots[j]) /\ y \in CzPartner(arch, x) /\ x \in CzPartner(arch, y)
    <3> SUFFICES ASSUME NEW x, NEW y, <<x, y>> \in valid
                 PROVE  \E j \in 1..Len(slots) : {x, y} = Entries(slots[j]) /\ y \in CzPartner(arch, x) /\ x \in CzPartner(arch, y)
      OBVIOUS
    <3>1. PICK s \in Entries(slots) : <<x, y>> \in {<<s[1], s[2]>>, <<s[2], s[1]>>}
      BY <2>10
    <3>2. PICK j \in 1..Len(slots) : s = slots[j]
      BY <2>9 DEF Entries
    <3>3. (x = slots[j][1] /\ y = slots[j][2]) \/ (x = slots[j][2] /\ y = slots[j][1])
      BY <3>1, <3>2
    <3>4. Entries(slots[j]) = {slots[j][1], slots[j][2]}
      BY <2>2, CallSlots
    <3>5. slots[j][2] \in CzPartner(arch, slots[j][1]) /\ slots[j][1] \in CzPartner(arch, slots[j][2])
      BY <2>2, HalvesArePartners
    <3>6. {x, y} = Entries(slots[j]) /\ y \in CzPartner(arch, x) /\ x \in CzPartner(arch, y)
      BY <3>3, <3>4, <3>5
    <3> QED BY <3>6
  <2>12. ASSUME NEW i \in DOMAIN pairs
         PROVE  Entries(pairs[i]) \subseteq DOMAIN at /\ <<at[pairs[i][1]], at[pairs[i][2]]>> \in valid
    <3>1. PICK p : p = pairs[i]
      OBVIOUS
    <3>2. p \in Entries(pairs)
      BY <3>1 DEF Entries
    <3>3. Entries(p) = {p[1], p[2]} /\ p[1] \in DOMAIN t /\ p[2] \in DOMAIN t
      BY <2>2, <2>5, <3>2, PairTypes, PairsApartFromEachOther DEF InCall
    <3>4. at[p[1]] = t[p[1]] /\ at[p[2]] = t[p[2]]
      BY <2>5, <2>6, <3>3
    <3>5. PICK j \in 1..Len(slots) : {t[p[1]], t[p[2]]} = Entries(slots[j])
      BY <2>4, <3>2, <3>3 DEF SlotsGood
    <3>6. /\ Entries(slots[j]) = {slots[j][1], slots[j][2]} /\ slots[j][1] # slots[j][2]
      BY <2>2, CallSlots
    <3>7. slots[j] \in Entries(slots)
      BY <2>9 DEF Entries
    <3>8. <<slots[j][1], slots[j][2]>> \in valid /\ <<slots[j][2], slots[j][1]>> \in valid
      BY <2>10, <3>7
    <3>9. <<t[p[1]], t[p[2]]>> \in valid
      BY <3>5, <3>6, <3>8
    <3> QED BY <2>5, <2>6, <3>1, <3>3, <3>4, <3>9
  <2>13. PICK bystanders : bystanders = DOMAIN at \ PairQubits
    OBVIOUS
  <2>14. ASSUME NEW q \in bystanders, NEW r \in bystanders PROVE <<at[q], at[r]>> \notin valid
    <3> SUFFICES ASSUME <<at[q], at[r]>> \in valid PROVE FALSE
      OBVIOUS
    <3>1. PICK j \in 1..Len(slots) :
            {at[q], at[r]} = Entries(slots[j]) /\ at[r] \in CzPartner(arch, at[q]) /\ at[q] \in CzPartner(arch, at[r])
      BY <2>11
    <3>2. CASE q \in DOMAIN t /\ r \in DOMAIN t
      <4>1. at[q] = t[q] /\ at[r] = t[r]
        BY <2>5, <2>6, <3>2
      <4> QED BY <2>4, <2>13, <3>1, <3>2, <4>1 DEF SlotsGood
    <3>3. CASE q \in DOMAIN t /\ r \notin DOMAIN t
      <4>1. at[q] = o[q] /\ at[r] = config[r] /\ r \in Standing /\ q \in DOMAIN o \ PairQubits
        BY <2>4, <2>5, <2>6, <2>7, <2>8, <2>13, <3>3
      <4>2. r \in PartneredThen(o)
        BY <3>1, <4>1 DEF PartneredThen
      <4> QED BY <2>4, <4>2
    <3>4. CASE q \notin DOMAIN t /\ r \in DOMAIN t
      <4>1. at[r] = o[r] /\ at[q] = config[q] /\ q \in Standing /\ r \in DOMAIN o \ PairQubits
        BY <2>4, <2>5, <2>6, <2>7, <2>8, <2>13, <3>4
      <4>2. q \in PartneredThen(o)
        BY <3>1, <4>1 DEF PartneredThen
      <4> QED BY <2>4, <4>2
    <3>5. CASE q \notin DOMAIN t /\ r \notin DOMAIN t
      <4>1. at[r] = config[r] /\ at[q] = config[q] /\ q \in Standing /\ r \in Standing
        BY <2>6, <2>7, <2>13, <3>5
      <4>2. PICK e : e = <<q, r>>
        OBVIOUS
      <4>3. e \in Standing \X Standing /\ e[1] = q /\ e[2] = r /\ config[e[2]] \in CzPartner(arch, config[e[1]])
        BY <3>1, <4>1, <4>2
      <4>4. q \in PartneredNow
        BY <4>3 DEF PartneredNow
      <4> QED BY <2>4, <4>4
    <3> QED BY <3>2, <3>3, <3>4, <3>5
  <2>15. EntanglingGoal(arch, at, pairs)
    <3>1. DOMAIN at \ UNION {Entries(pairs[i]) : i \in DOMAIN pairs} = bystanders
      BY <2>13 DEF PairQubits
    <3>2. \A p \in {<<at[q], at[r]>> : q, r \in bystanders} : p \notin valid
      BY <2>14
    <3>3. {<<at[q], at[r]>> : q, r \in bystanders} \cap valid = {}
      BY <3>2
    <3>4. valid = UNION {{<<s[1], s[2]>>, <<s[2], s[1]>>} : s \in Entries(Slots[arch])}
      BY <2>9, <2>10
    <3> QED BY <2>12, <3>1, <3>3, <3>4 DEF EntanglingGoal
  <2>16. ASSUME t = o, NEW p \in PairQubits, NEW q \in DOMAIN at \ PairQubits PROVE at[p] # at[q]
    <3>1. p \in DOMAIN t /\ at[p] = t[p] /\ p # q /\ q \in DOMAIN config
      BY <2>5, <2>6
    <3>2. CASE q \in DOMAIN t
      <4>1. at[q] = t[q]
        BY <2>6, <3>1, <3>2
      <4> QED BY <2>4, <2>16, <3>1, <3>2, <4>1 DEF NoneShared
    <3>3. CASE q \notin DOMAIN t
      <4>1. at[q] = config[q] /\ q \in Standing
        BY <2>6, <2>7, <3>1, <3>3
      <4>2. o[p] = config[q] => q \in OnTargets(o)
        BY <2>4, <3>1, <4>1 DEF OnTargets
      <4> QED BY <2>4, <2>16, <3>1, <4>1, <4>2
    <3> QED BY <3>2, <3>3
  <2> QED BY <2>3, <2>15, <2>16
<1> QED BY <1>1, SlotInvariant, RepairInvariant, PTL

LEMMA LeastOne ==
    ASSUME NEW S \in SUBSET Nat, S # {}
    PROVE  Least(S) \in S /\ Least(S) \in Nat /\ \A m \in S : Least(S) <= m
<1>1. \E n \in S : \A m \in S : n <= m
  BY LeastNumber
<1>2. Least(S) \in S /\ \A m \in S : Least(S) <= m
  BY <1>1 DEF Least
<1> QED BY <1>2

LEMMA MostOne ==
    ASSUME NEW S \in SUBSET Nat, IsFiniteSet(S), S # {}
    PROVE  Most(S) \in S /\ Most(S) \in Nat /\ \A m \in S : m <= Most(S)
<1>1. \E n \in S : \A m \in S : m <= n
  <2>1. S \in SUBSET Int
    OBVIOUS
  <2> QED BY <2>1, GreatestNumber
<1>2. \E n \in S : \A m \in S : n >= m
  <2>1. \A n, m \in S : m <= n => n >= m
    OBVIOUS
  <2> QED BY <1>1, <2>1
<1>3. Most(S) \in S /\ \A m \in S : Most(S) >= m
  BY <1>2 DEF Most
<1>4. \A m \in S : m <= Most(S)
  <2>1. \A n, m \in S : n >= m => m <= n
    OBVIOUS
  <2> QED BY <1>3, <2>1
<1> QED BY <1>3, <1>4

LEMMA HopsNat ==
    ASSUME task \in Tasks
    PROVE  \A from \in AllLocations(arch) : \A to \in SlotPlaces(arch) : HopsFrom(from, to) \in Nat
<1>1. PICK a \in Archs : a = arch
  BY CallSlots
<1>2. PICK n \in Nat : n = HopLimit(a)
  BY LocationsFinite, BigAssumption DEF HopLimit
<1>3. \A from \in AllLocations(arch) : \A to \in SlotPlaces(arch) : HopsFrom(from, to) \in 0..HopLimit(arch)
  BY HopsFromTypes
<1> QED BY <1>1, <1>2, <1>3

\* No site of a word is nearer than the word.
LEMMA HopsToWordLow ==
    ASSUME task \in Tasks, NEW from \in AllLocations(arch), NEW p \in 1..Len(WordPairs(arch)), NEW h \in {1, 2},
           NEW s \in 1..SitesPerWord(arch)
    PROVE  /\ HopsToWord(from, WordPairs(arch)[p].zone, WordPairs(arch)[p].words[h]) \in Nat
           /\ HopsToWord(from, WordPairs(arch)[p].zone, WordPairs(arch)[p].words[h])
                <= HopsFrom(from, SlotOf(arch, WordPairs(arch)[p], s)[h])
<1>1. PICK wp : wp = WordPairs(arch)[p]
  OBVIOUS
<1>2. PICK N \in Nat : N = SitesPerWord(arch)
  BY CallSlots, ArchTypes
<1>3. \A r \in 1..N : Loc(wp.zone, wp.words[h], r) = SlotOf(arch, wp, r)[h]
  BY DEF SlotOf
<1>4. \A r \in 1..N : SlotOf(arch, wp, r)[h] \in SlotPlaces(arch)
  <2> TAKE r \in 1..N
  <2>1. \E j \in 1..Len(SlotsOf(arch)) : SlotsOf(arch)[j] = SlotOf(arch, WordPairs(arch)[p], r)
    <3>1. PICK a \in Archs : a = arch
      BY CallSlots
    <3>2. p \in 1..Len(WordPairs(a)) /\ r \in 1..SitesPerWord(a)
      BY <1>2, <3>1
    <3>3. \E j \in 1..Len(SlotsOf(a)) : SlotsOf(a)[j] = SlotOf(a, WordPairs(a)[p], r)
      <4>1. \A o \in 1..Len(WordPairs(a)) : \A t \in 1..SitesPerWord(a) :
               \E j \in 1..Len(SlotsOf(a)) : SlotsOf(a)[j] = SlotOf(a, WordPairs(a)[o], t)
        BY SlotTypes
      <4> QED BY <3>2, <4>1
    <3> QED BY <3>1, <3>3
  <2>2. PICK j \in 1..Len(slots) : slots[j] = SlotOf(arch, wp, r)
    BY <1>1, <2>1, CallSlots
  <2>3. slots[j][1] \in SlotPlaces(arch) /\ slots[j][2] \in SlotPlaces(arch)
    BY CallSlots
  <2> QED BY <2>2, <2>3
<1>5. PICK S : S = {HopsFrom(from, Loc(wp.zone, wp.words[h], r)) : r \in 1..N}
  OBVIOUS
<1>6. \A r \in 1..N : HopsFrom(from, SlotOf(arch, wp, r)[h]) \in Nat
  BY <1>4, HopsNat
<1>7. S \in SUBSET Nat /\ HopsFrom(from, SlotOf(arch, wp, s)[h]) \in S
  BY <1>2, <1>3, <1>5, <1>6
<1>8. HopsToWord(from, wp.zone, wp.words[h]) = Least(S)
  BY <1>2, <1>5 DEF HopsToWord
<1>9. S # {}
  BY <1>7
<1>10. Least(S) \in Nat /\ \A m \in S : Least(S) <= m
  BY <1>7, <1>9, LeastOne
<1> QED BY <1>1, <1>7, <1>8, <1>10

\* The estimate of a pair is no more than the longer way to any slot, either way round.
LEMMA PairEstimateLow ==
    ASSUME task \in Tasks, NEW p, NEW at, at[p[1]] \in AllLocations(arch), at[p[2]] \in AllLocations(arch),
           NEW j \in 1..Len(slots), NEW x, NEW y,
           (x = slots[j][1] /\ y = slots[j][2]) \/ (x = slots[j][2] /\ y = slots[j][1])
    PROVE  /\ PairEstimate(p, at) \in Nat
           /\ PairEstimate(p, at) <= LongerOf(HopsFrom(at[p[1]], x), HopsFrom(at[p[2]], y))
<1> DEFINE Way(wp, h) == LongerOf(HopsToWord(at[p[1]], wp.zone, wp.words[h]), HopsToWord(at[p[2]], wp.zone, wp.words[3 - h]))
<1>1. PICK a \in Archs : a = arch
  BY CallSlots
<1>2. PICK k \in 1..Len(WordPairs(a)), s \in 1..SitesPerWord(a) : slots[j] = SlotOf(a, WordPairs(a)[k], s)
  <2>1. slots = SlotsOf(a)
    BY <1>1, CallSlots
  <2>2. j \in 1..Len(SlotsOf(a)) /\ slots[j] = SlotsOf(a)[j]
    BY <2>1
  <2>3. \E o \in 1..Len(WordPairs(a)), s \in 1..SitesPerWord(a) : SlotsOf(a)[j] = SlotOf(a, WordPairs(a)[o], s)
    BY <2>2, SlotTypes
  <2> QED BY <2>2, <2>3
<1>3. PICK W : W = WordPairs(a)
  OBVIOUS
<1>4. DOMAIN W = 1..Len(W)
  BY <1>3, WordPairTypes
<1>5. Entries(W) = {W[o] : o \in 1..Len(W)}
  BY <1>4 DEF Entries
<1>6. \A m, n \in Nat : LongerOf(m, n) \in Nat /\ m <= LongerOf(m, n) /\ n <= LongerOf(m, n)
  BY DEF LongerOf
<1>7. \A m, n, b, c \in Nat : m <= b /\ n <= c => LongerOf(m, n) <= LongerOf(b, c)
  BY DEF LongerOf
<1>8. \A h \in {1, 2} : 3 - h \in {1, 2}
  OBVIOUS
<1>9. \A from \in AllLocations(a) : \A o \in 1..Len(W) : \A h \in {1, 2} : HopsToWord(from, W[o].zone, W[o].words[h]) \in Nat
  BY <1>1, <1>2, <1>3, HopsToWordLow, ZenonT(60)
<1>10. \A wp \in Entries(W) : \A h \in {1, 2} : Way(wp, h) \in Nat
  <2> TAKE wp \in Entries(W)
  <2> TAKE h \in {1, 2}
  <2>1. PICK o \in 1..Len(W) : wp = W[o]
    BY <1>5
  <2>2. HopsToWord(at[p[1]], wp.zone, wp.words[h]) \in Nat /\ HopsToWord(at[p[2]], wp.zone, wp.words[3 - h]) \in Nat
    BY <1>1, <1>8, <1>9, <2>1
  <2> QED BY <1>6, <2>2
<1> DEFINE S == {Way(wp, h) : wp \in Entries(W), h \in {1, 2}}
<1>11. S \in SUBSET Nat
  <2> HIDE DEF Way
  <2> QED BY <1>10
<1>12. PairEstimate(p, at) = Least(S)
  BY <1>1, <1>3 DEF PairEstimate
<1> HIDE DEF S
<1>13. PICK n \in {1, 2} : x = slots[j][n] /\ y = slots[j][3 - n]
  <2>1. 3 - 1 = 2 /\ 3 - 2 = 1
    OBVIOUS
  <2> QED BY <2>1
<1>14. Way(W[k], n) \in S
  <2>1. W[k] \in Entries(W)
    BY <1>2, <1>3, <1>5
  <2> HIDE DEF Way
  <2> QED BY <2>1 DEF S
<1>15. HopsFrom(at[p[1]], x) \in Nat /\ HopsFrom(at[p[2]], y) \in Nat
  <2>1. slots[j][1] \in SlotPlaces(arch) /\ slots[j][2] \in SlotPlaces(arch)
    BY CallSlots
  <2>2. x \in SlotPlaces(arch) /\ y \in SlotPlaces(arch)
    BY <2>1
  <2> QED BY <2>2, HopsNat
<1>16. Way(W[k], n) <= LongerOf(HopsFrom(at[p[1]], x), HopsFrom(at[p[2]], y))
  <2>1. /\ HopsToWord(at[p[1]], W[k].zone, W[k].words[n]) \in Nat
        /\ HopsToWord(at[p[1]], W[k].zone, W[k].words[n]) <= HopsFrom(at[p[1]], x)
    BY <1>1, <1>2, <1>3, <1>13, HopsToWordLow
  <2>2. 3 - n \in {1, 2}
    BY <1>8
  <2>3. /\ HopsToWord(at[p[2]], W[k].zone, W[k].words[3 - n]) \in Nat
        /\ HopsToWord(at[p[2]], W[k].zone, W[k].words[3 - n]) <= HopsFrom(at[p[2]], y)
    BY <1>1, <1>2, <1>3, <1>13, <2>2, HopsToWordLow
  <2> QED BY <1>7, <1>15, <2>1, <2>3
<1>17. Least(S) \in Nat /\ Least(S) <= Way(W[k], n)
  <2>1. S # {}
    BY <1>14
  <2> HIDE DEF Way
  <2> QED BY <1>11, <1>14, <2>1, LeastOne
<1>18. Way(W[k], n) \in Nat /\ LongerOf(HopsFrom(at[p[1]], x), HopsFrom(at[p[2]], y)) \in Nat
  <2> HIDE DEF Way
  <2> QED BY <1>6, <1>11, <1>14, <1>15
<1> HIDE DEF Way
<1>19. \A m, n1, q \in Nat : m <= n1 /\ n1 <= q => m <= q
  OBVIOUS
<1> QED BY <1>12, <1>16, <1>17, <1>18, <1>19

\* The estimate of a layer is no more than any bound of the estimates of its pairs.
LEMMA LayerEstimate ==
    ASSUME NEW at, NEW l \in Seq(Nat \X Nat), NEW bound \in Nat,
           \A p \in Entries(l) : PairEstimate(p, at) \in Nat /\ PairEstimate(p, at) <= bound
    PROVE  EstimateMax(at, l) \in Nat /\ EstimateMax(at, l) <= bound
<1> DEFINE S == {0} \cup {PairEstimate(p, at) : p \in Entries(l)}
<1>1. PICK f : f = [p \in Entries(l) |-> PairEstimate(p, at)]
  OBVIOUS
<1>2. S = {0} \cup {f[p] : p \in Entries(l)}
  BY <1>1
<1>3. IsFiniteSet(Entries(l))
  <2>1. IsFiniteSet(1..Len(l)) /\ DOMAIN l = 1..Len(l)
    BY FS_Interval
  <2>2. Entries(l) = {l[i] : i \in 1..Len(l)}
    BY <2>1 DEF Entries
  <2>3. IsFiniteSet({l[i] : i \in 1..Len(l)})
    BY <2>1, ImageFinite
  <2> QED BY <2>2, <2>3
<1>4. IsFiniteSet({f[p] : p \in Entries(l)}) /\ IsFiniteSet({0})
  <2>1. IsFiniteSet({f[p] : p \in Entries(l)})
    BY <1>3, ImageFinite
  <2> QED BY <2>1, FS_Singleton
<1>5. IsFiniteSet(S)
  <2> HIDE DEF S
  <2> QED BY <1>2, <1>4, FS_Union
<1>6. S \in SUBSET Nat /\ S # {} /\ \A m \in S : m <= bound
  OBVIOUS
<1>7. EstimateMax(at, l) = Most(S)
  BY DEF EstimateMax
<1> HIDE DEF S
<1>8. Most(S) \in S /\ Most(S) \in Nat
  BY <1>5, <1>6, MostOne
<1> QED BY <1>6, <1>7, <1>8

\* The heuristic is a lower bound of the hops to the targets, and none is left
\* where they lead.
THEOREM EstimateTheorem == TargetsSpec => []EstimateIsLow
<1>1. SlotInv /\ RepairInv => EstimateIsLow
  <2> SUFFICES ASSUME SlotInv, RepairInv, Returned, task.layers[1] # << >>,
                      \A p \in Entries(task.layers[1]) : Entries(p) \subseteq DOMAIN Answer
               PROVE  /\ EstimateMax(task.config, task.layers[1])
                           <= Most({HopsFrom(task.config[q], Answer[q]) : q \in PairQubits})
                      /\ EstimateMax(Left, task.layers[1]) = 0
    BY DEF EstimateIsLow
  <2>1. /\ BaseInv /\ Layer = 1 /\ config = task.config /\ Answer = targets /\ pairs = task.layers[1]
        /\ DoneWith(targets, original, converged)
    BY WhenReturned
  <2>2. InCall /\ task \in Tasks
    BY <2>1 DEF BaseInv, InCall
  <2>3. PICK t, at, here : t = targets /\ at = Left /\ here = config
    OBVIOUS
  <2>4. SlotsGood(t)
    BY <2>1, <2>3 DEF DoneWith
  <2>5. PICK l \in Seq(Nat \X Nat) : l = pairs
    BY <2>2, PairTypes DEF InCall
  <2>6. /\ DOMAIN at = DOMAIN here /\ DOMAIN t \subseteq DOMAIN here
        /\ \A q \in DOMAIN t : at[q] = t[q]
    <3>1. DOMAIN t \subseteq DOMAIN config
      BY <2>4 DEF SlotsGood
    <3> QED BY <2>1, <2>3, <3>1 DEF Left, Moved
  <2>7. \A p \in Entries(l) : Entries(p) = {p[1], p[2]} /\ p[1] \in DOMAIN t /\ p[2] \in DOMAIN t
    BY <2>1, <2>2, <2>3, <2>5, PairTypes DEF InCall
  <2>8. \A p \in Entries(l) : p[1] \in PairQubits /\ p[2] \in PairQubits
    BY <2>2, <2>5, PairsApartFromEachOther
  <2>9. PairQubits \subseteq DOMAIN t
    <3>1. PairQubits = UNION {Entries(l[i]) : i \in DOMAIN l}
      BY <2>5 DEF PairQubits
    <3>2. \A i \in DOMAIN l : Entries(l[i]) \subseteq DOMAIN t
      <4>1. \A i \in DOMAIN l : l[i] \in Entries(l)
        BY DEF Entries
      <4> QED BY <2>7, <4>1
    <3> QED BY <3>1, <3>2
  <2>10. \A q \in DOMAIN here : here[q] \in AllLocations(arch)
    BY <2>1, <2>3 DEF BaseInv, PlacesTyped
  <2>11. \A q \in DOMAIN t : t[q] \in SlotPlaces(arch) /\ t[q] \in AllLocations(arch)
    <3>1. SlotPlaces(arch) \in SUBSET AllLocations(arch)
      BY <2>2, CallSlots
    <3> QED BY <2>4, <3>1 DEF SlotsGood
  <2>12. PICK S : S = {HopsFrom(here[q], t[q]) : q \in PairQubits}
    OBVIOUS
  <2>13. IsFiniteSet(PairQubits)
    <3>1. IsFiniteSet(DOMAIN config)
      BY <2>1, <2>2, TasksAssumption
    <3> QED BY <2>3, <2>6, <2>9, <3>1, FS_Subset
  <2>14. S \in SUBSET Nat
    <3>1. \A q \in PairQubits : HopsFrom(here[q], t[q]) \in Nat
      BY <2>2, <2>6, <2>9, <2>10, <2>11, HopsNat
    <3> QED BY <2>12, <3>1
  <2>15. IsFiniteSet(S)
    <3>1. PICK f : f = [q \in PairQubits |-> HopsFrom(here[q], t[q])]
      OBVIOUS
    <3>2. S = {f[q] : q \in PairQubits}
      BY <2>12, <3>1
    <3> QED BY <2>13, <3>2, ImageFinite
  <2>16. S # {}
    <3>1. Len(l) \in Nat /\ DOMAIN l = 1..Len(l) /\ (Len(l) = 0 => l = << >>)
      OBVIOUS
    <3>2. 1 \in DOMAIN l
      BY <2>1, <2>5, <3>1
    <3>3. l[1] \in Entries(l)
      BY <3>2 DEF Entries
    <3>4. l[1][1] \in PairQubits
      BY <2>8, <3>3
    <3> QED BY <2>12, <3>4
  <2>17. Most(S) \in Nat /\ \A m \in S : m <= Most(S)
    BY <2>14, <2>15, <2>16, MostOne
  <2>18. \A m, n \in Nat : LongerOf(m, n) \in {m, n} /\ LongerOf(m, n) \in Nat
    BY DEF LongerOf
  <2>19. ASSUME NEW p \in Entries(l)
         PROVE  \E j \in 1..Len(slots) : \/ t[p[1]] = slots[j][1] /\ t[p[2]] = slots[j][2]
                                         \/ t[p[1]] = slots[j][2] /\ t[p[2]] = slots[j][1]
    <3>1. p \in Entries(pairs) /\ Entries(p) \subseteq DOMAIN t
      BY <2>5, <2>7
    <3>2. PICK j \in 1..Len(slots) : {t[p[1]], t[p[2]]} = Entries(slots[j])
      BY <2>4, <3>1 DEF SlotsGood
    <3>3. Entries(slots[j]) = {slots[j][1], slots[j][2]} /\ slots[j][1] # slots[j][2]
      BY <2>2, CallSlots
    <3> QED BY <3>2, <3>3
  <2>20. ASSUME NEW p \in Entries(l)
         PROVE  PairEstimate(p, here) \in Nat /\ PairEstimate(p, here) <= Most(S)
    <3>1. PICK j \in 1..Len(slots) : \/ t[p[1]] = slots[j][1] /\ t[p[2]] = slots[j][2]
                                     \/ t[p[1]] = slots[j][2] /\ t[p[2]] = slots[j][1]
      BY <2>19
    <3>2. here[p[1]] \in AllLocations(arch) /\ here[p[2]] \in AllLocations(arch)
      BY <2>6, <2>7, <2>10
    <3>3. PICK x, y : x = t[p[1]] /\ y = t[p[2]]
      OBVIOUS
    <3>4. (x = slots[j][1] /\ y = slots[j][2]) \/ (x = slots[j][2] /\ y = slots[j][1])
      BY <3>1, <3>3
    <3>5. /\ PairEstimate(p, here) \in Nat
          /\ PairEstimate(p, here) <= LongerOf(HopsFrom(here[p[1]], x), HopsFrom(here[p[2]], y))
      BY <2>2, <3>2, <3>4, PairEstimateLow
    <3>6. PICK m, n : m = HopsFrom(here[p[1]], x) /\ n = HopsFrom(here[p[2]], y)
      OBVIOUS
    <3>7. m \in S /\ n \in S
      BY <2>8, <2>12, <3>3, <3>6
    <3>8. m \in Nat /\ n \in Nat /\ m <= Most(S) /\ n <= Most(S)
      BY <2>14, <2>17, <3>7
    <3>9. LongerOf(m, n) \in Nat /\ LongerOf(m, n) <= Most(S)
      BY <2>18, <3>8
    <3> QED BY <2>17, <3>5, <3>6, <3>9
  <2>21. ASSUME NEW p \in Entries(l)
         PROVE  PairEstimate(p, at) \in Nat /\ PairEstimate(p, at) <= 0
    <3>1. PICK j \in 1..Len(slots) : \/ t[p[1]] = slots[j][1] /\ t[p[2]] = slots[j][2]
                                     \/ t[p[1]] = slots[j][2] /\ t[p[2]] = slots[j][1]
      BY <2>19
    <3>2. PICK x, y : x = t[p[1]] /\ y = t[p[2]]
      OBVIOUS
    <3>3. at[p[1]] = x /\ at[p[2]] = y /\ x \in AllLocations(arch) /\ y \in AllLocations(arch)
      BY <2>6, <2>7, <2>11, <3>2
    <3>4. (x = slots[j][1] /\ y = slots[j][2]) \/ (x = slots[j][2] /\ y = slots[j][1])
      BY <3>1, <3>2
    <3>5. at[p[1]] \in AllLocations(arch) /\ at[p[2]] \in AllLocations(arch)
      BY <3>3
    <3>6. /\ PairEstimate(p, at) \in Nat
          /\ PairEstimate(p, at) <= LongerOf(HopsFrom(at[p[1]], x), HopsFrom(at[p[2]], y))
      BY <2>2, <3>4, <3>5, PairEstimateLow
    <3>7. x \in SlotPlaces(arch) /\ y \in SlotPlaces(arch)
      BY <2>7, <2>11, <3>2
    <3>8. HopsFrom(x, x) = 0 /\ HopsFrom(y, y) = 0
      BY <2>2, <3>3, <3>7, HopsFromTypes
    <3>9. LongerOf(0, 0) = 0
      BY DEF LongerOf
    <3> QED BY <3>3, <3>6, <3>8, <3>9
  <2>22. EstimateMax(here, l) <= Most(S)
    BY <2>17, <2>20, LayerEstimate
  <2>23. EstimateMax(at, l) = 0
    <3>1. EstimateMax(at, l) \in Nat /\ EstimateMax(at, l) <= 0
      BY <2>21, LayerEstimate
    <3> QED BY <3>1
  <2>24. S = {HopsFrom(task.config[q], Answer[q]) : q \in PairQubits}
    BY <2>1, <2>3, <2>12
  <2> QED BY <2>1, <2>3, <2>5, <2>22, <2>23, <2>24
<1> QED BY <1>1, SlotInvariant, RepairInvariant, PTL

----------------------------------------------------------------------------
(***************************************************************************)
(* The way home: sums, the home sites and who comes back to them.          *)
(***************************************************************************)

LEMMA TotalTypes ==
    ASSUME NEW D, IsFiniteSet(D), NEW f \in [D -> Nat], NEW b \in Nat, \A x \in D : f[x] <= b
    PROVE  Total(f) \in Nat /\ Total(f) <= Cardinality(D) * b
<1> DEFINE pick(s) == CHOOSE x \in s : TRUE
           Step(g, s) == IF s = {} THEN 0 ELSE f[pick(s)] + g[s \ {pick(s)}]
           Small(m) == {s \in SUBSET D : Cardinality(s) <= m}
           Good(F, m) == \A s \in Small(m) : F[s] = Step(F, s) /\ F[s] \in Nat /\ F[s] <= Cardinality(s) * b
           S == {m \in Nat : \E F : F = [s \in Small(m) |-> F[s]] /\ Good(F, m)}
<1>1. \A s \in SUBSET D : IsFiniteSet(s) /\ Cardinality(s) \in Nat /\ Cardinality(s) <= Cardinality(D)
  BY FS_Subset, FS_CardinalityType
<1>2. ASSUME NEW s \in SUBSET D, s # {}
      PROVE  pick(s) \in s /\ s \ {pick(s)} \in SUBSET D /\ Cardinality(s \ {pick(s)}) = Cardinality(s) - 1
  <2>1. pick(s) \in s
    BY <1>2
  <2> HIDE DEF pick
  <2>2. IsFiniteSet(s)
    BY <1>1
  <2> QED BY <2>1, <2>2, FS_RemoveElement
<1>3. \A s \in SUBSET D : Cardinality(s) = 0 <=> s = {}
  BY <1>1, FS_EmptySet
<1>4. \A x \in D : f[x] \in Nat
  OBVIOUS
<1> HIDE DEF pick
<1>5. 0 \in S
  <2>1. PICK F : F = [s \in Small(0) |-> 0]
    OBVIOUS
  <2>2. \A s \in Small(0) : s = {} /\ F[s] = 0
    BY <1>1, <1>3, <2>1
  <2>3. Cardinality({}) = 0
    BY FS_EmptySet
  <2>4. 0 * b = 0
    OBVIOUS
  <2>5. ASSUME NEW s \in Small(0)
        PROVE  F[s] = Step(F, s) /\ F[s] \in Nat /\ F[s] <= Cardinality(s) * b
    <3>1. s = {} /\ F[s] = 0
      BY <2>2
    <3>2. Cardinality(s) * b = 0
      BY <2>3, <2>4, <3>1
    <3> HIDE DEF Small
    <3> QED BY <3>1, <3>2
  <2>6. Good(F, 0)
    <3> HIDE DEF Step, Small
    <3> QED BY <2>5
  <2> HIDE DEF Good, Small
  <2> QED BY <2>1, <2>6
<1>6. ASSUME NEW m \in Nat, m \in S PROVE m + 1 \in S
  <2>1. PICK F : Good(F, m)
    <3> HIDE DEF Good, Small
    <3> QED BY <1>6
  <2>2. PICK H : H = [s \in Small(m + 1) |-> Step(F, s)]
    OBVIOUS
  <2>3. \A s \in Small(m) : s \in Small(m + 1) /\ H[s] = F[s]
    <3>1. \A s \in Small(m) : s \in Small(m + 1)
      BY <1>1
    <3> HIDE DEF Small, Step
    <3> QED BY <2>1, <2>2, <3>1
  <2>4. ASSUME NEW s \in Small(m + 1)
        PROVE  H[s] = Step(H, s) /\ H[s] \in Nat /\ H[s] <= Cardinality(s) * b
    <3>1. H[s] = Step(F, s)
      BY <2>2
    <3>2. CASE s = {}
      <4>1. Cardinality(s) = 0
        BY <3>2, FS_EmptySet
      <4> QED BY <3>1, <3>2, <4>1
    <3>3. CASE s # {}
      <4> DEFINE t == s \ {pick(s)}
      <4>1. s \in SUBSET D /\ pick(s) \in s /\ t \in SUBSET D /\ Cardinality(t) = Cardinality(s) - 1
        BY <1>2, <3>3
      <4>2. Cardinality(s) \in Nat /\ Cardinality(s) <= m + 1 /\ Cardinality(t) \in Nat
        BY <1>1, <4>1
      <4>3. t \in Small(m)
        BY <4>1, <4>2
      <4>4. F[t] \in Nat /\ F[t] <= Cardinality(t) * b /\ H[t] = F[t]
        <5> HIDE DEF t, Small, Step
        <5> QED BY <2>1, <2>3, <4>3
      <4>5. H[s] = f[pick(s)] + F[t]
        BY <3>1, <3>3
      <4>6. f[pick(s)] \in Nat /\ f[pick(s)] <= b
        BY <4>1, <1>4
      <4> HIDE DEF t
      <4>7. \A k, n, x, y \in Nat : k = n - 1 /\ x <= b /\ y <= k * b => x + y \in Nat /\ x + y <= n * b
        <5> TAKE k, n, x, y \in Nat
        <5> HAVE k = n - 1 /\ x <= b /\ y <= k * b
        <5>1. k * b + b = n * b
          <6>1. (n - 1) * b = n * b - b
            OBVIOUS
          <6> QED BY <6>1
        <5>2. k * b \in Nat /\ n * b \in Nat
          OBVIOUS
        <5> QED BY <5>1, <5>2
      <4>8. H[s] \in Nat /\ H[s] <= Cardinality(s) * b
        BY <4>1, <4>2, <4>4, <4>5, <4>6, <4>7
      <4>9. H[s] = Step(H, s)
        BY <3>3, <4>4, <4>5 DEF t
      <4> QED BY <4>8, <4>9
    <3> QED BY <3>2, <3>3
  <2>5. H = [s \in Small(m + 1) |-> H[s]]
    BY <2>2
  <2>6. Good(H, m + 1)
    BY <2>4
  <2> HIDE DEF Good, Small
  <2> QED BY <2>5, <2>6
<1> DEFINE n == Cardinality(D)
<1>7. n \in Nat /\ n \in S
  <2>1. n \in Nat
    BY FS_CardinalityType
  <2> HIDE DEF S, n
  <2> QED BY <1>5, <1>6, <2>1, Induction
<1>8. Small(n) = SUBSET D
  BY <1>1
<1>9. PICK F : F = [s \in SUBSET D |-> F[s]] /\ Good(F, n)
  <2> HIDE DEF Good, n, Small
  <2> QED BY <1>7, <1>8
<1> DEFINE Solves(g) == g = [s \in SUBSET D |-> Step(g, s)]
           G == CHOOSE g : Solves(g)
<1>10. Solves(F)
  <2> HIDE DEF Step, n
  <2> QED BY <1>8, <1>9
<1>11. Solves(G)
  <2> HIDE DEF Solves
  <2> QED BY <1>10
<1>12. Total(f) = G[D]
  BY DEF Total, pick
<1> HIDE DEF G
<1>13. \A s \in SUBSET D : G[s] = Step(G, s)
  <2> HIDE DEF Step
  <2> QED BY <1>11
<1> DEFINE E == {m \in Nat : \A s \in Small(m) : G[s] = F[s]}
<1>14. \A s \in SUBSET D : F[s] = Step(F, s) /\ F[s] \in Nat /\ F[s] <= Cardinality(s) * b
  BY <1>8, <1>9
<1>15. 0 \in E
  <2>1. \A s \in Small(0) : s = {}
    BY <1>1, <1>3
  <2> QED BY <2>1, <1>13, <1>14
<1>16. ASSUME NEW m \in Nat, m \in E PROVE m + 1 \in E
  <2> SUFFICES ASSUME NEW s \in Small(m + 1) PROVE G[s] = F[s]
    OBVIOUS
  <2>1. G[s] = Step(G, s) /\ F[s] = Step(F, s)
    BY <1>13, <1>14
  <2>2. CASE s = {}
    BY <2>1, <2>2
  <2>3. CASE s # {}
    <3> DEFINE t == s \ {pick(s)}
    <3>1. s \in SUBSET D /\ t \in SUBSET D /\ Cardinality(t) = Cardinality(s) - 1
      BY <1>2, <2>3
    <3>2. t \in Small(m)
      BY <1>1, <3>1
    <3>3. G[t] = F[t]
      BY <1>16, <3>2
    <3> QED BY <2>1, <2>3, <3>3
  <2> QED BY <2>2, <2>3
<1>17. n \in E
  <2> HIDE DEF E, n
  <2> QED BY <1>7, <1>15, <1>16, Induction
<1>18. G[D] = F[D]
  BY <1>8, <1>17
<1> QED BY <1>12, <1>14, <1>18

\* Numbers in order are each there once.
LEMMA NumbersOnce ==
    ASSUME NEW S \in SUBSET Nat, IsFiniteSet(S)
    PROVE  /\ InOrder(S, <) \in Seq(S) /\ Len(InOrder(S, <)) = Cardinality(S)
           /\ Entries(InOrder(S, <)) = S
           /\ \A i, j \in 1..Len(InOrder(S, <)) : InOrder(S, <)[i] = InOrder(S, <)[j] => i = j
<1> DEFINE R == {x \in S \X S : x[1] < x[2]}
<1>1. S \in SUBSET Int
  OBVIOUS
<1>2. SortedBy(InOrder(S, <), S, R)
  <2> HIDE DEF R
  <2> QED BY <1>1, NumbersInOrder DEF R
<1>3. PICK t \in Seq(S) : t = InOrder(S, <) /\ Len(t) = Cardinality(S)
  <2> HIDE DEF R
  <2> QED BY <1>2 DEF SortedBy
<1>4. \A x \in S : \E i \in 1..Len(t) : t[i] = x
  <2> HIDE DEF R
  <2> QED BY <1>2, <1>3 DEF SortedBy
<1>5. DOMAIN t = 1..Len(t) /\ Len(t) \in Nat /\ \A i \in 1..Len(t) : t[i] \in S
  OBVIOUS
<1>6. Entries(t) = S
  BY <1>4, <1>5 DEF Entries
<1>7. \A i, j \in 1..Len(t) : i < j => t[i] # t[j]
  <2> SUFFICES ASSUME NEW i \in 1..Len(t), NEW j \in 1..Len(t), i < j PROVE t[i] # t[j]
    OBVIOUS
  <2>1. <<t[i], t[j]>> \in R
    <3> HIDE DEF R
    <3> QED BY <1>2, <1>3 DEF SortedBy
  <2>2. t[i] \in Nat /\ t[j] \in Nat
    <3>1. S \subseteq Nat
      OBVIOUS
    <3>2. t[i] \in S /\ t[j] \in S
      BY <1>5
    <3> QED BY <3>1, <3>2
  <2>3. t[i] < t[j]
    BY <2>1
  <2> QED BY <2>2, <2>3
<1>8. \A i, j \in 1..Len(t) : t[i] = t[j] => i = j
  <2> SUFFICES ASSUME NEW i \in 1..Len(t), NEW j \in 1..Len(t), i # j PROVE t[i] # t[j]
    OBVIOUS
  <2>1. i < j \/ j < i
    BY <1>5
  <2> QED BY <2>1, <1>7
<1> QED BY <1>3, <1>6, <1>8

\* The entries at some positions are each there as often as the sequence has them.
Once(s) == \A i, j \in 1..Len(s) : s[i] = s[j] => i = j
LEMMA OnlyAtOnce ==
    ASSUME NEW T, NEW s \in Seq(T), Once(s), NEW positions \in SUBSET (DOMAIN s)
    PROVE  /\ OnlyAt(s, positions) \in Seq({s[i] : i \in positions})
           /\ Once(OnlyAt(s, positions))
<1>1. DOMAIN s = 1..Len(s) /\ Len(s) \in Nat
  OBVIOUS
<1>2. positions \in SUBSET Nat /\ IsFiniteSet(positions)
  <2>1. positions \in SUBSET (1..Len(s)) /\ IsFiniteSet(1..Len(s))
    BY <1>1, FS_Interval
  <2>2. IsFiniteSet(positions)
    BY <2>1, FS_Subset
  <2>3. 1..Len(s) \subseteq Nat
    BY <1>1
  <2> QED BY <2>1, <2>2, <2>3
<1>3. PICK t \in Seq(positions) : t = InOrder(positions, <) /\ \A i, j \in 1..Len(t) : t[i] = t[j] => i = j
  BY <1>2, NumbersOnce
<1>4. DOMAIN t = 1..Len(t) /\ Len(t) \in Nat /\ \A k \in 1..Len(t) : t[k] \in positions
  OBVIOUS
<1>5. OnlyAt(s, positions) = [k \in 1..Len(t) |-> s[t[k]]]
  BY <1>3, <1>4 DEF OnlyAt
<1> DEFINE V == {s[i] : i \in positions}
<1>6. OnlyAt(s, positions) \in Seq(V) /\ Len(OnlyAt(s, positions)) = Len(t)
  <2>1. \A k \in 1..Len(t) : s[t[k]] \in V
    BY <1>4
  <2> HIDE DEF V
  <2>2. OnlyAt(s, positions) \in [1..Len(t) -> V]
    BY <1>5, <2>1
  <2>3. \A n \in Nat : \A r \in [1..n -> V] : r \in Seq(V) /\ Len(r) = n
    OBVIOUS
  <2> QED BY <1>4, <2>2, <2>3
<1>7. \A k \in 1..Len(t) : OnlyAt(s, positions)[k] = s[t[k]]
  BY <1>5
<1>8. \A i, k \in positions : s[i] = s[k] => i = k
  BY <1>1 DEF Once
<1>9. \A i, k \in 1..Len(t) : OnlyAt(s, positions)[i] = OnlyAt(s, positions)[k] => i = k
  <2> TAKE i, k \in 1..Len(t)
  <2> HAVE OnlyAt(s, positions)[i] = OnlyAt(s, positions)[k]
  <2>1. s[t[i]] = s[t[k]] /\ t[i] \in positions /\ t[k] \in positions
    BY <1>4, <1>7
  <2>2. t[i] = t[k]
    BY <2>1, <1>8
  <2> QED BY <1>3, <2>2
<1> QED BY <1>6, <1>9 DEF Once

\* Words have partners among the words, and every word has a zone.
LEMMA HomeWordTypes ==
    ASSUME NEW a \in Archs
    PROVE  /\ HomeWords(a) \in SUBSET Nat /\ IsFiniteSet(HomeWords(a)) /\ HomeWords(a) \subseteq DOMAIN a.words
           /\ \A w : WordZone(a, w) \in DOMAIN a.zones
<1>1. /\ DOMAIN a.words = 1..Len(a.words) /\ Len(a.words) \in Nat
      /\ DOMAIN a.zones = 1..Len(a.zones) /\ Len(a.zones) \in Nat
      /\ \A z \in DOMAIN a.zones :
           /\ DOMAIN a.zones[z].pairs = 1..Len(a.zones[z].pairs)
           /\ \A i \in 1..Len(a.zones[z].pairs) : a.zones[z].pairs[i] \in (DOMAIN a.words) \X (DOMAIN a.words)
  BY ArchTypes, ZenonT(60)
<1>2. ASSUME NEW w PROVE WordPartner(a, w) \subseteq DOMAIN a.words
  <2> SUFFICES ASSUME NEW p \in WordPartner(a, w) PROVE p \in DOMAIN a.words
    OBVIOUS
  <2>1. PICK z \in DOMAIN a.zones : \E i \in PairsWith(a.zones[z].pairs, w) : p = Other(a.zones[z].pairs[i], w)
    BY DEF WordPartner
  <2>2. PICK i \in 1..Len(a.zones[z].pairs) : p = Other(a.zones[z].pairs[i], w)
    BY <1>1, <2>1 DEF PairsWith
  <2>3. a.zones[z].pairs[i][1] \in DOMAIN a.words /\ a.zones[z].pairs[i][2] \in DOMAIN a.words
    BY <1>1
  <2> QED BY <2>2, <2>3 DEF Other
<1>3. HomeWords(a) \subseteq DOMAIN a.words
  <2> SUFFICES ASSUME NEW h \in HomeWords(a), h \notin DOMAIN a.words PROVE FALSE
    OBVIOUS
  <2>1. PICK w \in DOMAIN a.words : \E p \in WordPartner(a, w) : h = Lower(w, p)
    BY DEF HomeWords
  <2>2. PICK p \in WordPartner(a, w) : h = Lower(w, p)
    BY <2>1
  <2>3. p \in DOMAIN a.words
    BY <1>2
  <2> QED BY <2>2, <2>3 DEF Lower
<1>4. HomeWords(a) \in SUBSET Nat /\ IsFiniteSet(HomeWords(a))
  <2>1. IsFiniteSet(1..Len(a.words)) /\ 1..Len(a.words) \subseteq Nat
    BY <1>1, FS_Interval
  <2> QED BY <1>1, <1>3, <2>1, FS_Subset
<1>5. ASSUME NEW w PROVE WordZone(a, w) \in DOMAIN a.zones
  <2> DEFINE naming == {z \in DOMAIN a.zones : Names(a.zones[z], w)}
  <2>1. CASE naming = {}
    <3>1. WordZone(a, w) = 1
      BY <2>1 DEF WordZone
    <3>2. IsSequence(a.zones) /\ a.zones # << >>
      BY ArchsAssumption DEF Validate, Structure
    <3>3. PICK s \in Seq(Entries(a.zones)) : s = a.zones
      BY <3>2 DEF IsSequence
    <3>4. Len(s) = 0 => s = << >>
      OBVIOUS
    <3>5. Len(a.zones) # 0
      BY <3>2, <3>3, <3>4
    <3> QED BY <1>1, <3>1, <3>5
  <2>2. CASE naming # {}
    <3>1. naming \in SUBSET Nat
      BY <1>1
    <3>2. PICK z \in naming : \A y \in naming : z <= y
      <4> HIDE DEF naming
      <4> QED BY <3>1, <2>2, LeastNumber
    <3>3. z \in FirstIn(naming)
      BY <3>2 DEF FirstIn
    <3>4. WordZone(a, w) = CHOOSE y \in FirstIn(naming) : TRUE
      BY <2>2 DEF WordZone
    <3>5. WordZone(a, w) \in FirstIn(naming)
      <4> HIDE DEF naming
      <4> QED BY <3>3, <3>4
    <3> QED BY <3>5 DEF FirstIn
  <2> QED BY <2>1, <2>2
<1> QED BY <1>3, <1>4, <1>5

\* The home sites are places, each of them one.
LEMMA HomesTyped ==
    ASSUME NEW a \in Archs
    PROVE  Homes[a] \in Seq(AllLocations(a)) /\ Once(Homes[a])
<1> DEFINE T == AllLocations(a)
           N == SitesPerWord(a)
           place(w, s) == Loc(WordZone(a, w), w, s)
<1>1. /\ N \in Nat
      /\ \A w : WordZone(a, w) \in DOMAIN a.zones
      /\ HomeWords(a) \in SUBSET Nat /\ IsFiniteSet(HomeWords(a)) /\ HomeWords(a) \subseteq DOMAIN a.words
  <2>1. N \in Nat
    BY ArchTypes, ZenonT(60)
  <2> HIDE DEF N
  <2> QED BY <2>1, HomeWordTypes
<1>2. PICK W \in Seq(HomeWords(a)) : W = InOrder(HomeWords(a), <) /\ Once(W)
  <2>1. InOrder(HomeWords(a), <) \in Seq(HomeWords(a)) /\ Once(InOrder(HomeWords(a), <))
    BY <1>1, NumbersOnce DEF Once
  <2> QED BY <2>1
<1> DEFINE ofWord(i) == [s \in 1..N |-> place(W[i], s)]
           seqs == [i \in DOMAIN W |-> ofWord(i)]
<1>3. Len(W) \in Nat /\ DOMAIN W = 1..Len(W) /\ \A i \in 1..Len(W) : W[i] \in DOMAIN a.words
  <2>1. \A i \in 1..Len(W) : W[i] \in HomeWords(a)
    OBVIOUS
  <2>2. Len(W) \in Nat /\ DOMAIN W = 1..Len(W)
    OBVIOUS
  <2> QED BY <2>1, <2>2, <1>1
<1>4. \A i \in 1..Len(W) : \A s \in 1..N : place(W[i], s) \in T
  BY <1>1, <1>3 DEF AllLocations, Loc
<1>5. Homes[a] = FlattenSeq(seqs)
  BY <1>2 DEF Homes, HomeSites, SitesOf
<1> HIDE DEF T, N, place
<1>6. \A i \in 1..Len(W) : ofWord(i) \in Seq(T) /\ Len(ofWord(i)) = N
  BY <1>1, <1>4
<1>7. seqs \in Seq(Seq(T)) /\ Len(seqs) = Len(W) /\ \A i \in 1..Len(W) : seqs[i] = ofWord(i)
  <2> HIDE DEF ofWord
  <2> QED BY <1>3, <1>6
<1> HIDE DEF seqs
<1>8. PICK all \in Seq(T) : all = Homes[a] /\ Joins(seqs, Len(seqs), all)
  BY <1>5, <1>7, Flattened
<1>9. PICK from \in [1..Len(all) -> Nat \X Nat] :
        /\ \A j, k \in 1..Len(all) : from[j] = from[k] => j = k
        /\ \A j \in 1..Len(all) :
              /\ from[j][1] \in 1..Len(seqs) /\ from[j][2] \in 1..Len(seqs[from[j][1]])
              /\ all[j] = seqs[from[j][1]][from[j][2]]
  BY <1>8 DEF Joins
<1>10. ASSUME NEW j \in 1..Len(all)
       PROVE  \E i \in 1..Len(W), s \in 1..N : from[j] = <<i, s>> /\ all[j] = place(W[i], s)
  <2>1. from[j] \in Nat \X Nat /\ from[j][1] \in 1..Len(W) /\ from[j] = <<from[j][1], from[j][2]>>
    <3>1. from[j] \in Nat \X Nat
      BY <1>9
    <3>2. from[j][1] \in 1..Len(seqs)
      BY <1>9
    <3> QED BY <3>1, <3>2, <1>7
  <2>2. seqs[from[j][1]] = ofWord(from[j][1]) /\ Len(ofWord(from[j][1])) = N
    <3> HIDE DEF ofWord
    <3> QED BY <1>6, <1>7, <2>1
  <2>3. from[j][2] \in 1..N /\ all[j] = ofWord(from[j][1])[from[j][2]]
    <3> HIDE DEF ofWord
    <3> QED BY <1>9, <2>2
  <2>4. all[j] = place(W[from[j][1]], from[j][2])
    BY <2>3
  <2> QED BY <2>1, <2>3, <2>4
<1>11. ASSUME NEW j \in 1..Len(all), NEW k \in 1..Len(all), all[j] = all[k]
       PROVE  j = k
  <2>1. PICK i \in 1..Len(W), s \in 1..N : from[j] = <<i, s>> /\ all[j] = place(W[i], s)
    BY <1>10
  <2>2. PICK o \in 1..Len(W), r \in 1..N : from[k] = <<o, r>> /\ all[k] = place(W[o], r)
    BY <1>10
  <2>3. place(W[i], s) = place(W[o], r)
    BY <1>11, <2>1, <2>2
  <2>4. W[i] = W[o] /\ s = r
    <3>1. Loc(WordZone(a, W[i]), W[i], s) = Loc(WordZone(a, W[o]), W[o], r)
      BY <2>3 DEF place
    <3>2. \A z, w, x, y, p, q : Loc(z, w, x) = Loc(y, p, q) => w = p /\ x = q
      BY DEF Loc
    <3> QED BY <3>1, <3>2
  <2>5. i = o
    BY <1>2, <2>4 DEF Once
  <2>6. from[j] = from[k]
    BY <2>1, <2>2, <2>4, <2>5
  <2> HIDE DEF ofWord
  <2> QED BY <1>9, <2>6
<1> QED BY <1>8, <1>11 DEF Once, T

\* A call that brings atoms home.
InReturn == task \in Returns /\ config = task.config

LEMMA ReturnTypes ==
    ASSUME InReturn
    PROVE  /\ arch \in Archs /\ home \subseteq AllLocations(arch)
           /\ DOMAIN config \in SUBSET Nat /\ IsFiniteSet(DOMAIN config) /\ Cardinality(DOMAIN config) \in Nat
           /\ config \in [DOMAIN config -> AllLocations(arch)]
           /\ \A p, q \in DOMAIN config : p # q => config[p] # config[q]
           /\ Holes \in Seq(home \ task.blocked) /\ Once(Holes)
           /\ \A i \in 1..Len(Holes) : \A q \in DOMAIN config : config[q] # Holes[i]
           /\ Returners \in Seq(DOMAIN config) /\ Once(Returners)
           /\ Entries(Returners) = {q \in DOMAIN config : config[q] \notin home}
           /\ Len(Returners) \in Nat /\ Len(Returners) <= Cardinality(DOMAIN config)
           /\ Len(Holes) \in Nat
<1>1. /\ arch \in Archs /\ DOMAIN config \in SUBSET Nat /\ IsFiniteSet(DOMAIN config)
      /\ config \in [DOMAIN config -> AllLocations(arch)]
      /\ \A p, q \in DOMAIN config : p # q => config[p] # config[q]
  BY ReturnsAssumption DEF InReturn, arch
<1>2. PICK sites \in Seq(AllLocations(arch)) : sites = Homes[arch] /\ Once(sites)
  BY <1>1, HomesTyped
<1>3. DOMAIN sites = 1..Len(sites) /\ Len(sites) \in Nat /\ \A i \in 1..Len(sites) : sites[i] \in AllLocations(arch)
  OBVIOUS
<1>4. home = {sites[i] : i \in DOMAIN sites} /\ home \subseteq AllLocations(arch)
  BY <1>2, <1>3 DEF home, Entries
<1> DEFINE free == {i \in DOMAIN sites : At(config, sites[i]) = {} /\ sites[i] \notin task.blocked}
           V == {sites[i] : i \in free}
<1>5. Holes = OnlyAt(sites, free)
  BY <1>2 DEF Holes
<1>6. Holes \in Seq(V) /\ Once(Holes)
  <2>1. free \in SUBSET (DOMAIN sites)
    OBVIOUS
  <2> HIDE DEF free
  <2> QED BY <1>2, <1>5, <2>1, OnlyAtOnce
<1>7. \A at \in V : at \in home \ task.blocked /\ \A q \in DOMAIN config : config[q] # at
  BY <1>4 DEF At
<1>8. /\ Holes \in Seq(home \ task.blocked) /\ Len(Holes) \in Nat
      /\ \A i \in 1..Len(Holes) : \A q \in DOMAIN config : config[q] # Holes[i]
  <2> HIDE DEF V
  <2>1. \A i \in 1..Len(Holes) : Holes[i] \in V
    BY <1>6
  <2>2. V \subseteq home \ task.blocked
    BY <1>7
  <2> QED BY <1>6, <1>7, <2>1, <2>2
<1> DEFINE back == {q \in DOMAIN config : config[q] \notin home}
<1>9. /\ back \in SUBSET Nat /\ IsFiniteSet(back) /\ Cardinality(back) \in Nat
      /\ Cardinality(back) <= Cardinality(DOMAIN config) /\ Cardinality(DOMAIN config) \in Nat
  <2>1. back \subseteq DOMAIN config
    OBVIOUS
  <2> HIDE DEF back
  <2> QED BY <1>1, <2>1, FS_Subset, FS_CardinalityType
<1>10. /\ Returners \in Seq(back) /\ Once(Returners) /\ Entries(Returners) = back /\ Len(Returners) = Cardinality(back)
  <2>1. Returners = InOrder(back, <)
    BY DEF Returners, Ascending
  <2> HIDE DEF back
  <2> QED BY <1>9, <2>1, NumbersOnce DEF Once
<1>11. Returners \in Seq(DOMAIN config)
  <2>1. back \subseteq DOMAIN config
    OBVIOUS
  <2> HIDE DEF back
  <2> QED BY <1>10, <2>1
<1> QED BY <1>1, <1>4, <1>6, <1>8, <1>9, <1>10, <1>11

LEMMA HopsHomeTypes ==
    ASSUME InReturn, NEW from \in AllLocations(arch), NEW at \in home
    PROVE  /\ HopsHome(from, at) \in Nat
           /\ HopsHome(from, at) < Big => HopsHome(from, at) <= Cardinality(AllLocations(arch))
<1>1. arch \in Archs
  BY ReturnTypes
<1>2. HopsHome(from, at) = HopsTo(arch, at)[from]
  BY <1>1 DEF HopsHome, HomeHops, home
<1>3. /\ HopsTo(arch, at) \in [AllLocations(arch) -> 0..HopLimit(arch)]
      /\ HopsTo(arch, at)[from] < Big => HopsTo(arch, at)[from] <= Cardinality(AllLocations(arch))
  BY <1>1, HopsTypes
<1>4. HopLimit(arch) \in Nat
  BY <1>1, LocationsFinite, BigAssumption DEF HopLimit
<1>5. HopsTo(arch, at)[from] \in 0..HopLimit(arch)
  BY <1>3
<1> QED BY <1>2, <1>3, <1>4, <1>5

----------------------------------------------------------------------------
(***************************************************************************)
(* The nearest home.                                                       *)
(***************************************************************************)
LEMMA SwapRemovedOnce ==
    ASSUME NEW T, NEW s \in Seq(T), Once(s), NEW n \in 1..Len(s)
    PROVE  /\ SwapRemoved(s, n) \in Seq(T) /\ Len(SwapRemoved(s, n)) = Len(s) - 1 /\ Once(SwapRemoved(s, n))
           /\ \A j \in 1..Len(SwapRemoved(s, n)) : /\ SwapRemoved(s, n)[j] # s[n]
                                                   /\ \E i \in 1..Len(s) : SwapRemoved(s, n)[j] = s[i]
<1> DEFINE m == Len(s) - 1
           from(j) == IF j = n THEN Len(s) ELSE j
<1>1. Len(s) \in Nat /\ m \in Nat /\ \A i \in 1..Len(s) : s[i] \in T
  OBVIOUS
<1>2. PICK t : t = [j \in 1..m |-> IF j = n THEN s[Len(s)] ELSE s[j]]
  OBVIOUS
<1>3. SwapRemoved(s, n) = t
  BY <1>2 DEF SwapRemoved
<1>4. \A j \in 1..m : t[j] = s[from(j)] /\ from(j) \in 1..Len(s) /\ from(j) # n
  BY <1>1, <1>2
<1>5. \A j, k \in 1..m : from(j) = from(k) => j = k
  BY <1>1
<1> HIDE DEF from
<1>6. t \in Seq(T) /\ Len(t) = m
  <2>1. t \in [1..m -> T]
    BY <1>1, <1>2, <1>4
  <2>2. \A k \in Nat : \A r \in [1..k -> T] : r \in Seq(T) /\ Len(r) = k
    OBVIOUS
  <2> HIDE DEF m
  <2> QED BY <1>1, <2>1, <2>2
<1>7. \A j, k \in 1..m : t[j] = t[k] => j = k
  <2> TAKE j, k \in 1..m
  <2> HAVE t[j] = t[k]
  <2>1. from(j) = from(k)
    BY <1>4 DEF Once
  <2> QED BY <1>5, <2>1
<1>8. \A j \in 1..m : t[j] # s[n]
  BY <1>4 DEF Once
<1> HIDE DEF m
<1>9. \A j \in 1..m : \E i \in 1..Len(s) : t[j] = s[i]
  BY <1>4
<1>10. Once(t)
  BY <1>6, <1>7 DEF Once
<1> QED BY <1>3, <1>6, <1>8, <1>9, <1>10 DEF m

LEMMA NearestIsOne ==
    ASSUME InReturn, NEW from \in AllLocations(arch), NEW sites \in Seq(home), Len(sites) >= 1
    PROVE  NearestTo(from, sites) \in 1..Len(sites)
<1> DEFINE S == 1..Len(sites)
           far == [i \in DOMAIN sites |-> HopsHome(from, sites[i])]
           Leads(i) == \A j \in S : far[i] < far[j] \/ (far[i] = far[j] /\ i <= j)
<1>1. DOMAIN sites = S /\ Len(sites) \in Nat /\ \A i \in S : sites[i] \in home
  OBVIOUS
<1>2. far \in [S -> Int]
  <2>1. \A i \in S : HopsHome(from, sites[i]) \in Int
    <3> TAKE i \in S
    <3>1. HopsHome(from, sites[i]) \in Nat
      BY <1>1, HopsHomeTypes
    <3> QED BY <3>1
  <2> QED BY <1>1, <2>1
<1>3. S \in SUBSET Nat /\ IsFiniteSet(S) /\ S # {}
  <2>1. 1 \in S
    BY <1>1
  <2>2. IsFiniteSet(S)
    BY <1>1, FS_Interval
  <2> QED BY <2>1, <2>2
<1>4. \E i \in S : Leads(i)
  <2> DEFINE none == [i \in S |-> 0]
  <2>1. none \in [S -> Int] /\ \A i \in S : none[i] = 0
    OBVIOUS
  <2> HIDE DEF S, far, none
  <2>2. PICK i \in S : \A j \in S \ {i} :
              far[i] < far[j] \/ (far[i] = far[j] /\ (none[i] < none[j] \/ (none[i] = none[j] /\ i < j)))
    BY <1>2, <1>3, <2>1, LexicographicFirst
  <2>3. ASSUME NEW j \in S PROVE far[i] < far[j] \/ (far[i] = far[j] /\ i <= j)
    <3>1. CASE j = i
      BY <1>3, <3>1
    <3>2. CASE j # i
      <4>1. i \in Nat /\ j \in Nat /\ none[i] = 0 /\ none[j] = 0
        BY <1>3, <2>1
      <4> QED BY <2>2, <3>2, <4>1
    <3> QED BY <3>1, <3>2
  <2> QED BY <2>3
<1>5. NearestTo(from, sites) = CHOOSE i \in S : Leads(i)
  BY <1>1 DEF NearestTo, FirstLeast
<1> HIDE DEF Leads
<1> QED BY <1>4, <1>5

\* What has been given so far and what is left are different sites.
SharedOut(r, i, V, n) ==
    /\ r.left \in Seq(V) /\ Len(r.left) = n - i /\ Once(r.left)
    /\ r.given \in Seq(V) /\ Len(r.given) = i /\ Once(r.given)
    /\ \A j \in 1..Len(r.left) : \A k \in 1..Len(r.given) : r.left[j] # r.given[k]
NearestTurn(before, atom) ==
    LET n == NearestTo(config[atom], before.left)
    IN  [left |-> SwapRemoved(before.left, n), given |-> Append(before.given, before.left[n])]

LEMMA NearestTurnShares ==
    ASSUME InReturn, NEW V, V \subseteq home, NEW n \in Nat, NEW i \in Nat, i < n, NEW r, SharedOut(r, i, V, n),
           NEW atom \in DOMAIN config
    PROVE  SharedOut(NearestTurn(r, atom), i + 1, V, n)
<1> DEFINE k == NearestTo(config[atom], r.left)
<1>1. r.left \in Seq(V) /\ Len(r.left) = n - i /\ Once(r.left) /\ r.given \in Seq(V) /\ Len(r.given) = i /\ Once(r.given)
      /\ \A j \in 1..Len(r.left) : \A m \in 1..Len(r.given) : r.left[j] # r.given[m]
  BY DEF SharedOut
<1>2. k \in 1..Len(r.left)
  <2>1. config[atom] \in AllLocations(arch)
    BY ReturnTypes
  <2>2. r.left \in Seq(home)
    BY <1>1
  <2>3. Len(r.left) >= 1
    BY <1>1
  <2> QED BY <2>1, <2>2, <2>3, NearestIsOne
<1> HIDE DEF k
<1>3. PICK s \in Seq(V) : s = SwapRemoved(r.left, k) /\ Len(s) = (n - i) - 1 /\ Once(s)
                          /\ \A j \in 1..Len(s) : s[j] # r.left[k] /\ \E m \in 1..Len(r.left) : s[j] = r.left[m]
  <2>1. PICK l \in Seq(V) : l = r.left
    BY <1>1
  <2>2. /\ SwapRemoved(l, k) \in Seq(V) /\ Len(SwapRemoved(l, k)) = Len(l) - 1 /\ Once(SwapRemoved(l, k))
        /\ \A j \in 1..Len(SwapRemoved(l, k)) : /\ SwapRemoved(l, k)[j] # l[k]
                                                /\ \E m \in 1..Len(l) : SwapRemoved(l, k)[j] = l[m]
    <3>1. Once(l) /\ k \in 1..Len(l)
      BY <1>1, <1>2, <2>1
    <3>2. PICK kk : kk = k
      OBVIOUS
    <3>3. kk \in 1..Len(l)
      BY <3>1, <3>2
    <3>4. /\ SwapRemoved(l, kk) \in Seq(V) /\ Len(SwapRemoved(l, kk)) = Len(l) - 1 /\ Once(SwapRemoved(l, kk))
        /\ \A j \in 1..Len(SwapRemoved(l, kk)) : /\ SwapRemoved(l, kk)[j] # l[kk]
                                                /\ \E m \in 1..Len(l) : SwapRemoved(l, kk)[j] = l[m]
      BY <3>1, <3>3, SwapRemovedOnce
    <3> QED BY <3>2, <3>4
  <2> QED BY <1>1, <2>1, <2>2
<1>4. PICK at \in V : at = r.left[k]
  BY <1>1, <1>2
<1>5. PICK g \in Seq(V) : g = Append(r.given, at) /\ Len(g) = i + 1 /\ g[i + 1] = at /\ \A m \in 1..i : g[m] = r.given[m]
  <2>1. \A t \in Seq(V) : \A e \in V : /\ Append(t, e) \in Seq(V) /\ Len(Append(t, e)) = Len(t) + 1
                                       /\ Append(t, e)[Len(t) + 1] = e /\ \A m \in 1..Len(t) : Append(t, e)[m] = t[m]
    OBVIOUS
  <2>2. /\ Append(r.given, at) \in Seq(V) /\ Len(Append(r.given, at)) = Len(r.given) + 1
        /\ Append(r.given, at)[Len(r.given) + 1] = at
        /\ \A m \in 1..Len(r.given) : Append(r.given, at)[m] = r.given[m]
    BY <1>1, <2>1
  <2>3. Len(r.given) = i
    BY <1>1
  <2> QED BY <2>2, <2>3
<1>6. NearestTurn(r, atom).left = s /\ NearestTurn(r, atom).given = g
  BY <1>3, <1>4, <1>5 DEF NearestTurn, k
<1>7. \A m \in 1..(i + 1) : m = i + 1 \/ m \in 1..i
  OBVIOUS
<1>8. \A m \in 1..i : r.given[m] # at
  BY <1>1, <1>2, <1>4
<1>9. Once(g)
  <2> SUFFICES ASSUME NEW m \in 1..(i + 1), NEW o \in 1..(i + 1), g[m] = g[o] PROVE m = o
    BY <1>5 DEF Once
  <2>1. CASE m = i + 1 /\ o \in 1..i
    BY <1>5, <1>8, <2>1
  <2>2. CASE o = i + 1 /\ m \in 1..i
    BY <1>5, <1>8, <2>2
  <2>3. CASE m \in 1..i /\ o \in 1..i
    BY <1>1, <1>5, <2>3 DEF Once
  <2> QED BY <1>7, <2>1, <2>2, <2>3
<1>10. ASSUME NEW j \in 1..Len(s), NEW m \in 1..Len(g) PROVE s[j] # g[m]
  <2>1. CASE m = i + 1
    BY <1>3, <1>4, <1>5, <2>1
  <2>2. CASE m \in 1..i
    BY <1>1, <1>3, <1>5, <2>2
  <2> QED BY <1>5, <1>7, <2>1, <2>2
<1>11. Len(s) = n - (i + 1)
  BY <1>3
<1> QED BY <1>3, <1>5, <1>6, <1>9, <1>10, <1>11 DEF SharedOut

\* nearest_home_layout gives the first atoms sites of their own, as many as there are.
LEMMA GreedyTypes ==
    ASSUME InReturn
    PROVE  /\ DOMAIN Greedy = {Returners[i] : i \in 1..Lower(Len(Returners), Len(Holes))}
           /\ \A q \in DOMAIN Greedy : \E h \in 1..Len(Holes) : Greedy[q] = Holes[h]
           /\ \A p, q \in DOMAIN Greedy : p # q => Greedy[p] # Greedy[q]
<1> DEFINE served == Lower(Len(Returners), Len(Holes))
           n == Len(Holes)
           V == {Holes[h] : h \in 1..n}
           Step(g, i) == IF i = 0 THEN [left |-> Holes, given |-> << >>] ELSE NearestTurn(g[i - 1], Returners[i])
           Good(F, m) == \A i \in 0..m : F[i] = Step(F, i) /\ SharedOut(F[i], i, V, n)
           S == {m \in Nat : m <= served => \E F : F = [i \in 0..m |-> F[i]] /\ Good(F, m)}
<1>1. /\ Holes \in Seq(home \ task.blocked) /\ Once(Holes) /\ n \in Nat
      /\ Returners \in Seq(DOMAIN config) /\ Once(Returners) /\ Len(Returners) \in Nat
  BY ReturnTypes
<1>2. served \in Nat /\ served <= n /\ served <= Len(Returners)
  BY <1>1 DEF Lower
<1>3. V \subseteq home /\ Holes \in Seq(V)
  <2>1. \A h \in 1..n : Holes[h] \in home /\ Holes[h] \in V
    BY <1>1
  <2>2. V \subseteq home
    BY <2>1
  <2> HIDE DEF V
  <2>3. Holes = [h \in 1..n |-> Holes[h]]
    BY <1>1
  <2>4. Holes \in [1..n -> V]
    BY <2>1, <2>3
  <2>5. \A r \in [1..n -> V] : r \in Seq(V)
    BY <1>1
  <2> QED BY <2>2, <2>4, <2>5
<1>4. \A i \in 1..served : Returners[i] \in DOMAIN config
  BY <1>1, <1>2
<1>5. SharedOut([left |-> Holes, given |-> << >>], 0, V, n)
  <2>1. << >> \in Seq(V) /\ Len(<< >>) = 0 /\ 1..0 = {}
    OBVIOUS
  <2>2. n - 0 = n
    BY <1>1
  <2> HIDE DEF V
  <2> QED BY <1>1, <1>3, <2>1, <2>2 DEF SharedOut, Once
<1> HIDE DEF V
<1>6. 0 \in S
  <2>1. PICK F : F = [i \in 0..0 |-> [left |-> Holes, given |-> << >>]]
    OBVIOUS
  <2>2. \A i \in 0..0 : i = 0 /\ F[i] = [left |-> Holes, given |-> << >>]
    BY <2>1
  <2>3. Good(F, 0)
    BY <1>5, <2>2
  <2>4. F = [i \in 0..0 |-> F[i]]
    BY <2>1
  <2> HIDE DEF Good
  <2> QED BY <2>3, <2>4
<1>7. ASSUME NEW m \in Nat, m \in S PROVE m + 1 \in S
  <2> SUFFICES ASSUME m + 1 <= served PROVE \E F : F = [i \in 0..(m + 1) |-> F[i]] /\ Good(F, m + 1)
    <3> HIDE DEF Good, served
    <3> QED OBVIOUS
  <2>1. PICK F : Good(F, m)
    <3> HIDE DEF Good, served
    <3> QED BY <1>2, <1>7
  <2>2. PICK H : H = [i \in 0..(m + 1) |-> IF i = m + 1 THEN NearestTurn(F[m], Returners[m + 1]) ELSE F[i]]
    OBVIOUS
  <2>3. H[m + 1] = NearestTurn(F[m], Returners[m + 1]) /\ \A i \in 0..m : H[i] = F[i]
    BY <2>2
  <2>4. \A i \in 0..m : F[i] = Step(F, i) /\ SharedOut(F[i], i, V, n)
    BY <2>1
  <2>5. SharedOut(H[m + 1], m + 1, V, n)
    <3>1. m \in 0..m /\ m < n /\ m + 1 \in 1..served
      BY <1>1, <1>2
    <3>2. SharedOut(F[m], m, V, n) /\ Returners[m + 1] \in DOMAIN config
      <4> HIDE DEF Step, n, served
      <4> QED BY <1>4, <2>4, <3>1
    <3> HIDE DEF Step, n, served
    <3> QED BY <1>1, <1>3, <2>3, <3>1, <3>2, NearestTurnShares
  <2>6. ASSUME NEW i \in 0..(m + 1) PROVE H[i] = Step(H, i) /\ SharedOut(H[i], i, V, n)
    <3>1. CASE i = m + 1
      <4>1. i # 0 /\ i - 1 = m /\ m \in 0..m
        BY <3>1
      <4>2. H[i] = Step(H, i)
        BY <2>3, <3>1, <4>1
      <4> QED BY <2>5, <3>1, <4>2
    <3>2. CASE i \in 0..m
      <4>1. i = 0 \/ i - 1 \in 0..m
        BY <3>2
      <4>2. H[i] = Step(H, i)
        BY <2>3, <2>4, <3>2, <4>1
      <4> QED BY <2>3, <2>4, <3>2, <4>2
    <3> QED BY <3>1, <3>2
  <2>7. Good(H, m + 1) /\ H = [i \in 0..(m + 1) |-> H[i]]
    <3>1. H = [i \in 0..(m + 1) |-> H[i]]
      BY <2>2
    <3> HIDE DEF Step
    <3> QED BY <2>6, <3>1
  <2> HIDE DEF Good
  <2> QED BY <2>7
<1>8. PICK F : F = [i \in 0..served |-> F[i]] /\ Good(F, served)
  <2>1. served \in S
    <3> HIDE DEF S, served
    <3> QED BY <1>2, <1>6, <1>7, Induction
  <2> HIDE DEF Good, served
  <2> QED BY <1>2, <2>1
<1> DEFINE Solves(g) == g = [i \in 0..served |-> Step(g, i)]
           G == CHOOSE g : Solves(g)
<1>9. Solves(F)
  <2> HIDE DEF Step, served
  <2> QED BY <1>8
<1>10. Solves(G)
  <2> HIDE DEF Solves
  <2> QED BY <1>9
<1>11. Greedy = [q \in {Returners[i] : i \in 1..served} |-> G[served].given[CHOOSE i \in 1..served : Returners[i] = q]]
  BY DEF Greedy, NearestHome, NearestTurn
<1> HIDE DEF G
<1>12. \A i \in 0..served : G[i] = Step(G, i)
  <2> HIDE DEF Step, served
  <2> QED BY <1>10
<1> DEFINE E == {m \in Nat : m <= served => SharedOut(G[m], m, V, n)}
<1>13. 0 \in E
  <2>1. G[0] = [left |-> Holes, given |-> << >>]
    BY <1>2, <1>12
  <2> QED BY <1>5, <2>1
<1>14. ASSUME NEW m \in Nat, m \in E PROVE m + 1 \in E
  <2> SUFFICES ASSUME m + 1 <= served PROVE SharedOut(G[m + 1], m + 1, V, n)
    OBVIOUS
  <2>1. m + 1 \in 0..served /\ m + 1 # 0 /\ (m + 1) - 1 = m /\ m < n /\ m + 1 \in 1..served /\ m <= served
    BY <1>1, <1>2
  <2>2. G[m + 1] = NearestTurn(G[m], Returners[m + 1])
    <3>1. G[m + 1] = Step(G, m + 1)
      <4> HIDE DEF Step, served
      <4> QED BY <1>12, <2>1
    <3> QED BY <2>1, <3>1
  <2>3. SharedOut(G[m], m, V, n) /\ Returners[m + 1] \in DOMAIN config
    <3>1. SharedOut(G[m], m, V, n)
      BY <1>14, <2>1
    <3> HIDE DEF served
    <3> QED BY <1>4, <2>1, <3>1
  <2> HIDE DEF n, served
  <2> QED BY <1>1, <1>3, <2>1, <2>2, <2>3, NearestTurnShares
<1>15. SharedOut(G[served], served, V, n)
  <2>1. served \in E
    <3> HIDE DEF E, served
    <3> QED BY <1>2, <1>13, <1>14, Induction
  <2> QED BY <1>2, <2>1
<1>16. PICK given \in Seq(V) : given = G[served].given /\ Len(given) = served /\ Once(given)
  <2> HIDE DEF served, n
  <2> QED BY <1>15 DEF SharedOut
<1> HIDE DEF served
<1>17. ASSUME NEW i \in 1..served PROVE Returners[i] \in DOMAIN Greedy /\ Greedy[Returners[i]] = given[i] /\ given[i] \in V
  <2>1. \A k \in 1..served : Returners[k] = Returners[i] => k = i
    BY <1>1, <1>2 DEF Once
  <2>2. (CHOOSE k \in 1..served : Returners[k] = Returners[i]) = i
    BY <2>1
  <2>3. given[i] \in V
    BY <1>16
  <2> QED BY <1>11, <1>16, <2>2, <2>3
<1>18. DOMAIN Greedy = {Returners[i] : i \in 1..served}
  BY <1>11
<1>19. \A q \in DOMAIN Greedy : \E h \in 1..Len(Holes) : Greedy[q] = Holes[h]
  BY <1>17, <1>18 DEF V
<1>20. \A p, q \in DOMAIN Greedy : p # q => Greedy[p] # Greedy[q]
  <2> SUFFICES ASSUME NEW i \in 1..served, NEW k \in 1..served, Greedy[Returners[i]] = Greedy[Returners[k]] PROVE i = k
    BY <1>18
  <2>1. given[i] = given[k]
    BY <1>17
  <2> QED BY <1>16, <2>1 DEF Once
<1> QED BY <1>18, <1>19, <1>20 DEF served

\* Sites, by how good they are.
LEMMA BestFirstListed ==
    ASSUME NEW S \in SUBSET Nat, IsFiniteSet(S), NEW T, S \subseteq T, NEW score \in [T -> Int]
    PROVE  BestFirst(S, score) \in Seq(S)
<1> DEFINE before(i, j) == score[i] < score[j] \/ (score[i] = score[j] /\ i < j)
           R == {x \in S \X S : before(x[1], x[2])}
           t == BestFirst(S, score)
           Under == [x \in S |-> Cardinality({y \in S : <<y, x>> \in R})]
<1>1. \A x, y \in S : <<x, y>> \in R <=> before(x, y)
  <2> HIDE DEF before
  <2> QED OBVIOUS
<1>2. t = [k \in 1..Cardinality(S) |-> CHOOSE x \in S : Cardinality({y \in S : before(y, x)}) = k - 1]
  BY DEF BestFirst, InOrder
<1>3. ASSUME NEW x \in S PROVE Under[x] = Cardinality({y \in S : before(y, x)})
  <2>1. {y \in S : <<y, x>> \in R} = {y \in S : before(y, x)}
    BY <1>1
  <2> HIDE DEF R, before
  <2> QED BY <2>1
<1>4. ASSUME NEW k \in 1..Cardinality(S), NEW x \in S, Under[x] = k - 1
      PROVE  t[k] \in S /\ Under[t[k]] = k - 1
  <2> HIDE DEF before
  <2>1. Cardinality({y \in S : before(y, x)}) = k - 1
    BY <1>3, <1>4
  <2>2. t[k] = CHOOSE z \in S : Cardinality({y \in S : before(y, z)}) = k - 1
    BY <1>2
  <2> HIDE DEF t
  <2>3. t[k] \in S /\ Cardinality({y \in S : before(y, t[k])}) = k - 1
    BY <2>1, <2>2
  <2> HIDE DEF Under
  <2> QED BY <2>3, <1>3
<1>5. Orders(S, R)
  <2>1. \A x \in S : x \in Nat /\ score[x] \in Int
    OBVIOUS
  <2> HIDE DEF R
  <2>2. \A x \in S : <<x, x>> \notin R
    BY <1>1, <2>1
  <2>3. \A x, y, z \in S : <<x, y>> \in R /\ <<y, z>> \in R => <<x, z>> \in R
    BY <1>1, <2>1
  <2>4. \A x, y \in S : x # y => <<x, y>> \in R \/ <<y, x>> \in R
    BY <1>1, <2>1
  <2> QED BY <2>2, <2>3, <2>4 DEF Orders
<1>6. t = [k \in 1..Cardinality(S) |-> t[k]]
  <2> HIDE DEF before
  <2> QED BY <1>2
<1>7. \A x \in S : Under[x] = Cardinality({y \in S : <<y, x>> \in R})
  <2> HIDE DEF R
  <2> QED OBVIOUS
<1>8. SortedBy(t, S, R)
  <2> HIDE DEF t, Under, R
  <2> QED BY <1>4, <1>5, <1>6, <1>7, SortedByRank
<1> QED BY <1>8 DEF SortedBy

----------------------------------------------------------------------------
(***************************************************************************)
(* Prices.                                                                 *)
(***************************************************************************)
Pulls == {task.weights[d] * Len(task.layers[d]) : d \in DOMAIN task.layers} \cup {0}

\* The heaviest layer counts for all.
LEMMA HeaviestLayer ==
    ASSUME InReturn
    PROVE  \E pull \in Pulls : /\ pull \in Nat
                               /\ \A q, p : /\ WeightOf(q, p) \in Nat
                                            /\ WeightOf(q, p) <= Len(task.layers) * pull
<1> DEFINE D == DOMAIN task.layers
<1>1. /\ task.layers \in Seq(Seq(Nat \X Nat)) /\ task.weights \in [D -> Nat]
  BY ReturnsAssumption DEF InReturn
<1>2. /\ D = 1..Len(task.layers) /\ Len(task.layers) \in Nat
      /\ \A d \in D : task.layers[d] \in Seq(Nat \X Nat)
  BY <1>1
<1>3. \A d \in D : Len(task.layers[d]) \in Nat /\ DOMAIN task.layers[d] = 1..Len(task.layers[d]) /\ task.weights[d] \in Nat
  BY <1>1, <1>2
<1>4. IsFiniteSet(D) /\ Cardinality(D) = Len(task.layers)
  BY <1>2, FS_Interval
<1>5. Pulls \in SUBSET Nat /\ 0 \in Pulls
  <2>1. ASSUME NEW d \in D PROVE task.weights[d] * Len(task.layers[d]) \in Nat
    BY <1>3
  <2> QED BY <2>1 DEF Pulls
<1>6. IsFiniteSet(Pulls)
  <2> DEFINE pullOf == [d \in D |-> task.weights[d] * Len(task.layers[d])]
  <2>1. IsFiniteSet({pullOf[d] : d \in D})
    <3> HIDE DEF D, pullOf
    <3> QED BY <1>4, ImageFinite
  <2>2. {pullOf[d] : d \in D} = {task.weights[d] * Len(task.layers[d]) : d \in D}
    OBVIOUS
  <2>3. IsFiniteSet({task.weights[d] * Len(task.layers[d]) : d \in D} \cup {0})
    BY <2>1, <2>2, FS_AddElement
  <2> QED BY <2>3 DEF Pulls
<1>7. PICK pull \in Pulls : \A o \in Pulls : o <= pull
  BY <1>5, <1>6, GreatestNumber
<1>8. pull \in Nat
  BY <1>5
<1>9. ASSUME NEW q, NEW p
      PROVE  WeightOf(q, p) \in Nat /\ WeightOf(q, p) <= Len(task.layers) * pull
  <2> DEFINE gates(d) == {i \in DOMAIN task.layers[d] : Entries(task.layers[d][i]) = {q, p}}
             f == [d \in D |-> task.weights[d] * Cardinality(gates(d))]
  <2>1. ASSUME NEW d \in D PROVE f[d] \in Nat /\ f[d] <= pull
    <3>1. gates(d) \subseteq 1..Len(task.layers[d])
      BY <1>3
    <3> HIDE DEF gates
    <3>2. IsFiniteSet(1..Len(task.layers[d])) /\ Cardinality(1..Len(task.layers[d])) = Len(task.layers[d])
      BY <1>3, FS_Interval
    <3>3. Cardinality(gates(d)) \in Nat /\ Cardinality(gates(d)) <= Len(task.layers[d])
      BY <3>1, <3>2, FS_Subset, FS_CardinalityType
    <3>4. Cardinality(gates(d)) \in 0..Len(task.layers[d])
      BY <1>3, <3>3
    <3>5. /\ task.weights[d] * Cardinality(gates(d)) \in Nat /\ task.weights[d] * Len(task.layers[d]) \in Nat
          /\ task.weights[d] * Cardinality(gates(d)) <= task.weights[d] * Len(task.layers[d])
      BY <1>3, <3>4, ProductBound
    <3>6. task.weights[d] * Len(task.layers[d]) \in Pulls
      BY DEF Pulls
    <3>7. task.weights[d] * Len(task.layers[d]) <= pull
      BY <1>7, <3>6
    <3>8. f[d] = task.weights[d] * Cardinality(gates(d))
      OBVIOUS
    <3>9. \A x, y, z \in Nat : x <= y /\ y <= z => x <= z
      OBVIOUS
    <3> HIDE DEF f
    <3> QED BY <1>8, <3>5, <3>7, <3>8, <3>9
  <2>2. WeightOf(q, p) = Total(f)
    BY DEF WeightOf
  <2>3. f \in [D -> Nat]
    <3>1. f = [d \in D |-> f[d]]
      OBVIOUS
    <3> HIDE DEF f, D
    <3> QED BY <2>1, <3>1
  <2> HIDE DEF f, D
  <2> QED BY <1>4, <1>8, <2>1, <2>2, <2>3, TotalTypes
<1> QED BY <1>7, <1>8, <1>9

\* A site that can be reached has a price; as many times as there are atoms it is
\* less than no price.
LEMMA ScoreTypes ==
    ASSUME InReturn, NEW q \in DOMAIN config, NEW at \in home, NEW expected,
           DOMAIN expected \subseteq DOMAIN config, \A p \in DOMAIN expected : expected[p] \in home
    PROVE  /\ SiteScore(q, at, expected) \in Nat
           /\ HopsHome(config[q], at) < Big =>
                 Cardinality(DOMAIN config) * SiteScore(q, at, expected) < Big
<1> DEFINE others == DOMAIN expected \ {q}
           f == [p \in others |-> Drawn(WeightOf(q, p), HopsHome(at, expected[p]))]
<1>1. PICK pull \in Pulls : pull \in Nat /\ \A o, p : WeightOf(o, p) \in Nat /\ WeightOf(o, p) <= Len(task.layers) * pull
  BY HeaviestLayer
<1>2. PICK atoms : atoms = Cardinality(DOMAIN config)
  OBVIOUS
<1>3. PICK hops : hops = Cardinality(AllLocations(arch))
  OBVIOUS
<1>4. /\ atoms \in Nat /\ config \in [DOMAIN config -> AllLocations(arch)] /\ home \subseteq AllLocations(arch)
      /\ IsFiniteSet(DOMAIN config) /\ arch \in Archs
  BY <1>2, ReturnTypes
<1>5. hops \in Nat
  BY <1>3, <1>4, LocationsFinite, FS_CardinalityType
<1>6. Len(task.layers) \in Nat /\ task.unit \in Nat /\ task \in Returns
  BY ReturnsAssumption DEF InReturn
<1>7. PICK weight \in Nat : weight = Len(task.layers) * pull
  BY <1>1, <1>6
<1>8. PICK drawn \in Nat : drawn = weight * hops
  BY <1>5, <1>7
<1>9. IsFiniteSet(others) /\ Cardinality(others) \in Nat /\ Cardinality(others) <= atoms
  <2>1. others \subseteq DOMAIN config
    OBVIOUS
  <2> HIDE DEF others
  <2> QED BY <1>2, <1>4, <2>1, FS_Subset, FS_CardinalityType
<1>10. ASSUME NEW p \in others PROVE f[p] \in Nat /\ f[p] <= drawn
  <2>1. at \in AllLocations(arch) /\ expected[p] \in home
    BY <1>4
  <2>2. PICK far \in Nat : far = HopsHome(at, expected[p]) /\ (far < Big => far <= hops)
    BY <1>3, <2>1, HopsHomeTypes
  <2>3. PICK w \in Nat : w = WeightOf(q, p) /\ w <= weight
    BY <1>1, <1>7
  <2>4. f[p] = IF far >= Big THEN 0 ELSE w * far
    BY <2>2, <2>3 DEF Drawn
  <2> HIDE DEF f
  <2>5. CASE far >= Big
    BY <1>8, <2>4, <2>5
  <2>6. CASE far < Big
    <3>1. far \in 0..hops /\ w \in 0..weight
      BY <1>5, <2>2, <2>3, <2>6
    <3>2. w * far \in Nat /\ w * hops \in Nat /\ w * far <= w * hops
      BY <1>5, <3>1, ProductBound
    <3>3. hops * w <= hops * weight /\ hops * w \in Nat
      BY <1>5, <3>1, ProductBound
    <3>4. hops * w = w * hops /\ hops * weight = weight * hops
      BY <1>5
    <3>5. f[p] = w * far
      BY <2>2, <2>4, <2>6, BigAssumption
    <3>6. \A x, y, z \in Nat : x <= y /\ y <= z => x <= z
      OBVIOUS
    <3> QED BY <1>8, <3>2, <3>3, <3>4, <3>5, <3>6
  <2> QED BY <2>2, <2>5, <2>6, BigAssumption
<1>11. Ahead(q, at, expected) = Total(f)
  BY DEF Ahead
<1>12. f \in [others -> Nat]
  <2>1. f = [p \in others |-> f[p]]
    OBVIOUS
  <2> HIDE DEF f, others
  <2> QED BY <1>10, <2>1
<1>13. PICK ahead \in Nat : ahead = Ahead(q, at, expected) /\ ahead <= Cardinality(others) * drawn
  <2> HIDE DEF f, others
  <2> QED BY <1>8, <1>9, <1>10, <1>11, <1>12, TotalTypes
<1>14. ahead <= atoms * drawn
  <2>1. PICK c \in 0..atoms : c = Cardinality(others)
    BY <1>4, <1>9
  <2>2. drawn * c <= drawn * atoms /\ drawn * c \in Nat /\ drawn * atoms \in Nat
    BY <1>4, <1>8, ProductBound
  <2>3. c * drawn = drawn * c /\ atoms * drawn = drawn * atoms
    BY <1>4, <1>8, <2>1
  <2>4. ahead <= drawn * c
    BY <1>13, <2>1, <2>3
  <2> QED BY <1>13, <2>2, <2>3, <2>4
<1>15. PICK far \in Nat : far = HopsHome(config[q], at) /\ (far < Big => far <= hops)
  <2>1. config[q] \in AllLocations(arch)
    BY <1>4
  <2> QED BY <1>3, <2>1, HopsHomeTypes
<1>16. PICK unit \in Nat : unit = task.unit
  BY <1>6
<1>17. PICK score \in Nat : score = SiteScore(q, at, expected) /\ score = unit * far + ahead
  <2>1. unit * far \in Nat
    BY <1>15, <1>16
  <2> QED BY <1>13, <1>15, <1>16, <2>1 DEF SiteScore
<1>18. ASSUME far < Big PROVE atoms * score < Big
  <2>1. PICK dearest \in Nat : dearest = unit * hops + atoms * drawn
    <3>1. unit * hops \in Nat /\ atoms * drawn \in Nat
      BY <1>4, <1>5, <1>8, <1>16
    <3> QED BY <3>1
  <2>2. unit * far \in Nat /\ unit * hops \in Nat /\ unit * far <= unit * hops
    <3>1. far \in 0..hops
      BY <1>5, <1>15, <1>18
    <3> QED BY <1>5, <1>16, <3>1, ProductBound
  <2>3. atoms * drawn \in Nat
    BY <1>4, <1>8
  <2>4. score <= dearest
    BY <1>13, <1>14, <1>17, <2>1, <2>2, <2>3
  <2>5. atoms * score \in Nat /\ atoms * dearest \in Nat /\ atoms * score <= atoms * dearest
    <3>1. score \in 0..dearest
      BY <1>17, <2>1, <2>4
    <3> QED BY <1>4, <2>1, <3>1, ProductBound
  <2>6. Dearest(task, pull) = atoms * dearest
    <3>1. DOMAIN task.config = DOMAIN config /\ arch = task.arch
      BY DEF InReturn, arch
    <3> QED BY <1>2, <1>3, <1>7, <1>8, <1>16, <2>1, <3>1 DEF Dearest
  <2>7. Dearest(task, pull) < Big
    BY <1>6, PricesAssumption DEF Pulls
  <2> QED BY <2>5, <2>6, <2>7, BigAssumption
<1> QED BY <1>2, <1>15, <1>17, <1>18

----------------------------------------------------------------------------
(***************************************************************************)
(* The edges and their prices.                                             *)
(***************************************************************************)
\* A sum of naturals is no less than any of them, and no more than as many times
\* what none of them exceeds.
LEMMA SumsOfNaturals ==
    ASSUME NEW n \in Nat, NEW f \in [1..n -> Nat], NEW F, Sums(F, f, n)
    PROVE  /\ F[n] \in Nat /\ \A k \in 1..n : f[k] <= F[n]
           /\ \A b \in Nat : (\A k \in 1..n : f[k] <= b) => F[n] <= n * b
<1>1. F \in [0..n -> Int] /\ F[0] = 0 /\ \A k \in 1..n : F[k] = F[k - 1] + f[k]
  BY DEF Sums
<1> DEFINE S == {m \in Nat : m <= n => F[m] \in Nat /\ \A k \in 1..m : f[k] <= F[m]}
<1>2. 0 \in S
  BY <1>1
<1>3. ASSUME NEW m \in Nat, m \in S PROVE m + 1 \in S
  <2> SUFFICES ASSUME m + 1 <= n PROVE F[m + 1] \in Nat /\ \A k \in 1..(m + 1) : f[k] <= F[m + 1]
    OBVIOUS
  <2>1. m + 1 \in 1..n /\ (m + 1) - 1 = m /\ F[m] \in Nat /\ \A k \in 1..m : f[k] <= F[m]
    BY <1>3
  <2>2. F[m + 1] = F[m] + f[m + 1] /\ f[m + 1] \in Nat
    BY <1>1, <2>1
  <2>3. \A k \in 1..(m + 1) : k = m + 1 \/ k \in 1..m
    OBVIOUS
  <2>4. \A k \in 1..m : f[k] \in Nat
    BY <2>1
  <2> QED BY <2>1, <2>2, <2>3, <2>4
<1>4. n \in S
  <2> HIDE DEF S
  <2> QED BY <1>2, <1>3, Induction
<1>5. ASSUME NEW b \in Nat, \A k \in 1..n : f[k] <= b PROVE F[n] <= n * b
  <2> DEFINE T == {m \in Nat : m <= n => F[m] <= m * b}
  <2>1. 0 \in T
    BY <1>1
  <2>2. ASSUME NEW m \in Nat, m \in T PROVE m + 1 \in T
    <3> SUFFICES ASSUME m + 1 <= n PROVE F[m + 1] <= (m + 1) * b
      OBVIOUS
    <3>1. m + 1 \in 1..n /\ (m + 1) - 1 = m /\ F[m] <= m * b /\ m \in 0..n
      BY <2>2
    <3>2. F[m + 1] = F[m] + f[m + 1] /\ f[m + 1] \in Nat /\ f[m + 1] <= b /\ F[m] \in Int
      BY <1>1, <1>5, <3>1
    <3>3. (m + 1) * b = m * b + b /\ m * b \in Nat
      OBVIOUS
    <3> QED BY <3>1, <3>2, <3>3
  <2>3. n \in T
    <3> HIDE DEF T
    <3> QED BY <2>1, <2>2, Induction
  <2> QED BY <2>3
<1> QED BY <1>4, <1>5

\* Every partner is expected at home.
LEMMA ExpectedTypes ==
    ASSUME InReturn
    PROVE  /\ DOMAIN Expected(Greedy) \subseteq DOMAIN config
           /\ \A p \in DOMAIN Expected(Greedy) : Expected(Greedy)[p] \in home
<1>1. /\ \A q \in DOMAIN Greedy : q \in DOMAIN config
      /\ \A q \in DOMAIN Greedy : Greedy[q] \in home
  <2>1. Returners \in Seq(DOMAIN config) /\ Len(Returners) \in Nat /\ Len(Holes) \in Nat /\ Holes \in Seq(home \ task.blocked)
    BY ReturnTypes
  <2>2. \A i \in 1..Len(Returners) : Returners[i] \in DOMAIN config
    BY <2>1
  <2>3. \A h \in 1..Len(Holes) : Holes[h] \in home
    BY <2>1
  <2>4. \A i \in 1..Lower(Len(Returners), Len(Holes)) : i \in 1..Len(Returners)
    BY <2>1 DEF Lower
  <2>5. \A q \in DOMAIN Greedy : \E i \in 1..Lower(Len(Returners), Len(Holes)) : q = Returners[i]
    BY GreedyTypes
  <2>6. \A q \in DOMAIN Greedy : \E h \in 1..Len(Holes) : Greedy[q] = Holes[h]
    BY GreedyTypes
  <2> QED BY <2>2, <2>3, <2>4, <2>5, <2>6
<1>2. PICK g : g = Greedy
  OBVIOUS
<1> QED BY <1>1, <1>2 DEF Expected

\* The sites of an atom that have a price can be reached.
ReachedFrom(q) == {i \in DOMAIN Holes : HopsHome(config[q], Holes[i]) < Big}
LEMMA EdgesTypes ==
    ASSUME InReturn, NEW q \in DOMAIN config, NEW expected,
           DOMAIN expected \subseteq DOMAIN config, \A p \in DOMAIN expected : expected[p] \in home
    PROVE  EdgesOf(q, expected) \in Seq(ReachedFrom(q))
<1> DEFINE S == ReachedFrom(q)
           score == [i \in DOMAIN Holes |-> SiteScore(q, Holes[i], expected)]
           ranked == BestFirst(S, score)
<1>1. DOMAIN Holes = 1..Len(Holes) /\ Len(Holes) \in Nat /\ \A i \in DOMAIN Holes : Holes[i] \in home
  <2>1. Holes \in Seq(home \ task.blocked)
    BY ReturnTypes
  <2> QED BY <2>1
<1>2. S \in SUBSET Nat /\ IsFiniteSet(S) /\ S \subseteq DOMAIN Holes
  <2>1. S \subseteq 1..Len(Holes) /\ IsFiniteSet(1..Len(Holes)) /\ 1..Len(Holes) \subseteq Nat
    BY <1>1, FS_Interval DEF ReachedFrom
  <2> HIDE DEF S
  <2> QED BY <1>1, <2>1, FS_Subset
<1>3. score \in [DOMAIN Holes -> Int]
  <2>1. \A i \in DOMAIN Holes : score[i] \in Int
    <3> TAKE i \in DOMAIN Holes
    <3>1. SiteScore(q, Holes[i], expected) \in Nat
      BY <1>1, ScoreTypes
    <3> QED BY <3>1
  <2>2. score = [i \in DOMAIN Holes |-> score[i]]
    OBVIOUS
  <2> HIDE DEF score
  <2> QED BY <2>1, <2>2
<1>4. EdgesOf(q, expected) = SubSeq(ranked, 1, Lower(task.kept, Len(ranked)))
  BY DEF EdgesOf, ReachedFrom
<1>5. PICK r \in Seq(S) : r = ranked
  <2> HIDE DEF S, score
  <2> QED BY <1>2, <1>3, BestFirstListed
<1>6. Lower(task.kept, Len(r)) \in Nat /\ Lower(task.kept, Len(r)) <= Len(r)
  <2>1. task.kept \in Nat
    BY ReturnsAssumption DEF InReturn
  <2>2. Len(r) \in Nat
    OBVIOUS
  <2> QED BY <2>1, <2>2 DEF Lower
<1>7. SubSeq(r, 1, Lower(task.kept, Len(r))) \in Seq(S)
  <2> HIDE DEF S
  <2>1. \A m \in Nat : m <= Len(r) => SubSeq(r, 1, m) \in Seq(S)
    OBVIOUS
  <2> QED BY <1>6, <2>1
<1> QED BY <1>4, <1>5, <1>7

\* The columns are the sites that some row has an edge to, each of them once.
LEMMA ActiveTypes ==
    ASSUME NEW n \in Nat, NEW m \in Nat, NEW found \in [1..n -> Seq(1..m)]
    PROVE  /\ ActiveOf(found) \in Seq(1..m) /\ Len(ActiveOf(found)) \in Nat /\ Once(ActiveOf(found))
           /\ \A i \in 1..n : \A h \in Entries(found[i]) : \E j \in 1..Len(ActiveOf(found)) : ActiveOf(found)[j] = h
<1> DEFINE S == UNION {Entries(found[i]) : i \in DOMAIN found}
<1>1. DOMAIN found = 1..n
  OBVIOUS
<1>2. \A i \in 1..n : \A h \in Entries(found[i]) : h \in 1..m
  <2> SUFFICES ASSUME NEW i \in 1..n, NEW h \in Entries(found[i]) PROVE h \in 1..m
    OBVIOUS
  <2>1. PICK s \in Seq(1..m) : s = found[i]
    OBVIOUS
  <2> QED BY <2>1 DEF Entries
<1>3. S \subseteq 1..m
  BY <1>1, <1>2
<1>4. S \in SUBSET Nat /\ IsFiniteSet(S)
  <2>1. 1..m \subseteq Nat /\ IsFiniteSet(1..m)
    BY FS_Interval
  <2> HIDE DEF S
  <2> QED BY <1>3, <2>1, FS_Subset
<1>5. PICK t \in Seq(S) : t = ActiveOf(found) /\ Entries(t) = S /\ \A i, j \in 1..Len(t) : t[i] = t[j] => i = j
  <2>1. ActiveOf(found) = InOrder(S, <)
    BY DEF ActiveOf, Ascending
  <2> HIDE DEF S
  <2> QED BY <1>4, <2>1, NumbersOnce
<1>6. Len(t) \in Nat /\ DOMAIN t = 1..Len(t) /\ t \in Seq(1..m)
  <2>1. Len(t) \in Nat /\ DOMAIN t = 1..Len(t) /\ \A i \in 1..Len(t) : t[i] \in S
    <3> HIDE DEF S
    <3> QED OBVIOUS
  <2>2. \A i \in 1..Len(t) : t[i] \in 1..m
    <3> HIDE DEF S
    <3> QED BY <1>3, <2>1
  <2>3. t \in [1..Len(t) -> 1..m]
    <3>1. t = [i \in 1..Len(t) |-> t[i]]
      BY <2>1
    <3> HIDE DEF S
    <3> QED BY <2>2, <3>1
  <2>4. \A k \in Nat : \A x \in [1..k -> 1..m] : x \in Seq(1..m)
    OBVIOUS
  <2> HIDE DEF S
  <2> QED BY <2>1, <2>3, <2>4
<1>7. ASSUME NEW i \in 1..n, NEW h \in Entries(found[i]) PROVE \E j \in 1..Len(t) : t[j] = h
  <2>1. h \in S
    BY <1>1
  <2>2. h \in Entries(t)
    BY <1>5, <2>1
  <2> QED BY <1>6, <2>2 DEF Entries
<1> QED BY <1>5, <1>6, <1>7 DEF Once

\* A grid of costs is a proper matrix.
LEMMA GridProper ==
    ASSUME NEW n \in Nat \ {0}, NEW w \in Nat, NEW m, m = [i \in 1..n |-> [j \in 1..w |-> m[i][j]]],
           \A i \in 1..n, j \in 1..w : m[i][j] \in Nat /\ 2 * m[i][j] < Inf
    PROVE  Proper(m) /\ Len(m) = n /\ Width(m) = w
<1>1. \A i \in 1..n : m[i] \in [1..w -> Nat]
  <2> SUFFICES ASSUME NEW i \in 1..n PROVE m[i] \in [1..w -> Nat]
    OBVIOUS
  <2>1. m[i] = [j \in 1..w |-> m[i][j]]
    OBVIOUS
  <2>2. \A j \in 1..w : m[i][j] \in Nat
    OBVIOUS
  <2> QED BY <2>1, <2>2
<1>2. \A k \in Nat : \A T : \A r \in [1..k -> T] : r \in Seq(T) /\ Len(r) = k
  OBVIOUS
<1>3. \A i \in 1..n : m[i] \in Seq(Nat) /\ Len(m[i]) = w
  BY <1>1, <1>2
<1>4. m \in [1..n -> Seq(Nat)]
  <2>1. m = [i \in 1..n |-> m[i]]
    OBVIOUS
  <2> QED BY <1>3, <2>1
<1>5. m \in Seq(Seq(Nat)) /\ Len(m) = n
  BY <1>2, <1>4
<1>6. DOMAIN m = 1..n /\ 1 \in 1..n
  BY <1>4
<1>7. Width(m) = w
  BY <1>3, <1>6 DEF Width
<1>8. m # << >>
  BY <1>5
<1> QED BY <1>3, <1>5, <1>6, <1>7, <1>8 DEF Proper

EdgesMade(found) == found \in [1..Len(Returners) -> Seq(1..Len(Holes))]
Cells(found, m) == Proper(m) /\ Len(m) = Len(Returners) /\ Width(m) = Len(ActiveOf(found))

\* Where an edge has a price, that of all rows together is less than no price.
PricesOf(found, m) ==
    /\ Cells(found, m)
    /\ \A i \in 1..Len(Returners), j \in 1..Len(ActiveOf(found)) :
          IF ActiveOf(found)[j] \in Entries(found[i]) THEN Len(Returners) * m[i][j] < Big ELSE m[i][j] = Big

\* A reward lowers prices, and nothing else.
CostsOf(found, p, m) ==
    /\ Cells(found, m)
    /\ \A i \in 1..Len(Returners), j \in 1..Len(ActiveOf(found)) :
          m[i][j] <= p[i][j] /\ (ActiveOf(found)[j] \notin Entries(found[i]) => m[i][j] = Big)

LEMMA PricesMade ==
    ASSUME InReturn, Returners # << >>,
           NEW found, found = [i \in DOMAIN Returners |-> EdgesOf(Returners[i], Expected(Greedy))]
    PROVE  EdgesMade(found) /\ PricesOf(found, BaseCost(found, ActiveOf(found), Expected(Greedy)))
<1>1. PICK expected : expected = Expected(Greedy) /\ DOMAIN expected \subseteq DOMAIN config
                      /\ \A p \in DOMAIN expected : expected[p] \in home
  BY ExpectedTypes
<1>2. PICK n \in Nat : n = Len(Returners)
  BY ReturnTypes
<1>3. PICK h \in Nat : h = Len(Holes)
  BY ReturnTypes
<1>4. n # 0 /\ DOMAIN Returners = 1..n /\ \A i \in 1..n : Returners[i] \in DOMAIN config
  <2>1. Returners \in Seq(DOMAIN config)
    BY ReturnTypes
  <2> QED BY <1>2, <2>1
<1>5. DOMAIN Holes = 1..h /\ \A i \in 1..h : Holes[i] \in home
  <2>1. Holes \in Seq(home \ task.blocked)
    BY ReturnTypes
  <2> QED BY <1>3, <2>1
<1>6. ASSUME NEW i \in 1..n
      PROVE  /\ found[i] \in Seq(1..h)
             /\ \A k \in Entries(found[i]) : k \in 1..h /\ HopsHome(config[Returners[i]], Holes[k]) < Big
  <2>1. found[i] = EdgesOf(Returners[i], expected)
    BY <1>1, <1>4
  <2>2. Returners[i] \in DOMAIN config
    BY <1>4
  <2>3. found[i] \in Seq(ReachedFrom(Returners[i]))
    BY <1>1, <2>1, <2>2, EdgesTypes
  <2>4. \A k \in ReachedFrom(Returners[i]) : k \in 1..h /\ HopsHome(config[Returners[i]], Holes[k]) < Big
    BY <1>5 DEF ReachedFrom
  <2>5. PICK s \in Seq(ReachedFrom(Returners[i])) : s = found[i]
    BY <2>3
  <2>6. DOMAIN s = 1..Len(s) /\ Len(s) \in Nat /\ \A k \in 1..Len(s) : s[k] \in ReachedFrom(Returners[i])
    OBVIOUS
  <2>7. s \in Seq(1..h)
    <3>1. s \in [1..Len(s) -> 1..h]
      <4>1. \A k \in 1..Len(s) : s[k] \in 1..h
        BY <2>4, <2>6
      <4>2. s = [k \in 1..Len(s) |-> s[k]]
        BY <2>6
      <4> QED BY <4>1, <4>2
    <3>2. \A k \in Nat : \A r \in [1..k -> 1..h] : r \in Seq(1..h)
      OBVIOUS
    <3> QED BY <2>6, <3>1, <3>2
  <2>8. \A k \in Entries(s) : k \in ReachedFrom(Returners[i])
    BY <2>6 DEF Entries
  <2> QED BY <2>4, <2>5, <2>7, <2>8
<1>7. found \in [1..n -> Seq(1..h)]
  <2>1. found = [i \in 1..n |-> found[i]]
    BY <1>4
  <2> QED BY <1>6, <2>1
<1>8. EdgesMade(found)
  BY <1>2, <1>3, <1>7 DEF EdgesMade
<1>9. PICK active \in Seq(1..h) : active = ActiveOf(found) /\ Len(active) \in Nat
  BY <1>7, ActiveTypes
<1>10. PICK w \in Nat : w = Len(active) /\ DOMAIN active = 1..w /\ \A j \in 1..w : active[j] \in 1..h
  BY <1>9
<1>11. PICK m : m = BaseCost(found, active, expected)
  OBVIOUS
<1>12. m = [i \in 1..n |-> [j \in 1..w |->
               IF active[j] \in Entries(found[i]) THEN SiteScore(Returners[i], Holes[active[j]], expected) ELSE Big]]
  BY <1>7, <1>10, <1>11 DEF BaseCost
<1>13. ASSUME NEW i \in 1..n, NEW j \in 1..w
       PROVE  /\ m[i][j] \in Nat
              /\ IF active[j] \in Entries(found[i]) THEN n * m[i][j] < Big /\ m[i][j] < Big ELSE m[i][j] = Big
  <2>1. CASE active[j] \in Entries(found[i])
    <3>1. m[i][j] = SiteScore(Returners[i], Holes[active[j]], expected)
      BY <1>12, <2>1
    <3>2. Returners[i] \in DOMAIN config /\ Holes[active[j]] \in home
      BY <1>4, <1>5, <1>10
    <3>3. HopsHome(config[Returners[i]], Holes[active[j]]) < Big
      BY <1>6, <2>1
    <3>4. m[i][j] \in Nat /\ Cardinality(DOMAIN config) * m[i][j] < Big
      BY <1>1, <3>1, <3>2, <3>3, ScoreTypes
    <3>5. PICK c \in Nat : c = Cardinality(DOMAIN config) /\ n <= c
      BY <1>2, ReturnTypes
    <3>6. PICK x \in Nat : x = m[i][j]
      BY <3>4
    <3>7. x * n <= x * c /\ x * n \in Nat /\ x * c \in Nat
      <4>1. n \in 0..c
        BY <3>5
      <4> QED BY <4>1, <3>5, ProductBound
    <3>8. x * n = n * x /\ x * c = c * x
      OBVIOUS
    <3>9. x * 1 <= x * n
      <4>1. 1 \in 0..n
        BY <1>4
      <4> QED BY <4>1, ProductBound
    <3>10. c * x < Big /\ x * 1 = x
      BY <3>4, <3>5, <3>6
    <3>11. n * x < Big /\ x < Big
      BY <3>7, <3>8, <3>9, <3>10, BigAssumption
    <3> QED BY <2>1, <3>6, <3>11
  <2>2. CASE active[j] \notin Entries(found[i])
    BY <1>12, <2>2, BigAssumption
  <2> QED BY <2>1, <2>2
<1>14. \A i \in 1..n, j \in 1..w : m[i][j] \in Nat /\ 2 * m[i][j] < Inf
  <2> SUFFICES ASSUME NEW i \in 1..n, NEW j \in 1..w PROVE m[i][j] \in Nat /\ 2 * m[i][j] < Inf
    OBVIOUS
  <2>1. m[i][j] \in Nat /\ m[i][j] <= Big
    BY <1>13, BigAssumption
  <2> QED BY <2>1, BigAssumption, InfAssumption, PricesAssumption
<1>15. m = [i \in 1..n |-> [j \in 1..w |-> m[i][j]]]
  BY <1>12
<1>16. Proper(m) /\ Len(m) = n /\ Width(m) = w
  BY <1>4, <1>14, <1>15, GridProper
<1>17. Cells(found, m)
  BY <1>2, <1>9, <1>10, <1>16 DEF Cells
<1>18. PricesOf(found, m)
  BY <1>2, <1>9, <1>10, <1>13, <1>17 DEF PricesOf
<1> QED BY <1>1, <1>8, <1>9, <1>11, <1>18

\* Before a reward the costs are the prices.
LEMMA PricesAreCosts ==
    ASSUME NEW found, NEW m, PricesOf(found, m)
    PROVE  CostsOf(found, m, m)
<1>1. Cells(found, m)
  BY DEF PricesOf
<1>2. DOMAIN m = 1..Len(Returners) /\ \A i \in DOMAIN m, j \in 1..Width(m) : m[i][j] \in Nat
  BY <1>1, ProperTypes DEF Cells
<1>3. \A i \in 1..Len(Returners), j \in 1..Len(ActiveOf(found)) : m[i][j] <= m[i][j]
  BY <1>1, <1>2 DEF Cells
<1> QED BY <1>1, <1>3 DEF PricesOf, CostsOf

LEMMA RewardedCosts ==
    ASSUME InReturn, EdgesMade(edges), PricesOf(edges, prices), NEW signature
    PROVE  CostsOf(edges, prices, Rewarded(signature))
<1>1. PICK n \in Nat : n = Len(Returners) /\ DOMAIN edges = 1..n
  BY ReturnTypes DEF EdgesMade
<1>2. PICK w \in Nat : w = Len(Active)
  BY ReturnTypes, ActiveTypes DEF EdgesMade, Active
<1>3. /\ n # 0 /\ Proper(prices) /\ Len(prices) = n /\ Width(prices) = w
      /\ \A i \in 1..n, j \in 1..w : prices[i][j] \in Nat /\ 2 * prices[i][j] < Inf
  BY <1>1, <1>2, ProperTypes DEF PricesOf, Cells, Active
<1>4. DOMAIN Active = 1..w
  <2>1. Active \in Seq(1..Len(Holes))
    BY ReturnTypes, ActiveTypes DEF EdgesMade, Active
  <2> QED BY <1>2, <2>1
<1>5. PICK m : m = Rewarded(signature)
  OBVIOUS
<1> DEFINE Gets(i, j) == /\ Active[j] \in Entries(edges[i])
                         /\ signature \in Signatures[arch][Holes[Active[j]]][config[Returners[i]]]
<1>6. m = [i \in 1..n |-> [j \in 1..w |->
             IF Gets(i, j) THEN IF prices[i][j] < task.rho * task.unit THEN 0 ELSE prices[i][j] - task.rho * task.unit
             ELSE prices[i][j]]]
  BY <1>1, <1>4, <1>5 DEF Rewarded
<1>7. PICK reward \in Nat : reward = task.rho * task.unit
  <2>1. task.rho \in Nat /\ task.unit \in Nat
    BY ReturnsAssumption DEF InReturn
  <2> QED BY <2>1
<1>8. \A i \in 1..n, j \in 1..w : Gets(i, j) => Active[j] \in Entries(edges[i])
  OBVIOUS
<1> HIDE DEF Gets
<1>9. ASSUME NEW i \in 1..n, NEW j \in 1..w
      PROVE  /\ m[i][j] \in Nat /\ m[i][j] <= prices[i][j]
             /\ ~ Gets(i, j) => m[i][j] = prices[i][j]
  <2>1. PICK p \in Nat : p = prices[i][j]
    BY <1>3
  <2>2. m[i][j] = IF Gets(i, j) THEN IF p < reward THEN 0 ELSE p - reward ELSE p
    BY <1>6, <1>7, <2>1
  <2> QED BY <2>1, <2>2
<1>10. \A i \in 1..n, j \in 1..w : m[i][j] \in Nat /\ 2 * m[i][j] < Inf
  <2> SUFFICES ASSUME NEW i \in 1..n, NEW j \in 1..w PROVE m[i][j] \in Nat /\ 2 * m[i][j] < Inf
    OBVIOUS
  <2>1. m[i][j] \in Nat /\ m[i][j] <= prices[i][j] /\ prices[i][j] \in Nat /\ 2 * prices[i][j] < Inf
    BY <1>3, <1>9
  <2> QED BY <2>1, InfAssumption
<1>11. m = [i \in 1..n |-> [j \in 1..w |-> m[i][j]]]
  BY <1>6
<1>12. Proper(m) /\ Len(m) = n /\ Width(m) = w
  BY <1>3, <1>10, <1>11, GridProper
<1>13. Cells(edges, m)
  BY <1>1, <1>2, <1>12 DEF Cells, Active
<1>14. ASSUME NEW i \in 1..n, NEW j \in 1..w, Active[j] \notin Entries(edges[i]) PROVE m[i][j] = Big
  <2>1. prices[i][j] = Big
    BY <1>1, <1>2, <1>14 DEF PricesOf, Active
  <2> QED BY <1>8, <1>9, <1>14, <2>1
<1> QED BY <1>1, <1>2, <1>5, <1>9, <1>13, <1>14 DEF CostsOf, Active

----------------------------------------------------------------------------
(***************************************************************************)
(* The layouts.                                                            *)
(***************************************************************************)
\* The assignments that may be gathered: a site for every row, and one that has a
\* price when there are enough of these.
ColumnsFitted ==
    {c \in [1..Len(Returners) -> 1..Len(Active)] :
        /\ \A i, k \in 1..Len(Returners) : c[i] = c[k] => i = k
        /\ SitesSuffice => \A i \in 1..Len(Returners) : Active[c[i]] \in Entries(edges[i])}

LEMMA ColumnsShown ==
    ASSUME InReturn, EdgesMade(edges)
    PROVE  \A i \in 1..Len(Returners) : \A h \in Entries(edges[i]) : \E j \in 1..Len(Active) : Active[j] = h
<1>1. Len(Returners) \in Nat /\ Len(Holes) \in Nat
  BY ReturnTypes
<1>2. edges \in [1..Len(Returners) -> Seq(1..Len(Holes))]
  BY DEF EdgesMade
<1>3. \A i \in 1..Len(Returners) : \A h \in Entries(edges[i]) : \E j \in 1..Len(ActiveOf(edges)) : ActiveOf(edges)[j] = h
  BY <1>1, <1>2, ActiveTypes
<1> QED BY <1>3 DEF Active

\* With enough sites that have a price there is a choice that costs less than no
\* price, and the one that is returned costs no more.
LEMMA FittingColumns ==
    ASSUME InReturn, EdgesMade(edges), PricesOf(edges, prices), CostsOf(edges, prices, matrix),
           AssignmentOptimal, solving = "assigned"
    PROVE  ColumnOf \in ColumnsFitted
<1>1. PICK n \in Nat : n = Len(Returners) /\ DOMAIN edges = 1..n
  BY ReturnTypes DEF EdgesMade
<1>2. PICK w \in Nat : w = Len(Active)
  BY ReturnTypes, ActiveTypes DEF EdgesMade, Active
<1>3. Proper(matrix) /\ Len(matrix) = n /\ Width(matrix) = w
  BY <1>1, <1>2 DEF CostsOf, Cells, Active
<1>4. Rows = 1..n /\ Cols = 1..w /\ n # 0 /\ \A i \in 1..n, j \in 1..w : matrix[i][j] \in Nat
  BY <1>3, MatrixTypes DEF Cols
<1>5. PICK column : column = ColumnOf
  OBVIOUS
<1>6. /\ column \in [1..n -> 1..w] /\ \A i, k \in 1..n : column[i] = column[k] => i = k
      /\ \A c \in OwnColumns : Price(column) <= Price(c)
  BY <1>4, <1>5 DEF AssignmentOptimal, OwnColumns
<1>7. /\ \A i \in 1..n, j \in 1..w :
            /\ matrix[i][j] <= prices[i][j]
            /\ Active[j] \in Entries(edges[i]) => n * prices[i][j] < Big
            /\ Active[j] \notin Entries(edges[i]) => matrix[i][j] = Big
      /\ \A i \in 1..n, j \in 1..w : prices[i][j] \in Nat
  <2>1. Proper(prices) /\ Len(prices) = n /\ Width(prices) = w
    BY <1>1, <1>2 DEF PricesOf, Cells, Active
  <2>2. \A i \in 1..n, j \in 1..w : prices[i][j] \in Nat
    BY <2>1, ProperTypes
  <2> QED BY <1>1, <1>2, <2>2 DEF PricesOf, CostsOf, Active
<1>8. ASSUME SitesSuffice, NEW i \in 1..n PROVE Active[column[i]] \in Entries(edges[i])
  <2>1. PICK f : /\ \A k \in 1..n : f[k] \in Entries(edges[k])
                 /\ \A k, o \in 1..n : k # o => f[k] # f[o]
    BY <1>1, <1>8 DEF SitesSuffice
  <2>2. \A k \in 1..n : \E j \in 1..w : Active[j] = f[k]
    <3>1. \A k \in 1..n : \A h \in Entries(edges[k]) : \E j \in 1..w : Active[j] = h
      BY <1>1, <1>2, ColumnsShown
    <3> QED BY <2>1, <3>1
  <2>3. PICK c : c = [k \in 1..n |-> CHOOSE j \in 1..w : Active[j] = f[k]]
    OBVIOUS
  <2>4. \A k \in 1..n : c[k] \in 1..w /\ Active[c[k]] = f[k]
    BY <2>2, <2>3
  <2>5. c \in [1..n -> 1..w] /\ \A k, o \in 1..n : c[k] = c[o] => k = o
    BY <2>1, <2>3, <2>4
  <2>6. c \in OwnColumns
    BY <1>4, <2>5 DEF OwnColumns
  <2> DEFINE costs == [k \in 1..n |-> matrix[k][c[k]]]
  <2>7. costs \in [1..n -> Nat] /\ \A k \in 1..n : n * costs[k] < Big
    <3>1. ASSUME NEW k \in 1..n PROVE costs[k] \in Nat /\ n * costs[k] < Big
      <4>1. PICK x \in Nat : x = matrix[k][c[k]]
        BY <1>4, <2>4
      <4>2. PICK p \in Nat : p = prices[k][c[k]]
        BY <1>7, <2>4
      <4>3. x <= p /\ n * p < Big
        BY <1>7, <2>1, <2>4, <4>1, <4>2
      <4>4. n * x <= n * p /\ n * x \in Nat /\ n * p \in Nat
        <5>1. x \in 0..p
          BY <4>3
        <5> QED BY <5>1, ProductBound
      <4> QED BY <4>1, <4>3, <4>4, BigAssumption
    <3>2. costs = [k \in 1..n |-> costs[k]]
      OBVIOUS
    <3> HIDE DEF costs
    <3> QED BY <3>1, <3>2
  <2>8. PICK most \in Nat : (\A k \in 1..n : costs[k] <= most) /\ n * most < Big
    <3> HIDE DEF costs
    <3> DEFINE S == {costs[k] : k \in 1..n}
    <3>1. IsFiniteSet(S)
      <4>1. IsFiniteSet(1..n)
        BY FS_Interval
      <4> QED BY <4>1, ImageFinite
    <3>2. S \in SUBSET Int /\ costs[1] \in S
      BY <1>4, <2>7
    <3>3. PICK x \in S : \A y \in S : y <= x
      <4> HIDE DEF S
      <4> QED BY <3>1, <3>2, GreatestNumber
    <3>4. PICK k \in 1..n : x = costs[k]
      BY <3>3
    <3>5. x \in Nat /\ n * x < Big
      BY <2>7, <3>4
    <3> QED BY <3>3, <3>5
  <2>9. PICK F : Sums(F, costs, n)
    <3> HIDE DEF costs
    <3>1. costs \in [1..n -> Int]
      BY <2>7
    <3> QED BY <3>1, SumsExist
  <2>10. Price(c) = F[n]
    <3>1. c \in [Rows -> Cols]
      BY <1>4, <2>5
    <3> QED BY <1>3, <2>9, <3>1, PriceIsSum
  <2>11. F[n] \in Nat /\ F[n] <= n * most
    <3> HIDE DEF costs
    <3> QED BY <2>7, <2>8, <2>9, SumsOfNaturals
  <2> DEFINE paid == [k \in 1..n |-> matrix[k][column[k]]]
  <2>12. paid \in [1..n -> Nat]
    <3>1. \A k \in 1..n : paid[k] \in Nat
      BY <1>4, <1>6
    <3>2. paid = [k \in 1..n |-> paid[k]]
      OBVIOUS
    <3> HIDE DEF paid
    <3> QED BY <3>1, <3>2
  <2>13. PICK G : Sums(G, paid, n)
    <3> HIDE DEF paid
    <3>1. paid \in [1..n -> Int]
      BY <2>12
    <3> QED BY <3>1, SumsExist
  <2>14. Price(column) = G[n]
    <3>1. column \in [Rows -> Cols]
      BY <1>4, <1>6
    <3> QED BY <1>3, <2>13, <3>1, PriceIsSum
  <2>15. G[n] \in Nat /\ paid[i] <= G[n]
    <3> HIDE DEF paid
    <3> QED BY <2>12, <2>13, SumsOfNaturals
  <2>16. G[n] <= F[n]
    BY <1>6, <2>6, <2>10, <2>14
  <2>17. paid[i] \in Nat /\ n * most \in Nat
    <3> HIDE DEF paid
    <3> QED BY <2>12
  <2>18. matrix[i][column[i]] < Big
    <3>1. paid[i] = matrix[i][column[i]]
      OBVIOUS
    <3> HIDE DEF paid
    <3> QED BY <2>8, <2>11, <2>15, <2>16, <2>17, <3>1, BigAssumption
  <2>19. column[i] \in 1..w
    BY <1>6
  <2> QED BY <1>7, <2>18, <2>19, BigAssumption
<1> QED BY <1>1, <1>2, <1>5, <1>6, <1>8 DEF ColumnsFitted

\* A layout that gives free sites to atoms that are away, each its own, is one they
\* can be in.
LEMMA GivenComesHome ==
    ASSUME InReturn, NEW given, DOMAIN given \subseteq Entries(Returners),
           \A q \in DOMAIN given : \E h \in 1..Len(Holes) : given[q] = Holes[h],
           \A p, q \in DOMAIN given : p # q => given[p] # given[q],
           Len(Holes) >= Len(Returners) => Entries(Returners) \subseteq DOMAIN given
    PROVE  ComesHome(LayoutOf(given))
<1>1. PICK layout : layout = LayoutOf(given)
  OBVIOUS
<1>2. layout = [q \in DOMAIN config |-> IF q \in DOMAIN given THEN given[q] ELSE config[q]]
  BY <1>1 DEF LayoutOf
<1>3. /\ Entries(Returners) = {q \in DOMAIN config : config[q] \notin home}
      /\ \A p, q \in DOMAIN config : p # q => config[p] # config[q]
      /\ \A i \in 1..Len(Holes) : \A q \in DOMAIN config : config[q] # Holes[i]
  BY ReturnTypes
<1>4. \A i \in 1..Len(Holes) : Holes[i] \in home \ task.blocked
  <2>1. Holes \in Seq(home \ task.blocked)
    BY ReturnTypes
  <2> QED BY <2>1
<1>5. OwnPlaces(layout)
  <2> SUFFICES ASSUME NEW p \in DOMAIN config, NEW q \in DOMAIN config, p # q PROVE layout[p] # layout[q]
    BY <1>2 DEF OwnPlaces
  <2>1. CASE p \in DOMAIN given /\ q \in DOMAIN given
    BY <1>2, <2>1
  <2>2. CASE p \in DOMAIN given /\ q \notin DOMAIN given
    BY <1>2, <1>3, <2>2
  <2>3. CASE p \notin DOMAIN given /\ q \in DOMAIN given
    BY <1>2, <1>3, <2>3
  <2>4. CASE p \notin DOMAIN given /\ q \notin DOMAIN given
    BY <1>2, <1>3, <2>4
  <2> QED BY <2>1, <2>2, <2>3, <2>4
<1>6. ASSUME NEW q \in DOMAIN config, config[q] \in home PROVE layout[q] = config[q]
  BY <1>2, <1>3, <1>6
<1>7. ASSUME Len(Holes) >= Len(Returners), NEW q \in Entries(Returners) PROVE layout[q] \in home \ task.blocked
  <2>1. q \in DOMAIN given /\ q \in DOMAIN config
    BY <1>3, <1>7
  <2> QED BY <1>2, <1>4, <2>1
<1> QED BY <1>1, <1>5, <1>6, <1>7 DEF ComesHome

\* What an assignment makes of the rows.
LaidBy(c) == LayoutOf([q \in Entries(Returners) |->
                 Holes[Active[c[CHOOSE i \in DOMAIN Returners : Returners[i] = q]]]])
LEMMA FittingComesHome ==
    ASSUME InReturn, EdgesMade(edges), NEW c \in ColumnsFitted
    PROVE  ComesHome(LaidBy(c)) /\ (SitesSuffice => Priced(LaidBy(c)))
<1>1. PICK n \in Nat : n = Len(Returners) /\ DOMAIN Returners = 1..n /\ DOMAIN edges = 1..n
  <2>1. Returners \in Seq(DOMAIN config)
    BY ReturnTypes
  <2> QED BY <2>1, ReturnTypes DEF EdgesMade
<1>2. PICK w \in Nat : w = Len(Active)
  BY ReturnTypes, ActiveTypes DEF EdgesMade, Active
<1>3. /\ \A j \in 1..w : Active[j] \in 1..Len(Holes)
      /\ \A i, j \in 1..w : Active[i] = Active[j] => i = j
  <2>1. Active \in Seq(1..Len(Holes)) /\ Once(Active)
    BY ReturnTypes, ActiveTypes DEF EdgesMade, Active
  <2>2. \A j \in 1..w : Active[j] \in 1..Len(Holes)
    BY <1>2, <2>1
  <2> QED BY <1>2, <2>1, <2>2 DEF Once
<1>4. \A i, j \in 1..Len(Holes) : Holes[i] = Holes[j] => i = j
  BY ReturnTypes DEF Once
<1>5. \A i, j \in 1..n : Returners[i] = Returners[j] => i = j
  BY <1>1, ReturnTypes DEF Once
<1>6. Entries(Returners) = {Returners[i] : i \in 1..n}
  BY <1>1 DEF Entries
<1>7. /\ \A i \in 1..n : c[i] \in 1..w
      /\ \A i, k \in 1..n : c[i] = c[k] => i = k
      /\ SitesSuffice => \A i \in 1..n : Active[c[i]] \in Entries(edges[i])
  BY <1>1, <1>2 DEF ColumnsFitted
<1> DEFINE rowOf(q) == CHOOSE i \in DOMAIN Returners : Returners[i] = q
<1>8. PICK given : given = [q \in Entries(Returners) |-> Holes[Active[c[rowOf(q)]]]]
  OBVIOUS
<1>9. ASSUME NEW i \in 1..n
      PROVE  given[Returners[i]] = Holes[Active[c[i]]] /\ Active[c[i]] \in 1..Len(Holes)
  <2>1. rowOf(Returners[i]) = i
    BY <1>1, <1>5
  <2> HIDE DEF rowOf
  <2> QED BY <1>3, <1>6, <1>7, <1>8, <2>1
<1>10. DOMAIN given = Entries(Returners)
  BY <1>8
<1>11. LaidBy(c) = LayoutOf(given)
  BY <1>8 DEF LaidBy
<1>12. \A q \in DOMAIN given : \E h \in 1..Len(Holes) : given[q] = Holes[h]
  BY <1>6, <1>9, <1>10
<1>13. \A p, q \in DOMAIN given : p # q => given[p] # given[q]
  <2> SUFFICES ASSUME NEW i \in 1..n, NEW k \in 1..n, given[Returners[i]] = given[Returners[k]] PROVE i = k
    BY <1>6, <1>10
  <2>1. Active[c[i]] = Active[c[k]]
    BY <1>4, <1>9
  <2>2. c[i] = c[k]
    BY <1>3, <1>7, <2>1
  <2> QED BY <1>7, <2>2
<1>14. ComesHome(LayoutOf(given))
  BY <1>10, <1>12, <1>13, GivenComesHome
<1>15. ASSUME SitesSuffice PROVE Priced(LayoutOf(given))
  <2>1. \A i \in 1..n : Returners[i] \in DOMAIN config /\ Returners[i] \in DOMAIN given
    <3>1. Entries(Returners) = {q \in DOMAIN config : config[q] \notin home}
      BY ReturnTypes
    <3> QED BY <1>6, <1>10, <3>1
  <2>2. \A i \in 1..n : LayoutOf(given)[Returners[i]] = Holes[Active[c[i]]]
    BY <1>9, <2>1 DEF LayoutOf
  <2> QED BY <1>1, <1>7, <1>15, <2>2 DEF Priced
<1> QED BY <1>11, <1>14, <1>15

\* The nearest homes.
LEMMA GreedyComesHome ==
    ASSUME InReturn
    PROVE  ComesHome(LayoutOf(Greedy))
<1>1. Len(Returners) \in Nat /\ Len(Holes) \in Nat /\ DOMAIN Returners = 1..Len(Returners)
  <2>1. Returners \in Seq(DOMAIN config)
    BY ReturnTypes
  <2> QED BY <2>1, ReturnTypes
<1>2. Entries(Returners) = {Returners[i] : i \in 1..Len(Returners)}
  BY <1>1 DEF Entries
<1>3. \A i \in 1..Lower(Len(Returners), Len(Holes)) : i \in 1..Len(Returners)
  BY <1>1 DEF Lower
<1>4. Len(Holes) >= Len(Returners) => Lower(Len(Returners), Len(Holes)) = Len(Returners)
  BY <1>1 DEF Lower
<1>5. DOMAIN Greedy = {Returners[i] : i \in 1..Lower(Len(Returners), Len(Holes))}
  BY GreedyTypes
<1>6. PICK g : g = Greedy
  OBVIOUS
<1>7. DOMAIN g \subseteq Entries(Returners) /\ (Len(Holes) >= Len(Returners) => Entries(Returners) \subseteq DOMAIN g)
  BY <1>2, <1>3, <1>4, <1>5, <1>6
<1>8. /\ \A q \in DOMAIN g : \E h \in 1..Len(Holes) : g[q] = Holes[h]
      /\ \A p, q \in DOMAIN g : p # q => g[p] # g[q]
  BY <1>6, GreedyTypes
<1>9. ComesHome(LayoutOf(g))
  BY <1>7, <1>8, GivenComesHome
<1> QED BY <1>6, <1>9

----------------------------------------------------------------------------
(***************************************************************************)
(* The call that brings atoms home.                                        *)
(***************************************************************************)
Returning ==
    /\ EdgesMade(edges) /\ PricesOf(edges, prices) /\ CostsOf(edges, prices, matrix)
    /\ assignments \in Seq(ColumnsFitted)

HomeInv ==
    /\ stage \in BringingHome => InReturn
    /\ stage = "return" => edges = << >> /\ assignments = << >>
    /\ stage = "returning" => Returning
    /\ ReturnsReachHome

\* What a step of the call leaves as it is.
LEMMA HomeFrame ==
    ASSUME UNCHANGED callVars
    PROVE  /\ task' = task /\ config' = config /\ arch' = arch /\ home' = home
           /\ Returners' = Returners /\ Holes' = Holes /\ (InReturn => InReturn')
<1>1. task' = task /\ config' = config
  BY DEF callVars
<1>2. arch' = arch
  BY <1>1 DEF arch
<1>3. home' = home
  BY <1>2 DEF home
<1>4. Returners' = Returners
  <2>1. PICK P : P = {q \in DOMAIN config : config[q] \notin home}
    OBVIOUS
  <2>2. PICK Q : Q = {q \in DOMAIN config : config[q] \notin home}'
    OBVIOUS
  <2>3. P = Q
    BY <1>1, <1>3, <2>1, <2>2
  <2>4. Returners = Ascending(P)
    BY <2>1 DEF Returners
  <2>5. Returners' = Ascending(Q)
    BY <2>2 DEF Returners
  <2> QED BY <2>3, <2>4, <2>5
<1>5. Holes' = Holes
  <2>1. PICK s : s = Homes[arch]
    OBVIOUS
  <2>2. s = Homes[arch']
    BY <1>2, <2>1
  <2>3. PICK P : P = {i \in DOMAIN s : At(config, s[i]) = {} /\ s[i] \notin task.blocked}
    OBVIOUS
  <2>4. Holes = OnlyAt(s, P)
    BY <2>1, <2>3 DEF Holes
  <2>5. Holes' = OnlyAt(s, P)
    <3>1. PICK Q : Q = {i \in DOMAIN Homes[arch] : At(config, Homes[arch][i]) = {} /\ Homes[arch][i] \notin task.blocked}'
      OBVIOUS
    <3>2. Holes' = OnlyAt(Homes[arch'], Q)
      BY <3>1 DEF Holes
    <3>3. Q = P
      BY <1>1, <2>2, <2>3, <3>1 DEF At
    <3> QED BY <2>2, <3>2, <3>3
  <2> QED BY <2>4, <2>5
<1> QED BY <1>1, <1>2, <1>3, <1>4, <1>5 DEF InReturn

LEMMA MadeFrame ==
    ASSUME UNCHANGED callVars, NEW found, NEW p, NEW m
    PROVE  /\ EdgesMade(found) => EdgesMade(found)'
           /\ PricesOf(found, p) => PricesOf(found, p)'
           /\ CostsOf(found, p, m) => CostsOf(found, p, m)'
  BY HomeFrame DEF EdgesMade, PricesOf, CostsOf, Cells

LEMMA FittingFrame ==
    ASSUME UNCHANGED callVars, edges' = edges
    PROVE  ColumnsFitted' = ColumnsFitted /\ (SitesSuffice' <=> SitesSuffice) /\ Active' = Active
<1>1. SitesSuffice' <=> SitesSuffice
  BY DEF SitesSuffice
<1>2. Active' = Active
  BY DEF Active
<1> QED BY <1>1, <1>2, HomeFrame DEF ColumnsFitted

LEMMA LayoutFrame ==
    ASSUME UNCHANGED callVars, NEW layout
    PROVE  /\ ComesHome(layout) => ComesHome(layout)'
           /\ edges' = edges => (Priced(layout) => Priced(layout)')
<1>1. ComesHome(layout) => ComesHome(layout)'
  BY HomeFrame DEF ComesHome, OwnPlaces
<1>2. edges' = edges => (Priced(layout) => Priced(layout)')
  BY HomeFrame DEF Priced
<1> QED BY <1>1, <1>2

\* One more is gathered.
LEMMA GatheredFits ==
    ASSUME InReturn, Returning, Proper(matrix) => AssignmentOptimal, solving = "assigned"
    PROVE  Gathered \in Seq(ColumnsFitted)
<1>1. Proper(matrix)
  BY DEF Returning, CostsOf, Cells
<1>2. ColumnOf \in ColumnsFitted
  BY <1>1, FittingColumns DEF Returning
<1>3. assignments \in Seq(ColumnsFitted)
  BY DEF Returning
<1>4. \A T : \A s \in Seq(T) : \A c \in T : Append(s, c) \in Seq(T)
  OBVIOUS
<1>5. Append(assignments, ColumnOf) \in Seq(ColumnsFitted)
  BY <1>2, <1>3, <1>4
<1> QED BY <1>3, <1>5 DEF Gathered

LEMMA LayOutNearestStep ==
    ASSUME HomeInv, LayOutNearest
    PROVE  HomeInv'
<1>1. /\ stage = "return" /\ stage' = "laid out" /\ layouts' = <<LayoutOf(Greedy)>> /\ UNCHANGED callVars
      /\ edges' = edges
  BY DEF LayOutNearest
<1>2. InReturn /\ InReturn' /\ edges = << >>
  BY <1>1, HomeFrame DEF HomeInv, BringingHome
<1>3. PICK layout : layout = LayoutOf(Greedy) /\ ComesHome(layout)
  BY <1>2, GreedyComesHome
<1>4. ComesHome(layout)'
  BY <1>1, <1>3, LayoutFrame
<1>5. DOMAIN edges' = {}
  <2>1. edges' = << >>
    BY <1>1, <1>2
  <2> QED BY <2>1
<1>6. Priced(layout)'
  BY <1>5 DEF Priced
<1>7. \A k \in DOMAIN layouts' : layouts'[k] = layout
  <2>1. layouts' = <<layout>>
    BY <1>1, <1>3
  <2> QED BY <2>1
<1>8. ReturnsReachHome'
  <2> SUFFICES ASSUME NEW k \in DOMAIN layouts'
               PROVE  ComesHome(layouts[k])' /\ Priced(layouts[k])'
    BY DEF ReturnsReachHome
  <2>1. layouts'[k] = layout
    BY <1>7
  <2> QED BY <1>4, <1>6, <2>1 DEF ComesHome, OwnPlaces, Priced
<1> QED BY <1>1, <1>2, <1>8 DEF HomeInv

LEMMA LayOutStep ==
    ASSUME HomeInv, LayOut
    PROVE  HomeInv'
<1>1. /\ stage = "return" /\ stage' = "returning" /\ Returners # << >> /\ UNCHANGED callVars /\ assignments' = assignments
      /\ \E expected \in {Expected(Greedy)} :
           \E found \in {[i \in DOMAIN Returners |-> EdgesOf(Returners[i], expected)]} :
             /\ edges' = found /\ prices' = BaseCost(found, ActiveOf(found), expected)
             /\ Assign(prices')
  BY DEF LayOut
<1>2. InReturn /\ InReturn' /\ assignments = << >>
  BY <1>1, HomeFrame DEF HomeInv, BringingHome
<1>3. PICK found : /\ found = [i \in DOMAIN Returners |-> EdgesOf(Returners[i], Expected(Greedy))]
                   /\ edges' = found /\ prices' = BaseCost(found, ActiveOf(found), Expected(Greedy))
                   /\ matrix' = prices'
  BY <1>1 DEF Assign
<1>4. PICK p : p = prices' /\ p = BaseCost(found, ActiveOf(found), Expected(Greedy))
  BY <1>3
<1>5. EdgesMade(found) /\ PricesOf(found, p) /\ CostsOf(found, p, p)
  BY <1>1, <1>2, <1>3, <1>4, PricesMade, PricesAreCosts
<1>6. EdgesMade(found)' /\ PricesOf(found, p)' /\ CostsOf(found, p, p)'
  BY <1>1, <1>5, MadeFrame
<1>7. EdgesMade(edges)' /\ PricesOf(edges, prices)' /\ CostsOf(edges, prices, matrix)'
  BY <1>3, <1>4, <1>6 DEF EdgesMade, PricesOf, CostsOf, Cells
<1>8. assignments' \in Seq(ColumnsFitted')
  BY <1>1, <1>2
<1> QED BY <1>1, <1>2, <1>7, <1>8 DEF HomeInv, Returning, ReturnsReachHome

\* The algorithm goes on, or nothing does.
LEMMA HomeUnchanged ==
    ASSUME HomeInv, UNCHANGED entanglingVars, UNCHANGED layoutVars, matrix' = matrix
    PROVE  HomeInv'
<1>1. /\ stage' = stage /\ UNCHANGED callVars /\ edges' = edges /\ prices' = prices /\ assignments' = assignments
      /\ layouts' = layouts
  BY DEF entanglingVars, layoutVars
<1>2. Returning => Returning'
  <2> SUFFICES ASSUME Returning PROVE Returning'
    OBVIOUS
  <2>1. PICK f, p, m : f = edges /\ p = prices /\ m = matrix
    OBVIOUS
  <2>2. EdgesMade(f)' /\ PricesOf(f, p)' /\ CostsOf(f, p, m)'
    BY <1>1, <2>1, MadeFrame DEF Returning
  <2>3. EdgesMade(edges)' /\ PricesOf(edges, prices)' /\ CostsOf(edges, prices, matrix)'
    BY <1>1, <2>1, <2>2 DEF EdgesMade, PricesOf, CostsOf, Cells
  <2>4. assignments' \in Seq(ColumnsFitted')
    BY <1>1, FittingFrame DEF Returning
  <2> QED BY <2>3, <2>4 DEF Returning
<1>3. ReturnsReachHome => ReturnsReachHome'
  <2> SUFFICES ASSUME ReturnsReachHome, stage = "laid out", NEW k \in DOMAIN layouts
               PROVE  ComesHome(layouts[k])' /\ (SitesSuffice' => Priced(layouts[k])')
    BY <1>1 DEF ReturnsReachHome
  <2>1. PICK layout : layout = layouts[k]
    OBVIOUS
  <2>2. ComesHome(layout) /\ (SitesSuffice => Priced(layout))
    BY <2>1 DEF ReturnsReachHome
  <2>3. ComesHome(layout)' /\ (SitesSuffice' => Priced(layout)')
    BY <1>1, <2>2, LayoutFrame, FittingFrame
  <2> QED BY <1>1, <2>1, <2>3 DEF ComesHome, OwnPlaces, Priced
<1>4. InReturn => InReturn'
  BY <1>1, HomeFrame
<1> QED BY <1>1, <1>2, <1>3, <1>4 DEF HomeInv

LEMMA LayOutNextStep ==
    ASSUME HomeInv, Proper(matrix) => AssignmentOptimal, LayOutNext
    PROVE  HomeInv'
<1>1. /\ stage = "returning" /\ stage' = stage /\ UNCHANGED callVars /\ edges' = edges /\ prices' = prices
      /\ assignments' = Gathered /\ solving = "assigned"
      /\ \E m \in {Rewarded(Head(signatures))} : Assign(m)
  BY DEF LayOutNext, entanglingVars
<1>2. InReturn /\ InReturn' /\ Returning
  BY <1>1, HomeFrame DEF HomeInv, BringingHome
<1>3. PICK m : m = Rewarded(Head(signatures)) /\ matrix' = m
  BY <1>1 DEF Assign
<1>4. PICK f, p : f = edges /\ p = prices
  OBVIOUS
<1>5. EdgesMade(f) /\ PricesOf(f, p) /\ CostsOf(f, p, m)
  BY <1>2, <1>3, <1>4, RewardedCosts DEF Returning
<1>6. EdgesMade(f)' /\ PricesOf(f, p)' /\ CostsOf(f, p, m)'
  BY <1>1, <1>5, MadeFrame
<1>7. EdgesMade(edges)' /\ PricesOf(edges, prices)' /\ CostsOf(edges, prices, matrix)'
  BY <1>1, <1>3, <1>4, <1>6 DEF EdgesMade, PricesOf, CostsOf, Cells
<1>8. assignments' \in Seq(ColumnsFitted')
  BY <1>1, <1>2, GatheredFits, FittingFrame
<1> QED BY <1>1, <1>2, <1>7, <1>8 DEF HomeInv, Returning, ReturnsReachHome

LEMMA LaidOutStep ==
    ASSUME HomeInv, Proper(matrix) => AssignmentOptimal, LaidOut
    PROVE  HomeInv'
<1>1. /\ stage = "returning" /\ stage' = "laid out" /\ UNCHANGED callVars /\ edges' = edges /\ solving = "assigned"
      /\ layouts' = [k \in DOMAIN Gathered |-> LaidBy(Gathered[k])]
  BY DEF LaidOut, LaidBy
<1>2. InReturn /\ InReturn' /\ Returning
  BY <1>1, HomeFrame DEF HomeInv, BringingHome
<1>3. PICK given \in Seq(ColumnsFitted) : given = Gathered
  BY <1>1, <1>2, GatheredFits
<1>4. layouts' = [k \in DOMAIN given |-> LaidBy(given[k])]
  BY <1>1, <1>3
<1>5. ReturnsReachHome'
  <2> SUFFICES ASSUME NEW k \in DOMAIN layouts'
               PROVE  ComesHome(layouts[k])' /\ (SitesSuffice' => Priced(layouts[k])')
    BY DEF ReturnsReachHome
  <2>1. k \in DOMAIN given
    BY <1>4
  <2>2. given[k] \in ColumnsFitted
    BY <2>1
  <2>3. PICK layout : layout = LaidBy(given[k])
    OBVIOUS
  <2>4. ComesHome(layout) /\ (SitesSuffice => Priced(layout))
    BY <1>2, <2>2, <2>3, FittingComesHome DEF Returning
  <2>5. ComesHome(layout)' /\ (SitesSuffice' => Priced(layout)')
    BY <1>1, <2>4, LayoutFrame, FittingFrame
  <2>6. layouts'[k] = layout
    BY <1>4, <2>1, <2>3
  <2> QED BY <2>5, <2>6 DEF ComesHome, OwnPlaces, Priced
<1> QED BY <1>1, <1>2, <1>5 DEF HomeInv

\* What is being placed is not brought home.
LEMMA PlacingStep ==
    ASSUME RepairInv, EntanglingNext
    PROVE  HomeInv'
<1>1. stage' \in Placing
  <2>1. CASE Nothing
    BY <2>1 DEF Nothing, Deliver, Placing
  <2>2. CASE TooMany
    BY <2>2 DEF TooMany, Placing
  <2>3. CASE Begin
    BY <2>3 DEF Begin, Placing
  <2>4. CASE Iterate
    BY <2>4 DEF Iterate, Placing
  <2>5. CASE Assigning
    BY <2>5 DEF Assigning, entanglingVars, Placing
  <2>6. CASE Assigned
    BY <2>6 DEF Assigned, Placing
  <2>7. CASE Rebalance
    BY <2>7 DEF Rebalance, Placing
  <2>8. CASE Detect
    BY <2>8 DEF Detect, Finish, Deliver, Placing
  <2>9. CASE Repair
    BY <2>9 DEF Repair, Deliver, Placing
  <2>10. CASE Repaired
    BY <2>10 DEF Repaired, Deliver, Placing
  <2> QED BY <2>1, <2>2, <2>3, <2>4, <2>5, <2>6, <2>7, <2>8, <2>9, <2>10 DEF EntanglingNext
<1> QED BY <1>1 DEF HomeInv, ReturnsReachHome, BringingHome, Placing

\* HomeInv: while the layouts are sought, the edges lead to free home sites in reach,
\* the costs never exceed the prices, and what has been gathered gives every row a
\* site of its own.
THEOREM HomeInvariant == TargetsSpec => []HomeInv
<1> DEFINE Premise == RepairInv /\ (Proper(matrix) => AssignmentOptimal)
<1>1. TargetsInit => HomeInv
  <2>1. ReturnInit => HomeInv
    BY DEF ReturnInit, LayoutsIdle, HomeInv, BringingHome, InReturn, ReturnsReachHome
  <2>2. EntanglingInit => HomeInv
    BY DEF EntanglingInit, HomeInv, BringingHome, ReturnsReachHome
  <2> QED BY <2>1, <2>2 DEF TargetsInit
<1>2. ASSUME HomeInv, Premise, [TargetsNext]_<<entanglingVars, hungarianVars, layoutVars>>
      PROVE  HomeInv'
  <2>1. CASE LayOutNearest
    BY <1>2, <2>1, LayOutNearestStep
  <2>2. CASE LayOut
    BY <1>2, <2>2, LayOutStep
  <2>3. CASE LayingOut
    <3>1. UNCHANGED entanglingVars /\ UNCHANGED layoutVars /\ matrix' = matrix
      BY <2>3 DEF LayingOut, HungarianNext, Relax, Augment
    <3> QED BY <1>2, <3>1, HomeUnchanged
  <2>4. CASE LayOutNext
    BY <1>2, <2>4, LayOutNextStep
  <2>5. CASE LaidOut
    BY <1>2, <2>5, LaidOutStep
  <2>6. CASE EntanglingNext
    BY <1>2, <2>6, PlacingStep
  <2>7. CASE UNCHANGED <<entanglingVars, hungarianVars, layoutVars>>
    <3>1. UNCHANGED entanglingVars /\ UNCHANGED layoutVars /\ matrix' = matrix
      BY <2>7 DEF hungarianVars
    <3> QED BY <1>2, <3>1, HomeUnchanged
  <2> QED BY <1>2, <2>1, <2>2, <2>3, <2>4, <2>5, <2>6, <2>7 DEF TargetsNext, ReturnNext
<1>3. TargetsSpec => []Premise
  BY RepairInvariant, AssignmentTheorem, PTL
<1> HIDE DEF Premise
<1> QED BY <1>1, <1>2, <1>3, PTL DEF TargetsSpec

\* Every layout is one the atoms can be in; with enough free sites it brings them
\* all home, none onto a blocked site, and no atom that is home moves; and when the
\* sites that have a price suffice for all, none goes to one without.
THEOREM HomeTheorem == TargetsSpec => []ReturnsReachHome
<1>1. HomeInv => ReturnsReachHome
  BY DEF HomeInv
<1> QED BY <1>1, HomeInvariant, PTL
=============================================================================
