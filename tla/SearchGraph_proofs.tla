------------------------- MODULE SearchGraph_proofs -------------------------
(***************************************************************************)
(* GraphInv is inductive: it holds of every graph a driver can build, for  *)
(* any sets of configurations, moves and costs.  Lemmas state it for one   *)
(* call of `insert`, so that the drivers' proofs can use them.             *)
(***************************************************************************)
EXTENDS SearchGraph, OrderLemmas

\* The types of what a node id reads (used by name below and in the drivers).
LEMMA NodeTypes ==
    ASSUME GraphTypeOK, NEW id \in NodeIds
    PROVE  /\ Config(id) \in Configs /\ GScore(id) \in Nat /\ Depth(id) \in Nat
           /\ Parent(id) \in Nat /\ id \in Nat \ {0} /\ Len(nodes) \in Nat
<1>1. Len(nodes) \in Nat /\ id \in 1..Len(nodes)
  BY DEF GraphTypeOK, NodeIds
<1>2. nodes[id] \in NodeData
  BY <1>1 DEF GraphTypeOK
<1> QED
  BY <1>1, <1>2 DEF NodeData, Config, GScore, Depth, Parent

\* What one insert does to the arena: the old nodes keep their identity, and
\* the new one is a child of `parent` (SearchGraph::insert, "nodes.push").
LEMMA InsertedNode ==
    ASSUME GraphTypeOK, NEW parent \in NodeIds, NEW move \in MoveSets,
           NEW config \in Configs, NEW g \in Nat,
           Insert(parent, move, config, g)
    PROVE  /\ Len(nodes') = Len(nodes) + 1
           /\ \A id \in NodeIds : nodes'[id] = nodes[id]
           /\ nodes'[NewId] = NodeFor(parent, move, config, g)
           /\ NodeIds' = NodeIds \cup {NewId}
           /\ NewId \notin NodeIds /\ NewId \in Nat \ {0} /\ Len(nodes) \in Nat
  BY DEF GraphTypeOK, NodeIds, Insert, NewId

\* One insert keeps the types of the arena and of the table.
LEMMA InsertKeepsTypes ==
    ASSUME GraphTypeOK, NEW parent \in NodeIds, NEW move \in MoveSets,
           NEW config \in Configs, NEW g \in Nat,
           Insert(parent, move, config, g)
    PROVE  GraphTypeOK'
<1>1. NodeFor(parent, move, config, g) \in NodeData
  <2>1. parent \in Nat /\ Depth(parent) + 1 \in Nat
    BY NodeTypes
  <2> QED
    BY <2>1 DEF NodeFor, NodeData
<1>2. nodes' \in Seq(NodeData) /\ Len(nodes') = Len(nodes) + 1
  BY <1>1 DEF Insert, GraphTypeOK
<1>3. seen' \in [Configs -> 0..Len(nodes')]
  BY <1>2 DEF Insert, GraphTypeOK, NewId
<1> QED
  BY <1>2, <1>3 DEF GraphTypeOK

\* One insert below its parent's cost keeps the tree growing forward.
LEMMA InsertKeepsTree ==
    ASSUME GraphTypeOK, TreeGrowsForward,
           NEW parent \in NodeIds, NEW move \in MoveSets,
           NEW config \in Configs, NEW g \in Nat, GScore(parent) <= g,
           Insert(parent, move, config, g)
    PROVE  TreeGrowsForward'
<1>1. /\ \A id \in NodeIds : nodes'[id] = nodes[id]
      /\ nodes'[NewId] = NodeFor(parent, move, config, g)
      /\ NodeIds' = NodeIds \cup {NewId}
      /\ NewId \notin NodeIds
  BY InsertedNode
<1>2. 1 \in NodeIds /\ parent \in 1..(NewId - 1)
  BY DEF GraphTypeOK, NodeIds, NewId
<1>3. (Parent(1) = None /\ GScore(1) = 0 /\ Depth(1) = 0)'
  BY <1>1, <1>2 DEF TreeGrowsForward, Parent, GScore, Depth, None
<1>4. ASSUME NEW id \in NodeIds' \ {1}
      PROVE  (/\ Parent(id) \in 1..(id - 1)
              /\ Depth(id) = Depth(Parent(id)) + 1
              /\ GScore(Parent(id)) <= GScore(id))'
  <2>1. CASE id \in NodeIds
    <3>1. Parent(id) \in 1..(id - 1) /\ Parent(id) \in NodeIds
      BY <2>1, <1>4 DEF TreeGrowsForward, NodeIds, GraphTypeOK
    <3> QED
      BY <2>1, <1>1, <1>4, <3>1 DEF TreeGrowsForward, Parent, Depth, GScore
  <2>2. CASE id = NewId
    BY <2>2, <1>1, <1>2 DEF NodeFor, Parent, Depth, GScore
  <2> QED
    BY <1>1, <1>4, <2>1, <2>2
<1> QED
  BY <1>3, <1>4 DEF TreeGrowsForward

\* One insert keeps the table at the latest and cheapest node of every
\* configuration: it only replaces an entry by a strictly cheaper node.
LEMMA InsertKeepsTable ==
    ASSUME GraphTypeOK, TableIsCheapest,
           NEW parent \in NodeIds, NEW move \in MoveSets,
           NEW config \in Configs, NEW g \in Nat,
           Insert(parent, move, config, g)
    PROVE  TableIsCheapest'
<1>1. /\ \A id \in NodeIds : nodes'[id] = nodes[id]
      /\ nodes'[NewId] = NodeFor(parent, move, config, g)
      /\ NodeIds' = NodeIds \cup {NewId}
      /\ NewId \notin NodeIds /\ NewId \in Nat \ {0}
      /\ Len(nodes) \in Nat
  BY InsertedNode
<1>2. /\ seen'[config] = NewId
      /\ \A c \in Configs \ {config} : seen'[c] = seen[c]
  BY DEF Insert, GraphTypeOK
<1>3. nodes'[NewId].config = config /\ nodes'[NewId].g = g
  BY <1>1 DEF NodeFor
<1>4. \A id \in NodeIds : nodes'[id].config = Config(id) /\ nodes'[id].g = GScore(id)
  BY <1>1 DEF Config, GScore
<1>5. \A c \in Configs : seen[c] # None => seen[c] \in NodeIds
  BY DEF GraphTypeOK, None, NodeIds
<1>6. seen[config] # None => g < GScore(seen[config])
  BY <1>5, NodeTypes DEF Insert, Rediscovered
<1>7. ASSUME NEW id \in NodeIds'
      PROVE  /\ seen'[nodes'[id].config] # None
             /\ id <= seen'[nodes'[id].config]
             /\ id # seen'[nodes'[id].config] =>
                  nodes'[seen'[nodes'[id].config]].g < nodes'[id].g
  <2>1. CASE id = NewId
    BY <2>1, <1>1, <1>2, <1>3 DEF None
  <2>2. CASE id \in NodeIds /\ Config(id) # config
    <3>1. Config(id) \in Configs /\ seen'[Config(id)] = seen[Config(id)]
      BY <2>2, <1>2, NodeTypes
    <3> QED
      BY <2>2, <3>1, <1>4, <1>5 DEF TableIsCheapest
  <2>3. CASE id \in NodeIds /\ Config(id) = config
    <3>1. seen[config] # None /\ id <= seen[config] /\ seen[config] \in NodeIds
          /\ (id # seen[config] => GScore(seen[config]) < GScore(id))
      BY <2>3, <1>5 DEF TableIsCheapest
    <3>2. g < GScore(id)
      BY <2>3, <3>1, <1>6, NodeTypes
    <3>3. id \in Nat /\ id < NewId
      BY <2>3 DEF NodeIds, NewId, GraphTypeOK
    <3> QED
      BY <2>3, <3>2, <3>3, <1>1, <1>2, <1>3, <1>4 DEF None
  <2> QED
    BY <1>1, <1>7, <2>1, <2>2, <2>3
<1>8. ASSUME NEW c \in Configs, seen'[c] # None
      PROVE  nodes'[seen'[c]].config = c
  <2>1. CASE c = config
    BY <2>1, <1>2, <1>3
  <2>2. CASE c # config
    BY <2>2, <1>2, <1>4, <1>5, <1>8 DEF TableIsCheapest
  <2> QED
    BY <2>1, <2>2
<1> QED
  BY <1>7, <1>8 DEF TableIsCheapest, Config, GScore

\* A new graph holds its root alone, and the table knows it.
LEMMA NewGraphInv ==
    ASSUME NEW root \in Configs, NewGraph(root)
    PROVE  GraphInv
<1>1. nodes \in Seq(NodeData) /\ Len(nodes) = 1 /\ NodeIds = {1}
  BY DEF NewGraph, RootArena, RootTable, NodeData, None, NodeIds
<1>2. /\ Config(1) = root /\ Parent(1) = None /\ GScore(1) = 0 /\ Depth(1) = 0
  BY DEF NewGraph, RootArena, RootTable, Config, Parent, GScore, Depth
<1>3. seen \in [Configs -> 0..1] /\ seen[root] = 1 /\ \A c \in Configs \ {root} : seen[c] = None
  BY DEF NewGraph, RootArena, RootTable, None
<1> QED
  BY <1>1, <1>2, <1>3 DEF GraphInv, GraphTypeOK, TreeGrowsForward, TableIsCheapest, None

\* One insert keeps GraphInv.
LEMMA InsertKeepsGraphInv ==
    ASSUME GraphInv, NEW parent \in NodeIds, NEW move \in MoveSets,
           NEW config \in Configs, NEW cost \in Costs,
           Insert(parent, move, config, GScore(parent) + cost)
    PROVE  GraphInv'
<1>1. GScore(parent) \in Nat /\ cost \in Nat
  BY NodeTypes, CostsAssumption DEF GraphInv
<1>2. GScore(parent) + cost \in Nat /\ GScore(parent) <= GScore(parent) + cost
  BY <1>1
<1> QED
  BY <1>2, InsertKeepsTypes, InsertKeepsTree, InsertKeepsTable DEF GraphInv

\* Every graph built with `new` and `insert` is a tree that grows forward and
\* whose table points to the latest and cheapest node of each configuration.
THEOREM GraphInvariant == GraphSpec => []GraphInv
<1>1. GraphInit => GraphInv
  BY NewGraphInv DEF GraphInit
<1>2. GraphInv /\ [GraphNext]_graphVars => GraphInv'
  <2>1. ASSUME GraphInv, GraphNext PROVE GraphInv'
    BY <2>1, InsertKeepsGraphInv DEF GraphNext
  <2>2. ASSUME GraphInv, UNCHANGED graphVars PROVE GraphInv'
    BY <2>2 DEF graphVars, GraphInv, GraphTypeOK, TreeGrowsForward, TableIsCheapest,
                NodeIds, Config, GScore, Depth, Parent
  <2> QED
    BY <2>1, <2>2
<1> QED
  BY <1>1, <1>2, PTL DEF GraphSpec

----------------------------------------------------------------------------
(***************************************************************************)
(* reconstruct_path: the recursive definition is what it looks like, since *)
(* every node comes after its parent.                                      *)
(***************************************************************************)
\* A node's path in terms of its parent's.
PathOf(id, f) == IF Parent(id) = None THEN << >> ELSE Append(f[Parent(id)], nodes[id].move)

LEMMA PathsAre ==
    ASSUME GraphInv
    PROVE  /\ ReconstructPath(1) = << >>
           /\ \A id \in NodeIds \ {1} :
                 ReconstructPath(id) = Append(ReconstructPath(Parent(id)), nodes[id].move)
<1> DEFINE Solves(f, m) == f = [i \in 1..m |-> PathOf(i, f)]
           P(m) == CHOOSE f : Solves(f, m)
<1>0. /\ Len(nodes) \in Nat /\ 1 \in NodeIds /\ Parent(1) = None
      /\ \A id \in NodeIds \ {1} : Parent(id) \in 1..(id - 1) /\ Parent(id) # None
      /\ \A id \in NodeIds : id \in Nat \ {0} /\ (Parent(id) # None => Parent(id) \in 1..(id - 1))
  BY DEF GraphInv, GraphTypeOK, TreeGrowsForward, NodeIds, None
<1>1. \A m \in Nat : m <= Len(nodes) => \E f : Solves(f, m)
  <2> DEFINE S == {m \in Nat : m <= Len(nodes) => \E f : Solves(f, m)}
  <2>1. 0 \in S
    <3>1. Solves([i \in 1..0 |-> << >>], 0)
      OBVIOUS
    <3> QED BY <3>1
  <2>2. ASSUME NEW m \in Nat, m \in S PROVE m + 1 \in S
    <3> SUFFICES ASSUME m + 1 <= Len(nodes) PROVE \E f : Solves(f, m + 1)
      BY <2>2
    <3>1. PICK f : Solves(f, m)
      BY <1>0, <2>2
    <3> DEFINE g == [i \in 1..(m + 1) |-> IF i = m + 1 THEN PathOf(i, f) ELSE f[i]]
    <3>2. ASSUME NEW i \in 1..(m + 1) PROVE g[i] = PathOf(i, g)
      <4>1. i \in NodeIds
        BY <1>0 DEF NodeIds
      <4>2. PathOf(i, g) = PathOf(i, f)
        <5>1. CASE Parent(i) = None
          BY <5>1 DEF PathOf
        <5>2. CASE Parent(i) # None
          <6>1. Parent(i) \in 1..(m + 1) /\ Parent(i) # m + 1
            BY <1>0, <4>1, <5>2
          <6>2. g[Parent(i)] = f[Parent(i)]
            BY <6>1
          <6> QED BY <6>2 DEF PathOf
        <5> QED BY <5>1, <5>2
      <4>3. g[i] = PathOf(i, f)
        <5>1. CASE i = m + 1
          BY <5>1
        <5>2. CASE i # m + 1
          <6>1. i \in 1..m
            BY <5>2
          <6>2. f[i] = PathOf(i, f)
            BY <3>1, <6>1
          <6> QED BY <5>2, <6>2
        <5> QED BY <5>1, <5>2
      <4> QED BY <4>2, <4>3
    <3>3. Solves(g, m + 1)
      BY <3>2
    <3> HIDE DEF g
    <3> QED BY <3>3
  <2> HIDE DEF S
  <2>3. Nat \subseteq S
    BY <2>1, <2>2, Induction
  <2> QED BY <2>3 DEF S
<1>2. ASSUME NEW m \in NodeIds PROVE Solves(P(m), m)
  <2>1. m \in Nat /\ m <= Len(nodes)
    BY <1>0 DEF NodeIds
  <2>2. PICK f : Solves(f, m)
    BY <1>1, <2>1
  <2> HIDE DEF Solves
  <2> QED BY <2>2
<1>3. \A m \in NodeIds : ReconstructPath(m) = P(m)[m]
  BY DEF ReconstructPath, PathOf
<1> HIDE DEF P
<1>4. ASSUME NEW m \in NodeIds, NEW n \in NodeIds, m <= n
      PROVE  \A i \in 1..m : P(m)[i] = P(n)[i]
  <2> DEFINE S == {k \in Nat : \A i \in 1..m : i <= k => P(m)[i] = P(n)[i]}
  <2>0. Solves(P(m), m) /\ Solves(P(n), n)
    BY <1>2
  <2>1. 0 \in S
    OBVIOUS
  <2>2. ASSUME NEW k \in Nat, k \in S PROVE k + 1 \in S
    <3> SUFFICES ASSUME NEW i \in 1..m, i = k + 1 PROVE P(m)[i] = P(n)[i]
      BY <2>2
    <3>1. i \in NodeIds /\ i \in 1..n
      BY <1>0, <1>4 DEF NodeIds
    <3>2. P(m)[i] = PathOf(i, P(m)) /\ P(n)[i] = PathOf(i, P(n))
      BY <2>0, <3>1
    <3>3. Parent(i) # None => P(m)[Parent(i)] = P(n)[Parent(i)]
      BY <1>0, <2>2, <3>1
    <3> QED BY <3>2, <3>3 DEF PathOf
  <2> HIDE DEF S
  <2>3. Nat \subseteq S
    BY <2>1, <2>2, Induction
  <2>4. m \in S /\ m \in Nat
    BY <1>0, <2>3
  <2> QED BY <2>4 DEF S
<1>5. ReconstructPath(1) = << >>
  <2>1. P(1)[1] = PathOf(1, P(1))
    <3>1. Solves(P(1), 1)
      BY <1>0, <1>2
    <3> QED BY <3>1
  <2> QED BY <1>0, <1>3, <2>1 DEF PathOf
<1>6. ASSUME NEW id \in NodeIds \ {1}
      PROVE  ReconstructPath(id) = Append(ReconstructPath(Parent(id)), nodes[id].move)
  <2>1. Parent(id) \in NodeIds /\ Parent(id) <= id /\ Parent(id) \in 1..Parent(id) /\ Parent(id) # None
    BY <1>0 DEF NodeIds
  <2>2. P(id)[id] = PathOf(id, P(id))
    <3>1. Solves(P(id), id) /\ id \in 1..id
      BY <1>0, <1>2
    <3> QED BY <3>1
  <2>3. P(id)[Parent(id)] = P(Parent(id))[Parent(id)]
    BY <1>4, <2>1
  <2> QED BY <1>3, <2>1, <2>2, <2>3 DEF PathOf
<1> QED
  BY <1>5, <1>6
=============================================================================
