---------------------------- MODULE SearchGraph ----------------------------
(***************************************************************************)
(* The arena of search nodes and its transposition table (SearchGraph in   *)
(* crates/bloqade-lanes-search/src/primitives/graph.rs), which every       *)
(* driver of the crate writes through `insert` alone.                      *)
(*                                                                         *)
(* A NodeId is the node's position in the arena; the code counts from 0    *)
(* and this module from 1, so that 0 stands for `None` (no parent, a       *)
(* configuration the table does not hold).  Costs are naturals: the code   *)
(* adds f64 edge costs, 1.0 each with UniformCost, and no rounding is      *)
(* modelled.  GraphSpec is what any driver may do with the graph; the      *)
(* drivers are shown to implement it.                                      *)
(***************************************************************************)
EXTENDS Naturals, Sequences

CONSTANTS Configs,   \* the placements of the atoms (Config)
          MoveSets,  \* the parallel moves (MoveSet)
          Costs      \* what one move may cost

ASSUME CostsAssumption == Costs \subseteq Nat

VARIABLES nodes,     \* the arena, Vec<NodeData>
          seen       \* the transposition table, HashMap<Config, NodeId>

graphVars == <<nodes, seen>>

None == 0

NodeIds == 1..Len(nodes)
NodeData == [config : Configs, parent : Nat, move : MoveSets \cup {None},
             g : Nat, depth : Nat]

Config(id) == nodes[id].config
GScore(id) == nodes[id].g
Depth(id)  == nodes[id].depth
Parent(id) == nodes[id].parent

(***************************************************************************)
(* SearchGraph::new.                                                       *)
(***************************************************************************)
RootArena(root) ==
    << [config |-> root, parent |-> None, move |-> None, g |-> 0, depth |-> 0] >>
RootTable(root) == [c \in Configs |-> IF c = root THEN 1 ELSE None]

NewGraph(root) == nodes = RootArena(root) /\ seen = RootTable(root)

\* Plausible bugs, to test the properties with: any second discovery is
\* dropped; the depth is not derived from the parent; the moves are not reversed.
RediscoveredAtAnyCost(config, g) == seen[config] # None
DepthOne(parent, move, config, g) ==
    [config |-> config, parent |-> parent, move |-> move, g |-> g, depth |-> 1]
PathBackwards(id) ==
    LET path[i \in 1..id] ==
          IF Parent(i) = None THEN << >>
          ELSE <<nodes[i].move>> \o path[Parent(i)]
    IN  path[id]

(***************************************************************************)
(* SearchGraph::insert.  It returns (existing, false) when Rediscovered    *)
(* holds and changes nothing; otherwise it performs Insert and returns     *)
(* (NewId, true), also when the configuration was known at a higher cost:  *)
(* the old node stays in the arena and in whatever queue holds it.         *)
(***************************************************************************)
Rediscovered(config, g) == seen[config] # None /\ GScore(seen[config]) <= g

NewId == Len(nodes) + 1

NodeFor(parent, move, config, g) ==
    [config |-> config, parent |-> parent, move |-> move,
     g |-> g, depth |-> Depth(parent) + 1]

Insert(parent, move, config, g) ==
    /\ ~ Rediscovered(config, g)
    /\ nodes' = Append(nodes, NodeFor(parent, move, config, g))
    /\ seen' = [seen EXCEPT ![config] = NewId]

(***************************************************************************)
(* SearchGraph::reconstruct_path: the moves from the root to a node.       *)
(***************************************************************************)
ReconstructPath(id) ==
    LET path[i \in 1..id] ==
          IF Parent(i) = None THEN << >>
          ELSE Append(path[Parent(i)], nodes[i].move)
    IN  path[id]

----------------------------------------------------------------------------
GraphInit == \E root \in Configs : NewGraph(root)

GraphNext ==
    \E parent \in NodeIds, move \in MoveSets, config \in Configs, cost \in Costs :
        Insert(parent, move, config, GScore(parent) + cost)

GraphSpec == GraphInit /\ [][GraphNext]_graphVars

----------------------------------------------------------------------------
GraphTypeOK ==
    /\ nodes \in Seq(NodeData)
    /\ Len(nodes) >= 1
    /\ seen \in [Configs -> 0..Len(nodes)]

\* Only the first node is a root and every other one comes after its parent,
\* one move deeper and no cheaper: reconstruct_path's walk ends at the root.
TreeGrowsForward ==
    /\ Parent(1) = None /\ GScore(1) = 0 /\ Depth(1) = 0
    /\ \A id \in NodeIds \ {1} :
         /\ Parent(id) \in 1..(id - 1)
         /\ Depth(id) = Depth(Parent(id)) + 1
         /\ GScore(Parent(id)) <= GScore(id)

\* The table holds every configuration of the arena, at the node that is both
\* its latest and its cheapest: a later node of a configuration is strictly
\* cheaper than an earlier one (graph.rs, "best-known node (lowest g-score)").
TableIsCheapest ==
    /\ \A id \in NodeIds :
         /\ seen[Config(id)] # None
         /\ id <= seen[Config(id)]
         /\ id # seen[Config(id)] => GScore(seen[Config(id)]) < GScore(id)
    /\ \A c \in Configs : seen[c] # None => Config(seen[c]) = c

GraphInv == GraphTypeOK /\ TreeGrowsForward /\ TableIsCheapest
=============================================================================
