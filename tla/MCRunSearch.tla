---------------------------- MODULE MCRunSearch ----------------------------
(***************************************************************************)
(* The calls of run_search that TLC considers.                             *)
(*   - Mazes: every move graph over four placements with the edges of      *)
(*     MazeCosts, each absent or of one of a few costs, free moves and     *)
(*     cycles among them, for every policy.                                *)
(*   - Lines: two atoms on a line of three sites, moved alone or in        *)
(*     parallel at unit cost, for every policy, target, budget and depth   *)
(*     limit below; the atoms cannot pass each other, so half of the       *)
(*     targets are out of reach.                                           *)
(***************************************************************************)
EXTENDS RunSearch

CONSTANTS q1, q2

MCQubits == {q1, q2}
Sites == 1..3
MCConfigs == {c \in [MCQubits -> Sites] : c[q1] # c[q2]}
MCMoveSets == 1..6
MCCosts == 0..5

At(i, j) == [q \in MCQubits |-> IF q = q1 THEN i ELSE j]
A == At(1, 2)
B == At(2, 1)
C == At(1, 3)
D == At(3, 1)

\* A candidate of a configuration, [from, move, config, cost] less its origin.
Leaving(c, edges) ==
    LET here == SelectSeq(edges, LAMBDA e : e.from = c)
    IN  [j \in 1..Len(here) |->
            [move |-> here[j].move, config |-> here[j].config, cost |-> here[j].cost]]

----------------------------------------------------------------------------
Absent == 9
MazeEdges == << <<A, B>>, <<A, C>>, <<B, C>>, <<C, B>>, <<B, D>>, <<C, D>> >>
MazeCosts == {w \in [1..6 -> {Absent, 0, 1, 3, 5}] :
                /\ w[1] \in {Absent, 3} /\ w[2] \in {1, 3} /\ w[3] \in {Absent, 0}
                /\ w[4] \in {Absent, 0, 1} /\ w[5] \in {Absent, 1, 3} /\ w[6] \in {Absent, 5}}

MazeCands(w) ==
    LET edges == [k \in 1..6 |-> [from |-> MazeEdges[k][1], move |-> k,
                                  config |-> MazeEdges[k][2], cost |-> w[k]]]
    IN  [c \in MCConfigs |-> Leaving(c, SelectSeq(edges, LAMBDA e : e.cost # Absent))]

Least(S) == IF S = {} THEN Absent ELSE CHOOSE x \in S : \A y \in S : x <= y

\* Nothing, the true distance to the goal, and the true distance in one place
\* only: admissible, and not consistent.
Estimates(cands) ==
    LET exact == [c \in MCConfigs |-> Least(GoalCosts([cands |-> cands, goals |-> {D}], c, 3))]
    IN  {exact} \cup {[c \in MCConfigs |-> IF c = spike THEN exact[c] ELSE 0] : spike \in {A, B, C}}

Mazes ==
    UNION {LET cands == MazeCands(w)
           IN  [root : {A}, goals : {{D}}, cands : {cands}, h : Estimates(cands),
                weight : {1, 2}, policy : {"astar"},
                maxExpansions : {NoLimit}, maxDepth : {NoLimit}]
               \cup
               [root : {A}, goals : {{D}}, cands : {cands}, h : Estimates(cands),
                weight : {1}, policy : Policies \ {"astar"},
                maxExpansions : {NoLimit}, maxDepth : {NoLimit}]
           : w \in MazeCosts}

----------------------------------------------------------------------------
Steps == << <<1, 0>>, <<-1, 0>>, <<0, 1>>, <<0, -1>>, <<1, 1>>, <<-1, -1>> >>

LineCands ==
    [c \in MCConfigs |->
        LET to(k) == At(c[q1] + Steps[k][1], c[q2] + Steps[k][2])
            edges == [k \in 1..6 |-> [from |-> c, move |-> k, config |-> to(k), cost |-> 1]]
        IN  Leaving(c, SelectSeq(edges, LAMBDA e : e.config \in MCConfigs))]

Apart(i, j) == IF i >= j THEN i - j ELSE j - i
MaxHop(t) == [c \in MCConfigs |-> MaxOf(Apart(c[q1], t[q1]), Apart(c[q2], t[q2]))]
SumHop(t) == [c \in MCConfigs |-> Apart(c[q1], t[q1]) + Apart(c[q2], t[q2])]

Lines ==
    UNION {[root : {A, C}, goals : {{t}}, cands : {LineCands}, h : {MaxHop(t)}, weight : {1},
            policy : {"astar", "greedy", "bfs"},
            maxExpansions : {NoLimit, 0, 2, 3}, maxDepth : {NoLimit, 1, 2}]
           \cup
           [root : {A, C}, goals : {{t}}, cands : {LineCands}, h : {SumHop(t)}, weight : {1},
            policy : {"ids", "dfs"},
            maxExpansions : {NoLimit, 0, 2, 3}, maxDepth : {NoLimit, 1, 2}]
           : t \in MCConfigs}

MCProblems == Mazes \cup Lines
=============================================================================
