--------------------------- MODULE MCCzPlacement ---------------------------
(***************************************************************************)
(* Two atoms on four locations in a ring, which they go round alone or     *)
(* together; they cannot pass each other.  Locations 0 and 1 are a word,   *)
(* the home of both, and 3 and 2 are across from them.  Location 4, off    *)
(* the ring beside 0, is a home as well, of a word that is in no pair:     *)
(* who is there can be joined by nobody.  Only q1 goes there.              *)
(***************************************************************************)
EXTENDS CzPlacement

CONSTANTS q1, q2

MCQubits == {q1, q2}
Ring == 0..3
At(i, j) == [q \in MCQubits |-> IF q = q1 THEN i ELSE j]
Beside == 4
Places == Ring \cup {Beside}
MCConfigs == {c \in [MCQubits -> Places] : c[q1] # c[q2] /\ c[q2] # Beside}
MCCosts == {1}

MCPartnerOf == [at \in Places |-> IF at = Beside THEN Nowhere ELSE 3 - at]
MCWordOf == [at \in Places |-> CASE at \in {0, 1} -> "left" [] at = Beside -> "alone" [] OTHER -> "right"]
MCHomeWords == {"left", "alone"}

\* A move set turns the atoms of a set of locations by one, forwards or back; two
\* more go from location 0 to the one beside it, and from there.
MCMoveSets == 1..34
Aside == 33
Back == 34
Turns(move, at) == at \in Ring /\ move <= 32 /\ ((move - 1) \div (2 * 2^at)) % 2 = 1
Turned(at, move) == (at + (IF (move - 1) % 2 = 1 THEN 3 ELSE 1)) % 4
Moved(c, move) ==
    [q \in MCQubits |-> CASE Turns(move, c[q]) -> Turned(c[q], move)
                          [] move = Aside /\ c[q] = 0 -> Beside
                          [] move = Back /\ c[q] = Beside -> 0
                          [] OTHER -> c[q]]
MCReplay == [c \in MCConfigs |-> [m \in MCMoveSets |-> IF Moved(c, m) \in MCConfigs THEN Moved(c, m) ELSE c]]

\* The move sets that turn one or two atoms and nothing else; none of them moves
\* an atom off the ring or on to it.
Single(c, q, back) == 1 + back + 2 * 2^c[q]
Both(c, back) == 1 + back + 2 * (2^c[q1] + 2^c[q2])
OnRing(c) == {q \in MCQubits : c[q] \in Ring}
MovesOf(c) ==
    {m \in UNION {{Single(c, q, b) : q \in OnRing(c)} \cup (IF OnRing(c) = MCQubits THEN {Both(c, b)} ELSE {}) :
                     b \in {0, 1}} : Moved(c, m) \in MCConfigs}

RingDistance(i, j) == IF (i - j) % 4 = 3 THEN 1 ELSE (i - j) % 4
Distance(i, j) ==
    CASE i = j -> 0
      [] i = Beside -> 1 + RingDistance(0, j)
      [] j = Beside -> 1 + RingDistance(i, 0)
      [] OTHER -> RingDistance(i, j)
Away(c, target) == Distance(c[q1], target[q1]) + Distance(c[q2], target[q2])
Longer(c, target) == MaxOf(Distance(c[q1], target[q1]), Distance(c[q2], target[q2]))
Least(S) == CHOOSE n \in S : \A m \in S : n <= m

Step(c, m) == [move |-> m, config |-> MCReplay[c][m], cost |-> 1]
InOrder(S) == [i \in 1..Cardinality(S) |-> CHOOSE m \in S : Cardinality({n \in S : n < m}) = i - 1]

----------------------------------------------------------------------------
(***************************************************************************)
(* Loose goals: four generators - every move of some, the short way alone, *)
(* the long way alone, and a dead end - of which each seed draws one.  A   *)
(* cascade whose inner strategy has the short way and whose A* run has     *)
(* only the long one finds nothing within its depth limit.                 *)
(***************************************************************************)
A == At(1, 2)
B == At(2, 3)
C == At(0, 2)
D == At(0, 3)
E == At(1, 3)

Hops(pairsOf) ==
    [c \in MCConfigs |->
        LET to == SelectSeq(pairsOf, LAMBDA p : p[1] = c)
        IN  [i \in 1..Len(to) |-> Step(c, CHOOSE m \in MovesOf(c) : Moved(c, m) = to[i][2])]]

MCGens == {Hops(<< <<A, B>>, <<A, C>>, <<B, E>>, <<E, C>>, <<E, D>>, <<C, D>> >>),
           Hops(<< <<A, C>>, <<C, D>> >>),
           Hops(<< <<A, B>>, <<B, E>>, <<E, C>>, <<E, D>>, <<C, D>> >>)}
DeadEnd == Hops(<< <<A, B>>, <<B, A>> >>)

\* The true distance with every move, and a sum that speaks against the short way.
MCMax == [c \in MCConfigs |-> CASE c \in {A, B} -> 2 [] c \in {C, E} -> 1 [] OTHER -> 0]
MCSum == [c \in MCConfigs |-> CASE c = A -> 4 [] c = B -> 2 [] c = C -> 5 [] c = E -> 1 [] OTHER -> 0]

Seeds == 0..2
MCSeeded == {[s \in Seeds |-> IF s = 2 THEN f ELSE g] : f, g \in MCGens \cup {DeadEnd}}

MCRequests ==
    [root : {A}, goals : {{D}}, strategy : {"cascade"}, inner : {"ids", "dfs"},
     restarts : {0, 2}, baseSeed : {0}, configured : MCSeeded,
     blockers : {[s \in Seeds |-> g] : g \in MCGens \cup {DeadEnd}}, hMax : {MCMax}, hSum : {MCSum},
     weight : {1, 2}, maxExpansions : {NoLimit, 2}]
    \cup
    [root : {A, D}, goals : {{D}}, strategy : {"astar", "bfs", "greedy"}, inner : {"ids"},
     restarts : 0..2, baseSeed : {1}, configured : {[s \in Seeds |-> DeadEnd]},
     blockers : MCSeeded, hMax : {MCMax}, hSum : {MCSum},
     weight : {1}, maxExpansions : {NoLimit, 0, 2}]

Loose == {[kind |-> "loose", root |-> r.root, pairs |-> << <<q1, q2>> >>, budget |-> r.maxExpansions, request |-> r] :
             r \in MCRequests}

----------------------------------------------------------------------------
(***************************************************************************)
(* Targets: the generator goes everywhere but where it is blocked.         *)
(***************************************************************************)
Unblocked(c, blocked) ==
    {m \in MovesOf(c) \cup {Aside, Back} :
        /\ Moved(c, m) # c /\ Moved(c, m) \in MCConfigs
        /\ \A q \in MCQubits : Moved(c, m)[q] \notin blocked \ {c[q]}}
Free(blocked) ==
    [c \in MCConfigs |->
        LET moves == InOrder(Unblocked(c, blocked)) IN [i \in 1..Len(moves) |-> Step(c, moves[i])]]

\* The ring alone, and all that is not blocked.
RingBlocks == {{Beside}, {0, Beside}, {3, Beside}, {0, 3, Beside}}
FreeOf == [blocked \in RingBlocks \cup {{}, {3}} |-> Free(blocked)]
Ahead(S, far(_, _)) == [c \in MCConfigs |-> IF S = {} THEN 0 ELSE Least({far(c, g) : g \in S})]

\* The heuristics of a target that places both atoms somewhere, and of any other.
LongerTo == [target \in [MCQubits -> Places] |-> Ahead(AtTarget(target), Longer)]
AwayFrom == [target \in [MCQubits -> Places] |-> Ahead(AtTarget(target), Away)]
IsPlaced(target) == target \in DOMAIN LongerTo

MCToward(p, target) ==
    [root |-> p.root, goals |-> AtTarget(target), strategy |-> p.strategy, inner |-> "dfs",
     restarts |-> p.restarts, baseSeed |-> 0, configured |-> [s \in Seeds |-> FreeOf[p.blocked]],
     blockers |-> [s \in Seeds |-> FreeOf[p.blocked]], weight |-> 1, maxExpansions |-> NoLimit,
     hMax |-> IF IsPlaced(target) THEN LongerTo[target] ELSE Ahead(AtTarget(target), Longer),
     hSum |-> IF IsPlaced(target) THEN AwayFrom[target] ELSE Ahead(AtTarget(target), Away)]

\* Of the candidates the third is no pair of partners, the fourth has a location
\* that is none and the fifth leaves an atom out.
CandidateLists == {<< >>, <<At(3, 0)>>, <<At(0, 3), At(2, 1)>>, <<At(0, 2), At(0, 9), [q \in {q1} |-> 0], At(1, 2)>>,
                   <<At(2, 0)>>}
SingleHeuristic ==
    [kind : {"single"}, root : {At(1, 2), At(0, 1)}, pairs : {<< <<q1, q2>> >>}, candidates : CandidateLists,
     strategy : {"astar", "dfs", "cascade"}, restarts : {0, 2}, blocked : RingBlocks, budget : {NoLimit, 0, 2, 4, 12}]

\* An atom is beside the ring, or may be sent there: then nobody joins it.
WithLoner ==
    {[kind |-> "nohome", root |-> from, pairs |-> << <<q1, q2>> >>, layouts |-> layouts,
      strategy |-> "astar", restarts |-> 0, blocked |-> blocked, budget |-> budget] :
        from \in {At(4, 0), At(4, 2), At(3, 1), At(0, 2)},
        layouts \in {<<At(4, 1)>>, <<At(4, 0), At(0, 1)>>},
        blocked \in {{}, {3}}, budget \in {NoLimit, 3}}

NoHome ==
    UNION {
        {[kind |-> "nohome", root |-> from, pairs |-> << <<q1, q2>> >>, layouts |-> layouts,
          strategy |-> strategy, restarts |-> 0, blocked |-> blocked, budget |-> budget] :
            from \in {At(2, 3), At(3, 2)}, layouts \in {<<At(0, 1), At(1, 0)>>, <<At(1, 0), At(0, 1)>>},
            strategy \in {"astar", "dfs"}, blocked \in {{Beside}, {0, Beside}}, budget \in {NoLimit, 1, 4}},
        {[kind |-> "nohome", root |-> from, pairs |-> << <<q1, q2>> >>, layouts |-> <<layout>>,
          strategy |-> "astar", restarts |-> 0, blocked |-> blocked, budget |-> budget] :
            from \in {At(1, 2), At(2, 1), At(1, 0), At(1, 3)}, layout \in {At(1, 0), At(0, 1), At(1, 2)},
            blocked \in RingBlocks, budget \in {NoLimit, 1, 4}},
        WithLoner }

----------------------------------------------------------------------------
(***************************************************************************)
(* Receding horizon: an assignment is a placement.  Under it the generator *)
(* proposes the two best turns, whether they bring the atoms nearer or     *)
(* not, or only turns that do: then some rollouts end early, and the       *)
(* horizon has to shrink.                                                  *)
(***************************************************************************)
MCAssignments == {At(1, 2), At(3, 2), At(2, 1)}
MCScore == [a \in MCAssignments |-> [c \in MCConfigs |-> [d \in MCConfigs |-> Away(c, a) - Away(d, a)]]]

Gain(a, c, m) == MCScore[a][c][MCReplay[c][m]]
GainsMore(a, c, m, n) == Gain(a, c, m) > Gain(a, c, n) \/ (Gain(a, c, m) = Gain(a, c, n) /\ m < n)
Favourites(a, c, S, most) ==
    LET count == IF Cardinality(S) < most THEN Cardinality(S) ELSE most
        at(i) == CHOOSE m \in S : Cardinality({n \in S : GainsMore(a, c, n, m)}) = i - 1
    IN  [i \in 1..count |-> Step(c, at(i))]
Open == [a \in MCAssignments |-> [c \in MCConfigs |-> Favourites(a, c, MovesOf(c), 2)]]
Nearer == [a \in MCAssignments |->
              [c \in MCConfigs |-> Favourites(a, c, {m \in MovesOf(c) : Gain(a, c, m) > 0}, 2)]]
Everything == [c \in MCConfigs |-> Favourites(At(1, 2), c, MovesOf(c), 6)]

\* What a stage may propose: one assignment, two, or none.
Proposals(lists) == [c \in MCConfigs |-> lists]
Lists == { {<<At(1, 2)>>}, {<<At(3, 2), At(1, 2)>>, << >>}, {<<At(2, 1), At(3, 2)>>} }

ToGo(goals) == Ahead(goals, Away)
Zero == [c \in MCConfigs |-> 0]

Trajectory(from, goals, lists, cands, far, most, less, first, width, budget) ==
    [root |-> from, goals |-> goals, proposed |-> Proposals(lists), cands |-> cands, score |-> MCScore,
     h |-> ToGo(goals), leafCost |-> ToGo(goals), nextCost |-> Zero,
     horizon |-> far, commit |-> most, decrement |-> less, perRollout |-> 4, beamFirst |-> first,
     width |-> width, maxExpansions |-> budget,
     fallbackCands |-> Everything, fallbackGoals |-> goals, fallbackPolicy |-> "greedy"]

MCTrajectories ==
    {Trajectory(from, goals, lists, cands, size[1], size[2], size[3], search[1], search[2], budget) :
        from \in {At(0, 2), At(3, 2)}, goals \in {{At(1, 2)}, {At(1, 2), At(3, 0)}}, lists \in Lists,
        cands \in {Open, Nearer}, size \in {<<1, 1, 1>>, <<3, 2, 1>>, <<4, 1, 2>>, <<2, 0, 1>>},
        search \in {<<TRUE, 1>>, <<TRUE, 2>>, <<FALSE, 1>>}, budget \in {6, 12}}
    \cup
    {Trajectory(from, {At(1, 2)}, {<<At(1, 2)>>}, Open, 3, 2, 1, TRUE, 2, 0) : from \in {At(0, 2), At(1, 2)}}
TwiceTaken == {t \in MCTrajectories : t.horizon = 3 /\ t.width = 2 /\ t.root = At(3, 2)}

Horizon ==
    {[kind |-> "horizon", root |-> t.root, pairs |-> << <<q1, q2>> >>, budget |-> t.maxExpansions,
      trajectory |-> t, restarts |-> 0] : t \in MCTrajectories}
    \cup
    {[kind |-> "horizon", root |-> t.root, pairs |-> << <<q1, q2>> >>, budget |-> t.maxExpansions,
      trajectory |-> t, restarts |-> 2] : t \in TwiceTaken}

MCPlacements == Loose \cup SingleHeuristic \cup NoHome \cup Horizon
=============================================================================
