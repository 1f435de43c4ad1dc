-------------------------- MODULE MCEntropySearch --------------------------
(***************************************************************************)
(* Two atoms on four locations in a ring, which they go round alone or     *)
(* together; they cannot pass each other.  The generator ranks the moves   *)
(* that collide with nobody by their score, best first or worst first, and *)
(* may keep only two of them.                                              *)
(***************************************************************************)
EXTENDS EntropySearch, SequencesExt

CONSTANTS q1, q2

MCQubits == {q1, q2}
MCLocations == 0..3
MCConfigs == [MCQubits -> MCLocations]
MCLanes == {l \in MCLocations \X MCLocations : l[2] \in {(l[1] + 1) % 4, (l[1] + 3) % 4}}

\* A move turns the atoms of one or two locations the same way: 8a + 2b, and 1
\* more for backwards, with a = b for a single lane.
Lane(from, backwards) == <<from, (from + (IF backwards THEN 3 ELSE 1)) % 4>>
MCMoveSets == {m \in 1..32 : (m - 1) \div 8 <= ((m - 1) \div 2) % 4}
MCLanesOf ==
    [m \in MCMoveSets |->
        {Lane(at, (m - 1) % 2 = 1) : at \in {(m - 1) \div 8, ((m - 1) \div 2) % 4}}]
MCCosts == {1}

At(i, j) == [q \in MCQubits |-> IF q = q1 THEN i ELSE j]

\* The lanes one step round the ring, in either direction, from atoms.
Turns(config) ==
    LET turns == {{Lane(config[q], d) : q \in Q} : Q \in {{q1}, {q2}, MCQubits}, d \in BOOLEAN}
    IN  {m \in MCMoveSets : MCLanesOf[m] \in turns /\ OneAtomEach(Moved(config, m))}

\* How far the atoms of a configuration are from where most calls want them.
Apart(i, j) == IF (i - j) % 4 = 3 THEN 1 ELSE (i - j) % 4
Away(config) == Apart(config[q1], 3) + Apart(config[q2], 2)
MCScore == [c \in MCConfigs |-> [d \in MCConfigs |-> Away(c) - Away(d)]]

Gain(config, m) == MCScore[config][Moved(config, m)]
Better(config, m, n) ==
    Gain(config, m) > Gain(config, n) \/ (Gain(config, m) = Gain(config, n) /\ m < n)
Ranked(config, S) ==
    [i \in 1..Cardinality(S) |->
        CHOOSE m \in S : Cardinality({n \in S : Better(config, n, m)}) = i - 1]
MCRankings ==
    [c \in MCConfigs |->
        LET all == Ranked(c, Turns(c))
        IN  IF ~ OneAtomEach(c) THEN {<< >>}
            ELSE {all, Reverse(SubSeq(all, 1, IF Len(all) < 2 THEN Len(all) ELSE 2))}]

Call(root, target, blocked, goals, budget, depth, goalCount, tries) ==
    [root |-> root, target |-> target, order |-> <<q1, q2>>, blocked |-> blocked,
     goals |-> goals, maxExpansions |-> budget, maxDepth |-> depth,
     rankings |-> MCRankings, score |-> MCScore,
     eMax |-> 3, reversionSteps |-> 1, maxCandidates |-> tries, maxGoals |-> goalCount]

\* A target in reach, two goals, a target out of reach, and budgets that end
\* before and after the goal.
BaseCalls ==
    {Call(At(0, 1), At(3, 0), {}, {At(3, 0)}, n, d, 3, 2) : n \in {2, 5, 8}, d \in {NoLimit, 2, 3}}
    \cup {Call(At(0, 2), At(2, 0), {}, {At(2, 0), At(3, 1)}, n, NoLimit, 2, 4) : n \in {3, 6, 9}}
    \cup {Call(At(0, 1), At(3, 2), {}, {At(3, 2)}, n, NoLimit, 3, 2) : n \in {1, 3, 7}}
    \cup {Call(At(0, 1), At(2, 1), {3}, {At(2, 1)}, 3, 1, 1, 2),
          Call(At(0, 1), At(2, 0), {}, {At(3, 2)}, 1, NoLimit, 2, 2),
          Call(At(0, 1), At(1, 2), {}, {At(1, 2)}, 4, 0, 2, 2),
          Call(At(0, 1), At(0, 1), {}, {At(0, 1)}, 1, NoLimit, 2, 2)}
MCProblems ==
    {[c EXCEPT !.reversionSteps = steps, !.eMax = limit] :
        c \in BaseCalls, steps \in {1, 2}, limit \in {2, 3}}
=============================================================================
