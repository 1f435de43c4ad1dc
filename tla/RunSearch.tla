----------------------------- MODULE RunSearch -----------------------------
(***************************************************************************)
(* The search loop every frontier-based strategy shares (run_search in     *)
(* drivers/frontier.rs), with the five orders its frontiers pop nodes in.  *)
(*                                                                         *)
(* The loop is sequential, but it is not one step: a caller can only trust *)
(* what it returns because of what holds between iterations, so an         *)
(* iteration is cut at each point where it may return.  `problem` holds    *)
(* the arguments of the call and never changes.  The generator, the scorer *)
(* and the cost function appear as problem.cands, the candidates of a      *)
(* configuration in the order the loop inserts them.                       *)
(***************************************************************************)
EXTENDS SearchGraph, Integers, FiniteSets

CONSTANTS Qubits,    \* a configuration maps each of them to its location
          Problems   \* the calls of run_search that are considered

NoLimit == -1
Policies == {"astar", "greedy", "bfs", "dfs", "ids"}
Candidates == [move : MoveSets, config : Configs, cost : Costs]

\* The arguments of a call; NoLimit stands for a bound that is None.
Calls ==
    [root : Configs, goals : SUBSET Configs, cands : [Configs -> Seq(Candidates)],
     h : [Configs -> Nat], weight : Nat \ {0}, policy : Policies,
     maxExpansions : Nat \cup {NoLimit}, maxDepth : Nat \cup {NoLimit}]

ASSUME ProblemsAssumption == Problems \subseteq Calls

\* An architecture has finitely many locations, and a task finitely many atoms.
ASSUME ConfigsAssumption == IsFiniteSet(Configs)

VARIABLES problem,
          pc,        \* "select", "insert" or "done"
          frontier,  \* the nodes the frontier holds
          closed,    \* the nodes that were popped and handled
          current,   \* the node being expanded
          next,      \* the position of the candidate to insert next
          children,  \* new_children
          expanded,  \* nodes_expanded
          deepest,   \* max_depth_seen
          goal       \* SearchResult.goal

loopVars == <<pc, frontier, closed, current, next, children, expanded, deepest, goal>>
vars == <<problem, nodes, seen, loopVars>>

IsGoal(id) == Config(id) \in problem.goals
H(id) == problem.h[Config(id)]
CandidatesOf(id) == problem.cands[Config(id)]

Reached(n, limit) == limit # NoLimit /\ n >= limit
OutOfBudget == Reached(expanded, problem.maxExpansions)

GoalOnPop == problem.policy = "astar"
GoalOnGenerate == ~ GoalOnPop

MaxOf(m, n) == IF m >= n THEN m ELSE n

----------------------------------------------------------------------------
(***************************************************************************)
(* The pop orders.  Each frontier holds a node at most once, so its        *)
(* container is a set and the order a strict total order on it: ids grow   *)
(* in the order of insertion, and the children of one expansion have       *)
(* consecutive ids.                                                        *)
(***************************************************************************)
F(id) == IF problem.policy = "astar" THEN GScore(id) + problem.weight * H(id)
                                     ELSE H(id)

\* PriorityEntry::cmp: lowest f, then highest g, then lowest id.
PriorityBefore(m, n) ==
    \/ F(m) < F(n)
    \/ F(m) = F(n) /\ GScore(m) > GScore(n)
    \/ F(m) = F(n) /\ GScore(m) = GScore(n) /\ m < n

\* DfsFrontier: the latest batch first; within it the lowest h, and among
\* equals the last of the stable sort.
DfsBefore(m, n) ==
    IF Parent(m) # Parent(n) THEN m > n
    ELSE H(m) < H(n) \/ (H(m) = H(n) /\ m > n)

Lookback == 10

\* The ancestor of a node a number of steps up, None above the root.
Ancestor(id, steps) ==
    LET up[k \in 0..steps] ==
          IF k = 0 THEN id ELSE IF up[k - 1] = None THEN None ELSE Parent(up[k - 1])
    IN  up[steps]

\* compute_recent_sources: where each atom was before each of its last moves.
RecentSources(id) ==
    UNION {LET after == Config(Ancestor(id, k - 1))  before == Config(Ancestor(id, k))
           IN  {<<q, before[q]>> : q \in {r \in Qubits : before[r] # after[r]}}
           : k \in {n \in 1..Lookback : Ancestor(id, n) # None}}

\* count_reversals: the atoms a node's move brings back to such a place.
Reversals(id) ==
    IF Parent(id) = None THEN 0
    ELSE Cardinality({q \in Qubits :
            /\ Config(id)[q] # Config(Parent(id))[q]
            /\ <<q, Config(id)[q]>> \in RecentSources(Parent(id))})

\* Twice h_with_penalty: the penalty of one reversal is 0.5.
IdsScore(id) == 2 * H(id) + Reversals(id)

\* IdsEntry::cmp: lowest score, then deepest, then first inserted.
IdsBefore(m, n) ==
    \/ IdsScore(m) < IdsScore(n)
    \/ IdsScore(m) = IdsScore(n) /\ Depth(m) > Depth(n)
    \/ IdsScore(m) = IdsScore(n) /\ Depth(m) = Depth(n) /\ m < n

\* BfsFrontier: first in, first out.  Plausible bug: it pops the other end.
BfsPopsBack(m, n) == m > n
BfsBefore(m, n) == m < n

Before(m, n) ==
    CASE problem.policy \in {"astar", "greedy"} -> PriorityBefore(m, n)
      [] problem.policy = "bfs" -> BfsBefore(m, n)
      [] problem.policy = "dfs" -> DfsBefore(m, n)
      [] problem.policy = "ids" -> IdsBefore(m, n)

\* select_next would return this node.
Selected(id) == id \in frontier /\ \A m \in frontier \ {id} : Before(id, m)

----------------------------------------------------------------------------
\* The call begins: the root is tested, and seeds the frontier if it is no goal.
Start(p) ==
    /\ problem = p
    /\ NewGraph(p.root)
    /\ closed = {} /\ current = None /\ next = 1 /\ children = {}
    /\ expanded = 0 /\ deepest = 0
    /\ IF p.root \in p.goals
       THEN pc = "done" /\ goal = 1 /\ frontier = {}
       ELSE pc = "select" /\ goal = None /\ frontier = {1}

\* Start, for the next state: a caller that has made a call makes another one.
StartNext(p) ==
    /\ problem' = p
    /\ nodes' = RootArena(p.root) /\ seen' = RootTable(p.root)
    /\ closed' = {} /\ current' = None /\ next' = 1 /\ children' = {}
    /\ expanded' = 0 /\ deepest' = 0
    /\ IF p.root \in p.goals
       THEN pc' = "done" /\ goal' = 1 /\ frontier' = {}
       ELSE pc' = "select" /\ goal' = None /\ frontier' = {1}

Init == \E p \in Problems : Start(p)

(***************************************************************************)
(* The head of the loop.  The two tests of the closed set have no branch   *)
(* here: NeverPoppedTwice says that neither a popped node nor a new child  *)
(* is ever closed.                                                         *)
(***************************************************************************)
\* `while let` ends: nothing is left to expand.
Exhaust ==
    /\ pc = "select" /\ frontier = {}
    /\ pc' = "done"
    /\ UNCHANGED <<problem, nodes, seen, frontier, closed, current, next, children,
                   expanded, deepest, goal>>

StopOnBudget ==
    /\ pc = "select" /\ OutOfBudget
    /\ \E id \in frontier : Selected(id) /\ frontier' = frontier \ {id}
    /\ pc' = "done"
    /\ UNCHANGED <<problem, nodes, seen, closed, current, next, children,
                   expanded, deepest, goal>>

Close(id) ==
    /\ pc = "select" /\ ~ OutOfBudget
    /\ Selected(id)
    /\ frontier' = frontier \ {id}
    /\ closed' = closed \cup {id}

FindOnPop(id) ==
    /\ Close(id)
    /\ GoalOnPop /\ IsGoal(id)
    /\ goal' = id
    /\ pc' = "done"
    /\ UNCHANGED <<problem, nodes, seen, current, next, children, expanded, deepest>>

\* Plausible bug: the limit counts the child's depth.
TooDeepByOne(id) == Reached(Depth(id) + 1, problem.maxDepth)

TooDeep(id) == Reached(Depth(id), problem.maxDepth)

\* Plausible bug: the node is looked at without being popped.
PrunePeeks(id) ==
    /\ pc = "select" /\ Selected(id) /\ TooDeep(id)
    /\ ~ (GoalOnPop /\ IsGoal(id))
    /\ closed' = closed \cup {id}
    /\ deepest' = MaxOf(deepest, Depth(id))
    /\ UNCHANGED <<problem, nodes, seen, pc, frontier, current, next, children, expanded, goal>>

\* `continue`: the depth limit; the node stays closed and unexpanded.
Prune(id) ==
    /\ Close(id)
    /\ ~ (GoalOnPop /\ IsGoal(id))
    /\ TooDeep(id)
    /\ deepest' = MaxOf(deepest, Depth(id))
    /\ UNCHANGED <<problem, nodes, seen, pc, current, next, children, expanded, goal>>

Expand(id) ==
    /\ Close(id)
    /\ ~ (GoalOnPop /\ IsGoal(id))
    /\ ~ TooDeep(id)
    /\ deepest' = MaxOf(deepest, Depth(id))
    /\ expanded' = expanded + 1
    /\ current' = id /\ next' = 1 /\ children' = {}
    /\ pc' = "insert"
    /\ UNCHANGED <<problem, nodes, seen, goal>>

(***************************************************************************)
(* The candidates of the node being expanded, one at a time.               *)
(***************************************************************************)
Candidate == CandidatesOf(current)[next]
\* Plausible bug: the cost of the way to the parent is left out.
CandidateGAlone == Candidate.cost
CandidateG == GScore(current) + Candidate.cost

TakeCandidate ==
    /\ pc = "insert" /\ next <= Len(CandidatesOf(current))
    /\ next' = next + 1

\* Plausible bug: `is_new` is ignored.
PushKnown ==
    /\ TakeCandidate
    /\ Rediscovered(Candidate.config, CandidateG)
    /\ children' = children \cup {seen[Candidate.config]}
    /\ UNCHANGED <<problem, nodes, seen, pc, frontier, closed, current, expanded, deepest, goal>>

SkipKnown ==
    /\ TakeCandidate
    /\ Rediscovered(Candidate.config, CandidateG)
    /\ UNCHANGED <<problem, nodes, seen, pc, frontier, closed, current, children,
                   expanded, deepest, goal>>

InsertCandidate ==
    /\ TakeCandidate
    /\ Insert(current, Candidate.move, Candidate.config, CandidateG)

AddChild ==
    /\ InsertCandidate
    /\ ~ (GoalOnGenerate /\ Candidate.config \in problem.goals)
    /\ children' = children \cup {NewId}
    /\ UNCHANGED <<problem, pc, frontier, closed, current, expanded, deepest, goal>>

FindOnGenerate ==
    /\ InsertCandidate
    /\ GoalOnGenerate /\ Candidate.config \in problem.goals
    /\ goal' = NewId
    /\ deepest' = MaxOf(deepest, Depth(current) + 1)
    /\ pc' = "done"
    /\ UNCHANGED <<problem, frontier, closed, current, children, expanded>>

\* Frontier::receive_children, and back to the head of the loop.
ReceiveChildren ==
    /\ pc = "insert" /\ next > Len(CandidatesOf(current))
    /\ frontier' = frontier \cup children
    /\ children' = {}
    /\ pc' = "select"
    /\ UNCHANGED <<problem, nodes, seen, closed, current, next, expanded, deepest, goal>>

Next ==
    \/ Exhaust \/ StopOnBudget
    \/ \E id \in frontier : FindOnPop(id) \/ Prune(id) \/ Expand(id)
    \/ SkipKnown \/ AddChild \/ FindOnGenerate \/ ReceiveChildren

Spec == Init /\ [][Next]_vars

\* run_search is a plain loop on its caller's thread: it keeps running.
FairSpec == Spec /\ WF_vars(Next)

----------------------------------------------------------------------------
(***************************************************************************)
(* extract in search/restarts.rs: the status the caller is told.           *)
(***************************************************************************)
\* Plausible bug: the loop stops at `>=` and the status asks for `>`.
StatusPastBudget ==
    IF goal # None THEN "Solved"
    ELSE IF problem.maxExpansions # NoLimit /\ expanded > problem.maxExpansions
         THEN "BudgetExceeded" ELSE "Unsolvable"

Status == IF goal # None THEN "Solved"
          ELSE IF OutOfBudget THEN "BudgetExceeded" ELSE "Unsolvable"

----------------------------------------------------------------------------
(***************************************************************************)
(* Reference definitions: the walks of the move graph, as pairs of the     *)
(* configuration they end in and what they cost.                           *)
(***************************************************************************)
Walks(p, from, moves) ==
    LET walks[k \in 0..moves] ==
          IF k = 0 THEN {<<from, 0>>}
          ELSE LET shorter == walks[k - 1]
               IN  shorter \cup
                     UNION {{<<p.cands[w[1]][j].config, w[2] + p.cands[w[1]][j].cost>> :
                               j \in 1..Len(p.cands[w[1]])} : w \in shorter}
    IN  walks[moves]

GoalCosts(p, from, moves) == {w[2] : w \in {v \in Walks(p, from, moves) : v[1] \in p.goals}}

\* No cheapest walk is longer: it repeats no configuration.
Longest == Cardinality(Configs) - 1

Admissible == \A c \in Configs : \A cost \in GoalCosts(problem, c, Longest) : problem.h[c] <= cost

UnitCosts == \A c \in Configs : \A j \in 1..Len(problem.cands[c]) : problem.cands[c][j].cost = 1

----------------------------------------------------------------------------
TypeOK ==
    /\ problem \in Calls
    /\ GraphTypeOK
    /\ pc \in {"select", "insert", "done"}
    /\ frontier \subseteq NodeIds /\ closed \subseteq NodeIds /\ children \subseteq NodeIds
    /\ current \in NodeIds \cup {None}
    /\ next \in Nat \ {0}
    /\ expanded \in Nat /\ deepest \in Nat
    /\ goal \in NodeIds \cup {None}

\* A NodeId enters the frontier once and leaves it once: no node waits twice,
\* and none that was closed comes back (frontier.rs, "Closed set check").
NeverPoppedTwice ==
    /\ frontier \cap closed = {} /\ frontier \cap children = {} /\ children \cap closed = {}
    /\ pc = "select" => children = {}

(***************************************************************************)
(* What holds between the steps of the loop, and makes it correct.         *)
(***************************************************************************)
BetweenExpansions == pc = "select" \/ (pc = "done" /\ (goal = None \/ GoalOnPop))

ControlOK ==
    /\ goal # None => pc = "done" /\ IsGoal(goal)
    /\ pc = "insert" => current \in closed
    /\ pc = "done" /\ goal = None /\ ~ OutOfBudget => frontier = {}
    /\ BetweenExpansions => /\ children = {}
                            /\ current # None => next > Len(CandidatesOf(current))

\* No node is lost, unless the budget cuts the loop short.
NoneLost ==
    \/ pc = "done" /\ goal = None /\ OutOfBudget
    \/ NodeIds \subseteq frontier \cup children \cup closed \cup {goal}

\* A goal is seen as soon as the policy looks: when it is made or when it is
\* popped.
GoalsCaught ==
    \A id \in NodeIds \ {goal} : GoalOnGenerate \/ id \in closed => ~ IsGoal(id)

\* Every candidate of an expanded node leads to a configuration that is known
\* at no more than its cost through that node: Bellman's inequality, up to the
\* candidates of the current node that are still to come.
EdgesRelaxed ==
    \A id \in closed \ {goal} : \A j \in 1..Len(CandidatesOf(id)) :
        \/ TooDeep(id)
        \/ Rediscovered(CandidatesOf(id)[j].config,
                        GScore(id) + CandidatesOf(id)[j].cost)
        \/ id = current /\ j >= next

\* A* pops its goal no later than anything that could have been better.
GoalWasFirst ==
    GoalOnPop /\ goal # None => \A id \in frontier : F(goal) <= F(id)

\* The arena's first node stays the configuration the search began in.
RootIsFirst == Config(1) = problem.root

\* A node is made by a candidate of its parent, and costs what that adds.
MadeBy(id, candidate) ==
    /\ Config(id) = candidate.config /\ nodes[id].move = candidate.move
    /\ GScore(id) = GScore(Parent(id)) + candidate.cost
NodesAreCandidates ==
    \A id \in NodeIds \ {1} :
        \E j \in 1..Len(CandidatesOf(Parent(id))) : MadeBy(id, CandidatesOf(Parent(id))[j])

\* Breadth-first search makes its nodes layer by layer: no deeper than one
\* below any that waits, and it closes them in the order of their ids.
LayerByLayer ==
    problem.policy = "bfs" =>
        /\ \A m, n \in NodeIds : m < n => Depth(m) <= Depth(n)
        /\ \A m \in closed, n \in frontier \cup children : m < n
        /\ \A m \in frontier, n \in NodeIds : Depth(n) <= Depth(m) + 1
        /\ pc = "insert" => \A n \in NodeIds : Depth(n) <= Depth(current) + 1
        /\ goal # None /\ goal # 1 =>
              current \in closed /\ Depth(goal) = Depth(current) + 1

\* Every candidate of an expanded node leads to a configuration that has a node
\* in the next layer or an earlier one, whatever they cost.
EdgesLayered ==
    problem.policy = "bfs" =>
        \A id \in closed : \A j \in 1..Len(CandidatesOf(id)) :
            \/ TooDeep(id)
            \/ \E m \in NodeIds : Config(m) = CandidatesOf(id)[j].config /\ Depth(m) <= Depth(id) + 1
            \/ id = current /\ j >= next

\* A node that is expanded lies above the depth limit.
ExpandedInDepth == current # None => current \in closed /\ ~ TooDeep(current)

\* Where no move is free, a node costs at least a unit for each of its moves.
PositiveCosts == \A c \in Configs : \A j \in 1..Len(problem.cands[c]) : problem.cands[c][j].cost > 0
MovesAreCounted == PositiveCosts => \A id \in NodeIds : Depth(id) <= GScore(id)

LoopInv == ControlOK /\ NoneLost /\ GoalsCaught /\ EdgesRelaxed /\ GoalWasFirst

\* "Unsolvable" is a proof (result.rs, "The search space was fully explored"):
\* without a depth limit, the configurations of the table include the root, are
\* closed under every candidate, and hold no goal - so no sequence of
\* candidates reaches one.
UnsolvableIsProved ==
    pc = "done" /\ Status = "Unsolvable" /\ problem.maxDepth = NoLimit =>
        LET explored == {c \in Configs : seen[c] # None}
        IN  /\ problem.root \in explored
            /\ explored \cap problem.goals = {}
            /\ \A c \in explored : \A j \in 1..Len(problem.cands[c]) :
                  problem.cands[c][j].config \in explored

\* What the caller gets is executable: replaying the returned moves from the
\* root, candidate by candidate, ends in the goal's configuration and costs
\* its g-score, although tables and nodes were superseded on the way.
Replayed(path) ==
    LET after[k \in 0..Len(path)] ==
          IF k = 0 THEN {<<problem.root, 0>>}
          ELSE UNION {{<<c.config, w[2] + c.cost>> :
                         c \in {d \in {problem.cands[w[1]][j] : j \in 1..Len(problem.cands[w[1]])} :
                                   d.move = path[k]}} : w \in after[k - 1]}
    IN  after[Len(path)]

PathReplays ==
    pc = "done" /\ goal # None =>
        /\ IsGoal(goal)
        /\ Len(ReconstructPath(goal)) = Depth(goal)
        /\ <<Config(goal), GScore(goal)>> \in Replayed(ReconstructPath(goal))

\* A* with an admissible heuristic returns a path at most `weight` times the
\* cheapest one (frontier.rs, "bounded suboptimal"), consistent or not: a node
\* that is found again at a lower cost is opened again.
AStarBounded ==
    (/\ pc = "done" /\ goal # None
     /\ problem.policy = "astar" /\ problem.maxDepth = NoLimit
     /\ Admissible)
        => \A cost \in GoalCosts(problem, problem.root, Longest) : GScore(goal) <= problem.weight * cost

\* The same without a reference: a potential that is at most 0 at the root,
\* that no candidate raises by more than `weight` times its cost, and that is
\* at least the returned cost at every goal.  Summed along any sequence of
\* candidates from the root to a goal, it bounds `weight` times its cost from
\* below by the cost of the path returned.
Consistent ==
    /\ \A c \in problem.goals : problem.h[c] = 0
    /\ \A c \in Configs : \A j \in 1..Len(problem.cands[c]) :
          problem.h[c] <= problem.cands[c][j].cost + problem.h[problem.cands[c][j].config]

MinOf(m, n) == IF m <= n THEN m ELSE n

Potential(c) ==
    LET ahead == GScore(goal) - problem.weight * problem.h[c]
    IN  IF seen[c] = None THEN ahead
        ELSE MinOf(problem.weight * GScore(seen[c]), ahead)

AStarCertified ==
    (/\ pc = "done" /\ goal # None
     /\ problem.policy = "astar" /\ problem.maxDepth = NoLimit
     /\ Consistent)
        => /\ Potential(problem.root) <= 0
           /\ \A c \in Configs : \A j \in 1..Len(problem.cands[c]) :
                 Potential(problem.cands[c][j].config)
                    <= Potential(c) + problem.weight * problem.cands[c][j].cost
           /\ \A c \in problem.goals : Potential(c) >= GScore(goal)

\* Breadth-first search returns a path of the fewest moves, whatever they cost
\* (it supersedes nodes by cost while it pops by depth).
BfsFewestMoves ==
    pc = "done" /\ goal # None /\ problem.policy = "bfs" =>
        \A moves \in 0..(Depth(goal) - 1) : GoalCosts(problem, problem.root, moves) = {}

\* With unit costs a depth limit loses nothing within it, in any order: what
\* was closed too deep is opened again when it is found nearer the root.  The
\* cascade's A* pass relies on this.
DepthLimitComplete ==
    (/\ pc = "done" /\ Status = "Unsolvable"
     /\ problem.maxDepth # NoLimit /\ UnitCosts)
        => GoalCosts(problem, problem.root, problem.maxDepth) = {}

\* Every call returns, with cycles in the move graph and with free moves.
Terminates == <>(pc = "done")
=============================================================================
