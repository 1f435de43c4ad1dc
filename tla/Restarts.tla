------------------------------ MODULE Restarts ------------------------------
(***************************************************************************)
(* How a solve call runs the search loop (run_with_components in           *)
(* search/restarts.rs): one run per restart, each with a generator of its  *)
(* own seed, the best of them, and for the cascade one A* run more that    *)
(* the best run bounds.                                                    *)
(*                                                                         *)
(* The restarts run in parallel (rayon) and share nothing that changes;    *)
(* their results are collected in the order of their indices.  They are    *)
(* therefore run here one after the other, in that order, each a whole     *)
(* behaviour of RunSearch.  The entropy strategy, whose driver is another  *)
(* one, is not a strategy here.                                            *)
(***************************************************************************)
EXTENDS RunSearch

CONSTANT Requests   \* the arguments of run_with_components that are considered

\* make_generator(seed, policy) appears as a candidate function per seed:
\* r.configured with the caller's deadlock policy, r.blockers with MoveBlockers.
Runs(r) == MaxOf(r.restarts, 1)

\* The seed of the i-th restart, from 0; u64 saturation is out of reach.
Seed(r, i) == IF r.restarts <= 1 THEN r.baseSeed ELSE MaxOf(r.baseSeed, 1) + i

Policy(r) == IF r.strategy = "cascade" THEN r.inner ELSE r.strategy

SumsHops(policy) == policy \in {"ids", "dfs"}

\* run_inner and run_strategy_v2: the call of run_search for the i-th restart.
RunProblem(r, i) ==
    [root |-> r.root, goals |-> r.goals, policy |-> Policy(r), weight |-> r.weight,
     cands |-> IF SumsHops(Policy(r)) THEN r.configured[Seed(r, i)] ELSE r.blockers[Seed(r, i)],
     h |-> IF SumsHops(Policy(r)) THEN r.hSum ELSE r.hMax,
     maxExpansions |-> r.maxExpansions, maxDepth |-> NoLimit]

\* Plausible bug: the heuristic of the inner strategy, which sums over the atoms
\* and is not admissible for parallel moves.
RefineWithSum(r, cost) ==
    [root |-> r.root, goals |-> r.goals, policy |-> "astar", weight |-> r.weight,
     cands |-> r.blockers[0], h |-> r.hSum,
     maxExpansions |-> r.maxExpansions, maxDepth |-> cost]

\* The refinement of a cascade whose inner strategy found a path of this cost.
RefineProblem(r, cost) ==
    [root |-> r.root, goals |-> r.goals, policy |-> "astar", weight |-> r.weight,
     cands |-> r.blockers[0], h |-> r.hMax,
     maxExpansions |-> r.maxExpansions, maxDepth |-> cost]

IsRequest(r) ==
    /\ r.restarts \in Nat
    /\ \A i \in 0..(Runs(r) - 1) : RunProblem(r, i) \in Calls
    /\ r.strategy = "cascade" => RefineProblem(r, 0) \in Calls

ASSUME RequestsAssumption == \A r \in Requests : IsRequest(r)

\* Every run of a solve call is given UniformCost (`cost_fn: &UniformCost`): no
\* move is free.
ASSUME UniformAssumption == 0 \notin Costs

VARIABLES request,
          stage,     \* "runs", "refine" (the A* run of the cascade) or "returned"
          results,   \* what the restarts returned, in order
          answer     \* what the caller gets

solveVars == <<request, stage, results, answer>>

NoAnswer == [status |-> "running"]

----------------------------------------------------------------------------
\* extract: what a run that has ended returns.
Extracted ==
    [status |-> Status, move_layers |-> IF goal = None THEN << >> ELSE ReconstructPath(goal),
     goal_config |-> IF goal = None THEN Config(1) ELSE Config(goal),
     cost |-> IF goal = None THEN 0 ELSE GScore(goal), nodes_expanded |-> expanded]

\* Plausible bug: cost alone decides, and a failure costs nothing.
CheaperAlone(a, b) == a.cost < b.cost

\* pick_best: solved before unsolved, then by cost, and the first among equals.
Better(a, b) ==
    \/ a.status = "Solved" /\ b.status # "Solved"
    \/ (a.status = "Solved" <=> b.status = "Solved") /\ a.cost < b.cost

PickBest(rs) ==
    rs[CHOOSE i \in 1..Len(rs) :
          /\ \A j \in 1..Len(rs) : ~ Better(rs[j], rs[i])
          /\ \A j \in 1..(i - 1) : Better(rs[i], rs[j])]

----------------------------------------------------------------------------
SolveInit ==
    \E r \in Requests :
        /\ request = r /\ stage = "runs" /\ results = << >> /\ answer = NoAnswer
        /\ Start(RunProblem(r, 0))

Search == Next /\ UNCHANGED solveVars

Ended == stage = "runs" /\ pc = "done"
AllResults == Append(results, Extracted)

IsLast == Len(AllResults) = Runs(request)

NextRun ==
    /\ Ended /\ ~ IsLast
    /\ results' = AllResults
    /\ StartNext(RunProblem(request, Len(AllResults)))
    /\ UNCHANGED <<request, stage, answer>>

Refinable == request.strategy = "cascade" /\ PickBest(AllResults).status = "Solved"

ReturnBest ==
    /\ Ended /\ IsLast /\ ~ Refinable
    /\ results' = AllResults
    /\ answer' = PickBest(AllResults)
    /\ stage' = "returned"
    /\ UNCHANGED <<request, vars>>

Refine ==
    /\ Ended /\ IsLast /\ Refinable
    /\ results' = AllResults
    /\ StartNext(RefineProblem(request, PickBest(AllResults).cost))
    /\ stage' = "refine"
    /\ UNCHANGED <<request, answer>>

ReturnRefined ==
    /\ stage = "refine" /\ pc = "done"
    /\ answer' = IF Status = "Solved" THEN PickBest(<<PickBest(results), Extracted>>)
                                      ELSE PickBest(results)
    /\ stage' = "returned"
    /\ UNCHANGED <<request, results, vars>>

SolveNext == Search \/ NextRun \/ ReturnBest \/ Refine \/ ReturnRefined

SolveSpec == SolveInit /\ [][SolveNext]_<<vars, solveVars>>

----------------------------------------------------------------------------
Returned == stage = "returned"
Answered == Returned /\ answer.status = "Solved"

\* A call is solved exactly when one of its restarts is, and never costs more
\* than any of them: neither a failure among the restarts nor the refinement
\* can take a path away.
AnswerIsBest ==
    Returned =>
        /\ answer.status = "Solved" <=> \E i \in 1..Len(results) : results[i].status = "Solved"
        /\ \A i \in 1..Len(results) :
              results[i].status = "Solved" => answer.cost <= results[i].cost

\* What the cascade's A* run searches, and with which heuristic.
Refinement == [cands |-> request.blockers[0], goals |-> request.goals]
Optimistic ==
    \A c \in Configs : \A cost \in GoalCosts(Refinement, c, Longest) : request.hMax[c] <= cost

\* The refinement is worth its name: a cascade without a budget returns a path
\* within `weight` of the cheapest one of the MoveBlockers generator, although
\* its A* run is cut off at the depth the inner strategy reached.
CascadeBounded ==
    (/\ Answered /\ request.strategy = "cascade" /\ request.maxExpansions = NoLimit
     /\ Optimistic)
        => \A cost \in GoalCosts(Refinement, request.root, Longest) :
              answer.cost <= request.weight * cost
=============================================================================
