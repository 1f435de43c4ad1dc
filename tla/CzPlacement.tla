---------------------------- MODULE CzPlacement ----------------------------
(***************************************************************************)
(* The placements of a layer of CZ gates (placement/ of                    *)
(* crates/bloqade-lanes-search): what each of them asks of the searches    *)
(* and what it makes of their answers.                                     *)
(*   - loose: one call of run_with_components for any entangling goal      *)
(*     (loose_goal.rs), or for one target (target_solver.rs);              *)
(*   - single: one for each candidate target, in order, out of one budget  *)
(*     (single_heuristic.rs);                                              *)
(*   - nohome: the returning atoms are sent home by the best of several    *)
(*     layouts, and then the pairs are brought together (nohome.rs); the   *)
(*     layouts are those of ReturnLayouts;                                 *)
(*   - horizon: trajectories of RecedingHorizon, and the best of them      *)
(*     (solve_receding_horizon).                                           *)
(*                                                                         *)
(* The clean-up loose_goal.rs does when it has solved has nothing to do:   *)
(* its goal already excludes bystanders that are partners by accident.     *)
(* The trajectories run in parallel and share nothing that changes; they   *)
(* run one after the other here.                                           *)
(***************************************************************************)
EXTENDS Restarts, RecedingHorizon

CONSTANTS PartnerOf,    \* get_cz_partner: a location or Nowhere, by location
          Nowhere,
          WordOf,       \* the word of a location
          HomeWords,
          Placements,   \* the calls that are considered
          Toward(_, _)  \* the arguments solve_with_engine makes of a target in a placement

(***************************************************************************)
(* A target maps atoms to locations, maybe not all atoms and maybe two to  *)
(* one location; then no placement is at it.                               *)
(***************************************************************************)
AtTarget(target) == {c \in Configs : \A q \in DOMAIN target : c[q] = target[q]}

\* A partner is a location.  Nothing says that a home has one: left_cz_word_ids
\* makes the words of no pair home words too.
ASSUME PartnersAssumption ==
    \A at \in DOMAIN PartnerOf : PartnerOf[at] \in DOMAIN PartnerOf \cup {Nowhere}

\* The locations of a configuration are the architecture's.
ASSUME LocationsAssumption == Configs \subseteq [Qubits -> DOMAIN PartnerOf]

\* Every search of a placement is given UniformCost.
ASSUME UniformCostAssumption == Costs = {1}

\* The pairs of a layer are brought together: is_entangling_goal.
Together(gates, config) ==
    \A i \in DOMAIN gates : PartnerOf[config[gates[i][2]]] = config[gates[i][1]]

RequestFields == {"root", "goals", "strategy", "inner", "restarts", "baseSeed", "configured",
                  "blockers", "hMax", "hSum", "weight", "maxExpansions"}
IsSolve(r) ==
    /\ IsRequest(r) /\ RequestFields \subseteq DOMAIN r
    /\ \A i \in 0..(Runs(r) - 1) : Faithful(RunProblem(r, i).cands)
    /\ r.strategy = "cascade" => Faithful(r.blockers[0])

IsTargetSolve(p, target) ==
    IsSolve(Toward(p, target)) /\ Toward(p, target).goals = AtTarget(target)

(***************************************************************************)
(* What the callers see to: a layer's pairs share no atom, and a goal is   *)
(* to have them together.  A layout is any placement of the atoms.         *)
(***************************************************************************)
IsPlacement(p) ==
    /\ p.root \in Configs /\ p.budget \in Nat \cup {NoLimit}
    /\ p.pairs \in Seq(Qubits \X Qubits)
    /\ \A i \in DOMAIN p.pairs : p.pairs[i][1] # p.pairs[i][2]
    /\ \A i, j \in DOMAIN p.pairs :
          i # j => {p.pairs[i][1], p.pairs[i][2]} \cap {p.pairs[j][1], p.pairs[j][2]} = {}
    /\ p.kind = "loose" =>
          /\ IsSolve(p.request) /\ p.request.root = p.root
          /\ \A c \in p.request.goals : Together(p.pairs, c)
    /\ p.kind = "single" =>
          /\ Len(p.candidates) \in Nat /\ DOMAIN p.candidates = 1..Len(p.candidates)
          /\ \A i \in 1..Len(p.candidates) : IsTargetSolve(p, p.candidates[i])
    /\ p.kind = "nohome" =>
          /\ p.layouts \in Seq([Qubits -> DOMAIN PartnerOf])
          /\ \A target \in [Qubits -> DOMAIN PartnerOf] : IsTargetSolve(p, target)
    /\ p.kind = "horizon" =>
          /\ p.restarts \in Nat
          /\ p.trajectory \in Trajectories /\ p.trajectory.root = p.root
          /\ \A c \in p.trajectory.goals \cup p.trajectory.fallbackGoals : Together(p.pairs, c)

ASSUME PlacementsAssumption == \A p \in Placements : IsPlacement(p)

VARIABLES placement,
          step,       \* "next", "solving", "staging", "horizon" or "done"
          position,   \* of the candidate or layout that is next
          attempts,   \* what the solves or trajectories have returned
          remaining,  \* remaining_budget
          outcome

placementVars == <<placement, step, position, attempts, remaining, outcome>>
allVars == <<vars, solveVars, rhVars, placementVars>>

root == placement.root
pairs == placement.pairs

Unsolved(status, spent) ==
    [status |-> status, move_layers |-> << >>, goal_config |-> root, cost |-> 0, nodes_expanded |-> spent]

\* What the attempts say they have expanded.
SpentOn(rs) ==
    LET upTo[k \in 0..Len(rs)] == IF k = 0 THEN 0 ELSE upTo[k - 1] + rs[k].nodes_expanded
    IN  upTo[Len(rs)]

\* solve_with_engine.
SolveToward(target, from, budget) ==
    [Toward(placement, target) EXCEPT !.root = from, !.maxExpansions = budget]

StartSolve(r) ==
    /\ request' = r /\ stage' = "runs" /\ results' = << >> /\ answer' = NoAnswer
    /\ StartNext(RunProblem(r, 0))
    /\ UNCHANGED rhVars

\* Nobody looks at these before the first call.
Quiet == [root |-> root, goals |-> {}, cands |-> [c \in Configs |-> << >>], h |-> [c \in Configs |-> 0],
          weight |-> 1, policy |-> "astar", maxExpansions |-> NoLimit, maxDepth |-> NoLimit]

PlacementInit ==
    /\ placement \in Placements
    /\ step = "next" /\ position = 1 /\ attempts = << >> /\ remaining = placement.budget
    /\ outcome = Working
    /\ request = Working /\ stage = "idle" /\ results = << >> /\ answer = NoAnswer
    /\ TrajectoryIdle
    /\ Start(Quiet)

Solving ==
    /\ step \in {"solving", "staging"} /\ SolveNext
    /\ UNCHANGED <<rhVars, placementVars>>

Finish(result) == step' = "done" /\ outcome' = result /\ UNCHANGED <<vars, solveVars, rhVars>>

----------------------------------------------------------------------------
(***************************************************************************)
(* solve_loose_goal.                                                       *)
(***************************************************************************)
SolveLoose ==
    /\ placement.kind = "loose" /\ step = "next"
    /\ StartSolve(placement.request)
    /\ step' = "solving"
    /\ UNCHANGED <<placement, position, attempts, remaining, outcome>>

LooseSolved ==
    /\ placement.kind = "loose" /\ step = "solving" /\ Returned
    /\ Finish(answer)
    /\ UNCHANGED <<placement, position, attempts, remaining>>

----------------------------------------------------------------------------
(***************************************************************************)
(* solve_single_heuristic.                                                 *)
(***************************************************************************)
TargetList == placement.candidates

\* validate_candidate.
Valid(candidate) ==
    /\ \A q \in DOMAIN candidate : candidate[q] \in DOMAIN PartnerOf
    /\ \A i \in DOMAIN pairs : /\ {pairs[i][1], pairs[i][2]} \subseteq DOMAIN candidate
                               /\ PartnerOf[candidate[pairs[i][2]]] = candidate[pairs[i][1]]

SkipCandidate ==
    /\ placement.kind = "single" /\ step = "next" /\ position <= Len(TargetList)
    /\ ~ Valid(TargetList[position])
    /\ position' = position + 1
    /\ UNCHANGED <<vars, solveVars, rhVars, placement, step, attempts, remaining, outcome>>

TryCandidate ==
    /\ placement.kind = "single" /\ step = "next" /\ position <= Len(TargetList)
    /\ Valid(TargetList[position])
    /\ StartSolve(SolveToward(TargetList[position], root, remaining))
    /\ step' = "solving"
    /\ UNCHANGED <<placement, position, attempts, remaining, outcome>>

\* Plausible bug: every candidate gets the whole budget.
NotCharged(spent) == remaining
Charged(spent) ==
    IF remaining = NoLimit THEN NoLimit ELSE IF spent >= remaining THEN 0 ELSE remaining - spent

CandidateTried ==
    /\ placement.kind = "single" /\ step = "solving" /\ Returned
    /\ attempts' = Append(attempts, answer)
    /\ IF answer.status = "Solved" THEN Finish(answer) /\ UNCHANGED <<position, remaining>>
       ELSE /\ remaining' = Charged(answer.nodes_expanded)
            /\ IF remaining' = 0 THEN Finish(answer) /\ UNCHANGED position
               ELSE /\ step' = "next" /\ position' = position + 1
                    /\ UNCHANGED <<vars, solveVars, rhVars, outcome>>
    /\ UNCHANGED placement

NoCandidateLeft ==
    /\ placement.kind = "single" /\ step = "next" /\ position > Len(TargetList)
    /\ Finish(IF attempts = << >> THEN Unsolved("Unsolvable", 0) ELSE attempts[Len(attempts)])
    /\ UNCHANGED <<placement, position, attempts, remaining>>

----------------------------------------------------------------------------
(***************************************************************************)
(* solve_nohome.                                                           *)
(***************************************************************************)
IsHome(at) == WordOf[at] \in HomeWords
Returning == \E q \in Qubits : ~ IsHome(root[q])

\* resolve_cz_targets: one atom of each pair joins the other, and a pair of which
\* an atom stands where nobody can join it is passed over.  The pairs of a layer
\* share no atom.  Plausible bug: the atom goes to the partner of its own place.
JoinsOwn(from, pair, mover) == PartnerOf[from[mover]]
Joins(from, pair, mover) == PartnerOf[from[IF mover = pair[1] THEN pair[2] ELSE pair[1]]]

Mover(from, pair) ==
    IF WordOf[from[pair[1]]] # WordOf[from[pair[2]]] /\ IsHome(from[pair[2]]) THEN pair[2] ELSE pair[1]
Stageable(from, pair) ==
    \A q \in {pair[1], pair[2]} : q \in DOMAIN from /\ PartnerOf[from[q]] # Nowhere
StagedTarget(from) ==
    LET moving == {i \in DOMAIN pairs : Stageable(from, pairs[i])}
        chosen == [q \in {Mover(from, pairs[i]) : i \in moving} |->
                     LET i == CHOOSE i \in moving : Mover(from, pairs[i]) = q IN Joins(from, pairs[i], q)]
    IN  [q \in DOMAIN from |-> IF q \in DOMAIN chosen THEN chosen[q] ELSE from[q]]

StartStaging(from) ==
    /\ StartSolve(SolveToward(StagedTarget(from), from, placement.budget))
    /\ step' = "staging"
    /\ UNCHANGED <<placement, position, attempts, remaining, outcome>>

StageAtOnce ==
    /\ placement.kind = "nohome" /\ step = "next" /\ ~ Returning
    /\ StartStaging(root)

RouteLayout ==
    /\ placement.kind = "nohome" /\ step = "next" /\ Returning /\ position <= Len(placement.layouts)
    /\ StartSolve(SolveToward(placement.layouts[position], root, placement.budget))
    /\ step' = "solving"
    /\ UNCHANGED <<placement, position, attempts, remaining, outcome>>

LayoutRouted ==
    /\ placement.kind = "nohome" /\ step = "solving" /\ Returned
    /\ attempts' = Append(attempts, answer)
    /\ position' = position + 1
    /\ step' = "next"
    /\ UNCHANGED <<vars, solveVars, rhVars, placement, remaining, outcome>>

AllRouted == placement.kind = "nohome" /\ step = "next" /\ Returning /\ position > Len(placement.layouts)
Home == {i \in DOMAIN attempts : attempts[i].status = "Solved"}

\* best_p1: the fewest layers, and the first of them.
BestReturn ==
    LET moves(i) == Len(attempts[i].move_layers)
    IN  attempts[CHOOSE i \in Home : \A j \in Home : moves(i) < moves(j) \/ (moves(i) = moves(j) /\ i <= j)]

NoWayHome ==
    /\ AllRouted /\ Home = {}
    /\ Finish(Unsolved(IF \E i \in DOMAIN attempts : attempts[i].status = "BudgetExceeded"
                       THEN "BudgetExceeded" ELSE "Unsolvable", SpentOn(attempts)))
    /\ UNCHANGED <<placement, position, attempts, remaining>>

Stage ==
    /\ AllRouted /\ Home # {}
    /\ StartStaging(BestReturn.goal_config)

Staged ==
    /\ placement.kind = "nohome" /\ step = "staging" /\ Returned
    /\ LET spent == SpentOn(attempts) + answer.nodes_expanded
       IN  Finish(IF attempts = << >> THEN answer
                  ELSE IF answer.status # "Solved" THEN Unsolved(answer.status, spent)
                  ELSE [answer EXCEPT !.move_layers = BestReturn.move_layers \o @,
                                      !.cost = BestReturn.cost + @, !.nodes_expanded = spent])
    /\ UNCHANGED <<placement, position, attempts, remaining>>

----------------------------------------------------------------------------
(***************************************************************************)
(* solve_receding_horizon.                                                 *)
(***************************************************************************)
NextTrajectory ==
    /\ placement.kind = "horizon" /\ step = "next" /\ Len(attempts) < MaxOf(placement.restarts, 1)
    /\ StartTrajectory(placement.trajectory)
    /\ step' = "horizon"
    /\ UNCHANGED <<solveVars, placement, position, attempts, remaining, outcome>>

Advance ==
    /\ step = "horizon" /\ TNext
    /\ UNCHANGED <<solveVars, placementVars>>

TrajectoryDone ==
    /\ step = "horizon" /\ rhStage = "returned"
    /\ attempts' = Append(attempts, rhAnswer)
    /\ step' = "next"
    /\ UNCHANGED <<vars, solveVars, rhVars, placement, position, remaining, outcome>>

BestTrajectory ==
    /\ placement.kind = "horizon" /\ step = "next" /\ Len(attempts) = MaxOf(placement.restarts, 1)
    /\ Finish(PickBest(attempts))
    /\ UNCHANGED <<placement, position, attempts, remaining>>

----------------------------------------------------------------------------
PlacementNext ==
    \/ Solving \/ SolveLoose \/ LooseSolved
    \/ SkipCandidate \/ TryCandidate \/ CandidateTried \/ NoCandidateLeft
    \/ StageAtOnce \/ RouteLayout \/ LayoutRouted \/ NoWayHome \/ Stage \/ Staged
    \/ NextTrajectory \/ Advance \/ TrajectoryDone \/ BestTrajectory

PlacementSpec == PlacementInit /\ [][PlacementNext]_allVars

\* The calls are made on the caller's thread and wait for nothing.
FairPlacementSpec == PlacementSpec /\ WF_allVars(PlacementNext)

----------------------------------------------------------------------------
Done == step = "done"

Entangled(config) == Together(pairs, config)

\* Where the second phase of nohome found the atoms.
StagedFrom == IF attempts = << >> THEN root ELSE BestReturn.goal_config

\* One of the two can be joined, and the other is there.
Joined(config, pair) ==
    \/ PartnerOf[config[pair[2]]] = config[pair[1]]
    \/ PartnerOf[config[pair[1]]] = config[pair[2]]

\* A pair nohome has passed over is where it was.
PassedOver(config, pair) == \A q \in {pair[1], pair[2]} : config[q] = StagedFrom[q]

BroughtTogether(config) ==
    IF placement.kind = "nohome"
    THEN \A i \in DOMAIN pairs :
            IF Stageable(StagedFrom, pairs[i]) THEN Joined(config, pairs[i]) ELSE PassedOver(config, pairs[i])
    ELSE Entangled(config)

\* What any of the placements returns says where the atoms are and what has been
\* done.  Its layers, replayed move by move from where the atoms were, lead to the
\* placement that is returned, after any number of partial commits, phases and
\* failed attempts (receding_horizon.rs:976-982).  A solution costs its layers and
\* brings every pair together; only nohome says Solved with pairs apart, exactly
\* those of which an atom stood, home, where nobody can join it (nohome.rs:519-524
\* passes them over without a word), and it leaves both atoms there.  What is not
\* solved costs nothing, and has no layers and the initial placement
\* (result.rs:36-46); only a trajectory, contrary to what is written there, hands
\* back the layers it had committed (receding_horizon.rs:858).
OutcomeExecutable ==
    Done =>
        /\ ReplayFrom(root, outcome.move_layers) = outcome.goal_config
        /\ outcome.status = "Solved" =>
              BroughtTogether(outcome.goal_config) /\ outcome.cost = Len(outcome.move_layers)
        /\ outcome.status # "Solved" =>
              /\ outcome.cost = 0
              /\ placement.kind # "horizon" => outcome.move_layers = << >> /\ outcome.goal_config = root

\* A generator of the call leads nowhere.
NoWay(r) == \E i \in 0..(Runs(r) - 1) : GoalCosts(RunProblem(r, i), r.root, Longest) = {}

Backed ==
    CASE placement.kind = "loose" -> NoWay(placement.request)
      [] placement.kind = "single" ->
            \A i \in DOMAIN TargetList : Valid(TargetList[i]) => NoWay(SolveToward(TargetList[i], root, placement.budget))
      [] placement.kind = "nohome" ->
            \/ Returning /\ \A i \in DOMAIN placement.layouts : NoWay(SolveToward(placement.layouts[i], root, placement.budget))
            \/ step = "done" /\ stage = "returned" /\ (Returning => Home # {}) /\ NoWay(request)
      [] placement.kind = "horizon" -> TRUE

\* The status says what happened, however many solves it is put together from.
\* "Unsolvable" (result.rs:15) is never said for want of budget: every candidate
\* was searched in vain, or every layout, or the way from the best of them to the
\* pairs.  And the candidates share their budget: by what their solves report they
\* do not spend more than it, and all of it before they give up.
StatusIsTrue ==
    Done =>
        /\ outcome.status = "Unsolvable" => Backed
        /\ placement.kind = "single" /\ placement.budget # NoLimit =>
              /\ SpentOn(attempts) <= placement.budget
              /\ outcome.status = "BudgetExceeded" => SpentOn(attempts) = placement.budget

\* Every placement returns.  A trajectory without a budget may not: its stages
\* each cost an expansion or shorten the horizon, but a rollout that moves the
\* atoms to and fro counts as full.
Bounded == placement.kind = "horizon" => placement.trajectory.maxExpansions # NoLimit
PlacementReturns == Bounded ~> Done
=============================================================================
