-------------------------- MODULE RecedingHorizon --------------------------
(***************************************************************************)
(* One trajectory of the receding-horizon placement                        *)
(* (solve_entangling_rh_single in placement/receding_horizon.rs).  A stage *)
(* proposes assignments of the atoms, rolls each of them out for a few     *)
(* moves (with a beam, and with run_search when the beam gets nowhere),    *)
(* commits a part of the best rollout and starts again from there.  When   *)
(* every rollout falls short the horizon shrinks, and in the end an        *)
(* ordinary search takes over.                                             *)
(*                                                                         *)
(* The rollouts of a stage run in parallel, share nothing that changes and *)
(* are collected in order; here they run one after the other.  Each has a  *)
(* graph of its own: nodes, seen, goal, deepest and expanded are the       *)
(* RolloutOutcome it builds.  The assignments appear by their names: what  *)
(* the generator proposes under each is a candidate function, and so is    *)
(* the score the beam ranks by.  Heuristics are integers.                  *)
(***************************************************************************)
EXTENDS RunSearch

CONSTANTS Assignments,   \* the assignments generate_k_candidates can return
          Replay,        \* Replay[config][move]: apply_move_set
          Trajectories   \* the calls that are considered

(***************************************************************************)
(* `proposed` gives the results generate_k_candidates may have in a        *)
(* configuration, one for every seed; `leafCost` and `nextCost` are what   *)
(* hungarian_cost_at_leaf says of the current layer and of the next one,   *)
(* the latter multiplied by tier0_next_h_weight.  The fallback is a search *)
(* with a generator, a goal and a strategy of its own.                     *)
(***************************************************************************)
Arguments ==
    [root : Configs, goals : SUBSET Configs, proposed : [Configs -> SUBSET Seq(Assignments)],
     cands : [Assignments -> [Configs -> Seq(Candidates)]],
     score : [Assignments -> [Configs -> [Configs -> Int]]],
     h : [Configs -> Nat], leafCost : [Configs -> Nat], nextCost : [Configs -> Nat],
     horizon : Nat, commit : Nat, decrement : Nat, perRollout : Nat, beamFirst : BOOLEAN,
     width : Nat \ {0}, maxExpansions : Nat \cup {NoLimit},
     fallbackCands : [Configs -> Seq(Candidates)], fallbackGoals : SUBSET Configs,
     fallbackPolicy : Policies]

\* The generators say where their moves lead: new_config is what apply_move_set makes.
Faithful(cands) ==
    \A c \in Configs : \A j \in 1..Len(cands[c]) : Replay[c][cands[c][j].move] = cands[c][j].config

GeneratorsOf(t) == {t.cands[a] : a \in Assignments} \cup {t.fallbackCands}

ASSUME TrajectoriesAssumption ==
    /\ Trajectories \subseteq Arguments
    /\ Replay \in [Configs -> [MoveSets -> Configs]]
    /\ \A t \in Trajectories : \A c \in Configs : t.proposed[c] # {}
    /\ \A cands \in UNION {GeneratorsOf(t) : t \in Trajectories} : Faithful(cands)

VARIABLES call,
          rhStage,     \* "idle", "plan", "rollout", "beam", "ids", "pick", "fallback" or "returned"
          state,
          layers,      \* committed_layers
          total,       \* total_expansions
          x,           \* the horizon of this stage
          assigned,    \* the assignments of this stage not rolled out yet
          branches,
          beam, pool, nextBeam,   \* of beam_rollout; `round` counts its rounds
          round,
          rhAnswer

stageVars == <<call, state, layers, total, x>>
beamVars == <<beam, pool, nextBeam, round>>
rhVars == <<stageVars, rhStage, assigned, branches, beamVars, rhAnswer>>

Working == [status |-> "working"]

----------------------------------------------------------------------------
\* The call of run_search that rolls an assignment out, and the fallback's.
RolloutProblem(a) ==
    [root |-> state, goals |-> call.goals, cands |-> call.cands[a], h |-> call.h, weight |-> 1,
     policy |-> "ids", maxExpansions |-> call.perRollout, maxDepth |-> x]

FallbackProblem ==
    [root |-> state, goals |-> call.fallbackGoals, cands |-> call.fallbackCands, h |-> call.h,
     weight |-> 1, policy |-> call.fallbackPolicy, maxExpansions |-> call.maxExpansions,
     maxDepth |-> NoLimit]

\* A trajectory begins; nobody has looked at the variables of run_search yet.
StartTrajectory(t) ==
    /\ call' = t
    /\ rhStage' = "plan" /\ state' = t.root /\ layers' = << >> /\ total' = 0 /\ x' = t.horizon
    /\ assigned' = << >> /\ branches' = << >>
    /\ beam' = << >> /\ pool' = << >> /\ nextBeam' = << >> /\ round' = 0
    /\ rhAnswer' = Working
    /\ UNCHANGED vars

TrajectoryIdle ==
    /\ call = Working /\ rhStage = "idle" /\ state = Working /\ layers = << >> /\ total = 0 /\ x = 0
    /\ assigned = << >> /\ branches = << >>
    /\ beam = << >> /\ pool = << >> /\ nextBeam = << >> /\ round = 0
    /\ rhAnswer = Working

----------------------------------------------------------------------------
(***************************************************************************)
(* The head of a stage.                                                    *)
(***************************************************************************)
Return(status, moves, config, cost, spent) ==
    /\ rhStage' = "returned"
    /\ rhAnswer' = [status |-> status, move_layers |-> moves, goal_config |-> config,
                  cost |-> cost, nodes_expanded |-> spent]

StartFallback ==
    /\ StartNext(FallbackProblem)
    /\ rhStage' = "fallback"

Arrived ==
    /\ rhStage = "plan" /\ state \in call.goals
    /\ Return("Solved", layers, state, Len(layers), total)
    /\ UNCHANGED <<vars, stageVars, assigned, branches, beamVars>>

Spent == Reached(total, call.maxExpansions)

\* What was committed so far is returned with the failure.
OutOfStages ==
    /\ rhStage = "plan" /\ state \notin call.goals /\ Spent
    /\ Return("BudgetExceeded", layers, state, 0, total)
    /\ UNCHANGED <<vars, stageVars, assigned, branches, beamVars>>

Propose ==
    /\ rhStage = "plan" /\ state \notin call.goals /\ ~ Spent
    /\ assigned' \in call.proposed[state]
    /\ branches' = << >>
    /\ IF assigned' = << >> THEN StartFallback ELSE rhStage' = "rollout" /\ UNCHANGED vars
    /\ UNCHANGED <<stageVars, beamVars, rhAnswer>>

----------------------------------------------------------------------------
(***************************************************************************)
(* run_inner_rollout: beam_rollout, and run_search when it falls short.    *)
(***************************************************************************)
\* beam_rollout begins: the root, which is no goal, is the whole beam.
StartBeam ==
    /\ rhStage = "rollout" /\ assigned # << >> /\ call.beamFirst
    /\ StartNext(RolloutProblem(Head(assigned)))
    /\ beam' = <<1>> /\ pool' = << >> /\ nextBeam' = << >> /\ round' = 0
    /\ rhStage' = "beam"
    /\ UNCHANGED <<stageVars, assigned, branches, rhAnswer>>

StartIds ==
    /\ rhStage = "rollout" /\ assigned # << >> /\ ~ call.beamFirst
    /\ StartNext(RolloutProblem(Head(assigned)))
    /\ rhStage' = "ids"
    /\ UNCHANGED <<stageVars, assigned, branches, beamVars, rhAnswer>>

\* What the members of the beam lead to, in their order.
Options ==
    LET upTo[k \in 0..Len(beam)] ==
          IF k = 0 THEN << >>
          ELSE upTo[k - 1] \o [j \in 1..Len(CandidatesOf(beam[k])) |->
                                  [parent |-> beam[k], cand |-> CandidatesOf(beam[k])[j]]]
    IN  upTo[Len(beam)]

Scored(o) == call.score[Head(assigned)][Config(o.parent)][o.cand.config]

\* The `width` best of the options, by a stable sort.
Best(options) ==
    LET before(i, j) ==
          \/ Scored(options[i]) > Scored(options[j])
          \/ Scored(options[i]) = Scored(options[j]) /\ i < j
        rank(i) == 1 + Cardinality({j \in 1..Len(options) : before(j, i)})
    IN  [k \in 1..(IF Len(options) < call.width THEN Len(options) ELSE call.width) |->
            options[CHOOSE i \in 1..Len(options) : rank(i) = k]]

\* The lowest h, then the lowest g, then the first, at the deepest depth
\* up to a limit: extract_best_leaf.
Deepest(limit) ==
    CHOOSE d \in {Depth(id) : id \in NodeIds} :
        d <= limit /\ \A id \in NodeIds : Depth(id) <= limit => Depth(id) <= d
LeafBefore(m, n) ==
    \/ H(m) < H(n)
    \/ H(m) = H(n) /\ GScore(m) < GScore(n)
    \/ H(m) = H(n) /\ GScore(m) = GScore(n) /\ m < n
BestLeaf(limit) ==
    IF Deepest(limit) = 0 THEN None
    ELSE CHOOSE m \in NodeIds :
            /\ Depth(m) = Deepest(limit)
            /\ \A n \in NodeIds \ {m} : Depth(n) = Deepest(limit) => LeafBefore(m, n)

\* The quality gate: the best leaf is to be at most 0.85 times as far.
Progress == BestLeaf(x) # None /\ 20 * H(BestLeaf(x)) <= 17 * H(1)

Round ==
    /\ rhStage = "beam" /\ pc # "done" /\ pool = << >> /\ nextBeam = << >> /\ round < x
    /\ expanded' = expanded + Len(beam)
    /\ IF Options = << >>
       THEN deepest' = Depth(beam[1]) /\ pc' = "done" /\ UNCHANGED <<pool, round>>
       ELSE pool' = Best(Options) /\ round' = round + 1 /\ UNCHANGED <<deepest, pc>>
    /\ UNCHANGED <<problem, nodes, seen, frontier, closed, current, next, children, goal,
                   rhStage, stageVars, assigned, branches, beam, nextBeam, rhAnswer>>

\* One option of the pool.  A configuration the rollout has seen brings back the
\* node it was first reached by, at whatever depth that is.
Apply ==
    LET o       == Head(pool)
        config  == o.cand.config
        reached == IF Rediscovered(config, GScore(o.parent) + 1) THEN seen[config] ELSE NewId
        grown   == Append(nextBeam, reached)
    IN  /\ rhStage = "beam" /\ pc # "done" /\ pool # << >>
        /\ IF reached = NewId THEN Insert(o.parent, o.cand.move, config, GScore(o.parent) + 1)
                              ELSE UNCHANGED graphVars
        /\ IF config \in call.goals
           THEN /\ goal' = reached /\ deepest' = nodes'[reached].depth /\ pc' = "done"
                /\ UNCHANGED <<beam, pool, nextBeam>>
           ELSE /\ pool' = Tail(pool)
                /\ beam' = IF Len(pool) = 1 THEN grown ELSE beam
                /\ nextBeam' = IF Len(pool) = 1 THEN << >> ELSE grown
                /\ UNCHANGED <<goal, deepest, pc>>
        /\ UNCHANGED <<problem, frontier, closed, current, next, children, expanded,
                       rhStage, stageVars, assigned, branches, round, rhAnswer>>

\* The rounds are over: the first member of the beam stands for all of them.
EndBeam ==
    /\ rhStage = "beam" /\ pc # "done" /\ pool = << >> /\ round = x
    /\ deepest' = Depth(beam[1]) /\ pc' = "done"
    /\ UNCHANGED <<problem, nodes, seen, frontier, closed, current, next, children, expanded, goal,
                   rhStage, stageVars, assigned, branches, beamVars, rhAnswer>>

BeamSuffices == goal # None \/ (deepest >= x /\ Progress)

FallBackToIds ==
    /\ rhStage = "beam" /\ pc = "done" /\ ~ BeamSuffices
    /\ StartNext(problem)
    /\ rhStage' = "ids"
    /\ UNCHANGED <<stageVars, assigned, branches, beamVars, rhAnswer>>

SearchOn ==
    /\ rhStage \in {"ids", "fallback"}
    /\ Next
    /\ UNCHANGED rhVars

----------------------------------------------------------------------------
(***************************************************************************)
(* classify_into_tier: a rollout that reached the goal, or one that went   *)
(* down all the way; others are dropped, with the expansions they cost.    *)
(***************************************************************************)
Branch(tier, id) ==
    [tier |-> tier, depth |-> Depth(id), path |-> ReconstructPath(id), leaf |-> Config(id)]

FallsShort == goal = None /\ (deepest < x \/ BestLeaf(x) = None \/ Depth(BestLeaf(x)) < x)

Classified ==
    IF goal # None THEN << Branch(0, goal) >>
    ELSE IF FallsShort THEN << >>
    ELSE << Branch(1, BestLeaf(x)) >>

\* The sum over the kept branches is taken one by one.
Classify ==
    /\ rhStage = "ids" \/ (rhStage = "beam" /\ BeamSuffices)
    /\ pc = "done"
    /\ branches' = branches \o Classified
    /\ total' = IF Classified = << >> THEN total ELSE total + expanded
    /\ assigned' = Tail(assigned)
    /\ rhStage' = IF Len(assigned) = 1 THEN "pick" ELSE "rollout"
    /\ UNCHANGED <<vars, call, state, layers, x, beamVars, rhAnswer>>

----------------------------------------------------------------------------
\* Plausible bug: the horizon stays what it is.
SameHorizon == x
ShorterHorizon ==
    LET less == MaxOf(call.decrement, 1) IN IF x >= less THEN x - less ELSE 0

AllDropped ==
    /\ rhStage = "pick" /\ branches = << >>
    /\ IF x > 1
       THEN x' = ShorterHorizon /\ rhStage' = "plan" /\ UNCHANGED vars
       ELSE StartFallback /\ UNCHANGED x
    /\ UNCHANGED <<call, state, layers, total, assigned, branches, beamVars, rhAnswer>>

(***************************************************************************)
(* pick_best_branch, and the commit of its whole path or of some of it.    *)
(***************************************************************************)
Score(b) == IF b.tier = 0 THEN b.depth + call.nextCost[b.leaf] ELSE call.leafCost[b.leaf]
BranchBefore(i, j) ==
    LET a == branches[i]  b == branches[j]
    IN  a.tier < b.tier \/ (a.tier = b.tier /\ (Score(a) < Score(b) \/ (Score(a) = Score(b) /\ i < j)))
BestBranch ==
    branches[CHOOSE i \in 1..Len(branches) : \A j \in 1..Len(branches) \ {i} : BranchBefore(i, j)]

CommitCount(b) ==
    IF b.tier = 0 \/ b.depth <= call.commit THEN b.depth ELSE call.commit

\* apply_layers_to: None, which needs two atoms at one place, does not occur.
ReplayFrom(config, moves) ==
    LET at[k \in 0..Len(moves)] == IF k = 0 THEN config ELSE Replay[at[k - 1]][moves[k]]
    IN  at[Len(moves)]

\* Plausible bug: the state goes to the end of the path, whatever was committed.
AdvancedToLeaf(b) == b.leaf
Advanced(b) ==
    IF CommitCount(b) = Len(b.path) THEN b.leaf
    ELSE ReplayFrom(state, SubSeq(b.path, 1, CommitCount(b)))

Commit ==
    /\ rhStage = "pick" /\ branches # << >>
    /\ IF CommitCount(BestBranch) = 0
       THEN StartFallback /\ UNCHANGED stageVars
       ELSE /\ state' = Advanced(BestBranch)
            /\ layers' = layers \o SubSeq(BestBranch.path, 1, CommitCount(BestBranch))
            /\ x' = call.horizon
            /\ rhStage' = "plan"
            /\ UNCHANGED <<vars, call, total>>
    /\ UNCHANGED <<assigned, branches, beamVars, rhAnswer>>

\* merge_fallback.
Merge ==
    /\ rhStage = "fallback" /\ pc = "done"
    /\ IF goal = None
       THEN Return(Status, layers, Config(1), 0, total + expanded)
       ELSE LET merged == layers \o ReconstructPath(goal)
            IN  Return("Solved", merged, Config(goal), Len(merged), total + expanded)
    /\ UNCHANGED <<vars, stageVars, assigned, branches, beamVars>>

TNext ==
    \/ Arrived \/ OutOfStages \/ Propose
    \/ StartBeam \/ StartIds \/ Round \/ Apply \/ EndBeam \/ FallBackToIds \/ SearchOn \/ Classify
    \/ AllDropped \/ Commit \/ Merge

=============================================================================
