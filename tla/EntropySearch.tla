--------------------------- MODULE EntropySearch ---------------------------
(***************************************************************************)
(* The entropy-guided driver (entropy_search in drivers/entropy.rs): one   *)
(* path walked down the search graph, a per-node entropy that grows with   *)
(* every failure and sends the walk back to an ancestor, a resume buffer   *)
(* of the nodes that still have something to try, and, when the budget is  *)
(* gone without a goal, a sequential fallback that routes the atoms one    *)
(* at a time (with find_path_occupied of primitives/path.rs).              *)
(*                                                                         *)
(* An action is one iteration of the loop, so that what holds at the top   *)
(* of the loop is what the invariants say.  A lane is the pair of its ends *)
(* and LanesOf gives the lanes of a move set.  generate_candidates appears by what the *)
(* loop sees of it, rankings: the orders it may put the moves of a         *)
(* configuration in, one for each entropy, seed and weighting.  The two    *)
(* calls an iteration may make have the same arguments and give the same   *)
(* order.  Scores are integers.  failed_candidates is left out: a key      *)
(* enters it only after it entered tried_moves, and both are skipped       *)
(* alike.                                                                  *)
(***************************************************************************)
EXTENDS SearchGraph, Integers, FiniteSets

CONSTANTS Qubits, Locations, Lanes,
          LanesOf,    \* of a move set
          Problems    \* the calls of entropy_search that are considered

NoLimit == -1
Root == 1

\* The arguments of a call.  `order` lists the atoms of ctx.targets, `goals` are
\* the configurations the goal predicate accepts, and `score` is score_moveset
\* of a configuration and the next one.
Calls ==
    [root : Configs, target : [Qubits -> Locations], order : Seq(Qubits),
     blocked : SUBSET Locations, goals : SUBSET Configs,
     maxExpansions : Nat \cup {NoLimit}, maxDepth : Nat \cup {NoLimit},
     rankings : [Configs -> SUBSET Seq(MoveSets)], score : [Configs -> [Configs -> Int]],
     eMax : Nat, reversionSteps : Nat, maxCandidates : Nat, maxGoals : Nat]

ASSUME EntropyAssumption ==
    /\ Configs = [Qubits -> Locations]
    /\ Lanes \subseteq Locations \X Locations
    /\ LanesOf \in [MoveSets -> SUBSET Lanes]
    /\ \A l \in Lanes : \E m \in MoveSets : LanesOf[m] = {l}
    /\ 1 \in Costs
    /\ IsFiniteSet(Locations)
    /\ Problems \subseteq Calls

VARIABLES problem,
          pc,        \* "search", "fallback" or "done"
          states,    \* entropy_map: the EntropyState of every node
          current,
          expanded,  \* nodes_expanded
          iterations,
          deepest,   \* max_depth_seen
          found,     \* found_goals
          best,      \* best_goal_depth, NoLimit for None
          buffer,    \* resume_buffer
          inserts,   \* resume_insert_order
          waiting,   \* the atoms the fallback has still to route
          route,     \* the rest of the route of the atom it is moving
          result     \* SearchResult.goal, None when there is none

loopVars == <<states, current, iterations, deepest, best, buffer, inserts>>
fallbackVars == <<waiting, route>>
vars == <<problem, nodes, seen, pc, loopVars, expanded, found, fallbackVars, result>>

IsGoal(id) == Config(id) \in problem.goals
Reached(n, limit) == limit # NoLimit /\ n >= limit
MaxOf(m, n) == IF m >= n THEN m ELSE n

HardLimit == IF problem.maxExpansions # NoLimit THEN problem.maxExpansions
             ELSE 10 * Cardinality(Locations)

\* Config::with_moves, for the lanes of a move set: an empty lane moves nothing.
Moved(config, move) ==
    [q \in Qubits |->
        IF \E l \in LanesOf[move] : l[1] = config[q]
        THEN (CHOOSE l \in LanesOf[move] : l[1] = config[q])[2] ELSE config[q]]

\* MoveSet::new([lane]).
Single(lane) == CHOOSE m \in MoveSets : LanesOf[m] = {lane}

\* No two atoms at one location.
OneAtomEach(config) == \A q, r \in Qubits : q # r => config[q] # config[r]

\* A call starts with the atoms apart, and its generator proposes no move that
\* brings two of them together: its candidates are grids of the AOD.
ASSUME CandidatesApart ==
    \A p \in Problems :
        /\ OneAtomEach(p.root)
        /\ \A config \in Configs : OneAtomEach(config) =>
              \A ranking \in p.rankings[config] :
                  \A i \in 1..Len(ranking) : OneAtomEach(Moved(config, ranking[i]))

----------------------------------------------------------------------------
(***************************************************************************)
(* The resume buffer.  Insertion orders differ, so that Before is a strict *)
(* total order on the entries of the buffer.                               *)
(***************************************************************************)
Entry == [node : Nat, score : Int, depth : Nat, order : Nat]
Capacity == IF problem.maxGoals = 0 THEN 0 ELSE problem.maxGoals - 1

\* cmp_resume_states: the best score, then the deepest, then the latest.
Before(a, b) ==
    \/ a.score > b.score
    \/ a.score = b.score /\ a.depth > b.depth
    \/ a.score = b.score /\ a.depth = b.depth /\ a.order > b.order

FirstRanked(S) == CHOOSE e \in S : \A f \in S \ {e} : Before(e, f)
LastRanked(S) == CHOOSE e \in S : \A f \in S \ {e} : Before(f, e)

\* Plausible bug: an entry is not discarded before its node is inserted again.
DiscardNothing(entries, node) == entries
Discard(entries, node) == {e \in entries : e.node # node}

\* resume_buffer_insert.
Kept(entries, e) ==
    LET others == Discard(entries, e.node)
    IN  IF Capacity = 0 THEN entries
        ELSE IF Cardinality(others) < Capacity THEN others \cup {e}
        ELSE IF Before(e, LastRanked(others)) THEN (others \ {LastRanked(others)}) \cup {e}
        ELSE others

\* resume_buffer_pop_best, or the root: what ranks before the entry it returns
\* is no shallower than the best goal, and is dropped on the way.
Resumable(entries, cap) == {e \in entries : ~ Reached(e.depth, cap)}
ResumeFrom(entries, cap) ==
    IF Resumable(entries, cap) = {} THEN current' = Root /\ buffer' = {}
    ELSE \E e \in {FirstRanked(Resumable(entries, cap))} :
            /\ current' = e.node
            /\ buffer' = {f \in entries : Before(e, f)}

----------------------------------------------------------------------------
(***************************************************************************)
(* get_next_candidate.  A cursor walks the cache; the cache is generated   *)
(* anew after maxCandidates attempts, when it is empty, and once more when *)
(* everything in it was tried.                                             *)
(***************************************************************************)
NewState == [entropy |-> 1, cursor |-> 0, cache |-> << >>, tried |-> {}]

\* The position after the cursor of the first move that was not tried yet.
NextUntried(cache, cursor, tried) ==
    LET open == {i \in (cursor + 1)..Len(cache) : cache[i] \notin tried}
    IN  IF open = {} THEN None ELSE CHOOSE i \in open : \A j \in open : i <= j

Selection(es, ranking) ==
    LET stale == es.cursor >= problem.maxCandidates \/ es.cache = << >>
        cache == IF stale THEN ranking ELSE es.cache
        at    == NextUntried(cache, IF stale THEN 0 ELSE es.cursor, es.tried)
    IN  IF at # None THEN [cache |-> cache, at |-> at]
        ELSE [cache |-> ranking, at |-> NextUntried(ranking, 0, es.tried)]
Selections(id) == {Selection(states[id], ranking) : ranking \in problem.rankings[Config(id)]}

\* best_untried_moveset_score, None when nothing in the cache is untried.
OpenScores(config, es) ==
    {problem.score[config][Moved(config, es.cache[i])] :
        i \in {j \in 1..Len(es.cache) : es.cache[j] \notin es.tried}}
BestOf(S) == CHOOSE s \in S : \A t \in S : t <= s

----------------------------------------------------------------------------
Init ==
    /\ problem \in Problems
    /\ NewGraph(problem.root)
    /\ states = <<NewState>>
    /\ current = Root /\ expanded = 0 /\ iterations = 0 /\ deepest = 0
    /\ found = << >> /\ best = NoLimit /\ buffer = {} /\ inserts = 0
    /\ waiting = << >> /\ route = << >>
    /\ IF problem.root \in problem.goals THEN pc = "done" /\ result = Root
                                         ELSE pc = "search" /\ result = None

\* Plausible bug: only the expansions are counted.
ExpansionsSpent(round) == expanded >= HardLimit
Spent(round) == expanded >= HardLimit \/ round >= 2 * HardLimit

\* The call of the sequential fallback: the atoms away from their targets.
Unresolved(config) ==
    SelectSeq(problem.order, LAMBDA q : config[q] # problem.target[q])

\* select_best_goal_with_tiebreak; the time of the path and its lanes decide
\* between goals of one depth.
Shallowest(ids, arena) == {m \in ids : \A n \in ids : arena[m].depth <= arena[n].depth}
Found == {found[i] : i \in 1..Len(found)}

\* The budget is gone: the goals found are ranked, or the fallback starts.
StopAtBudget ==
    /\ Spent(iterations + 1)
    /\ iterations' = iterations + 1
    /\ IF found # << >>
       THEN pc' = "done" /\ result' \in Shallowest(Found, nodes) /\ UNCHANGED <<current, waiting>>
       ELSE /\ pc' = "fallback" /\ current' = Root
            /\ waiting' = Unresolved(Config(Root)) /\ UNCHANGED result
    /\ UNCHANGED <<problem, nodes, seen, states, expanded, deepest, found, best,
                   buffer, inserts, route>>

\* The top of the loop: what every other iteration of it has passed.  It also
\* resumes another node when the current one is no shallower than the best goal;
\* WithinLimits says that this never happens, and no action does it.
Iterate ==
    /\ ~ Spent(iterations + 1)
    /\ ~ Reached(Depth(current), best)
    /\ iterations' = iterations + 1
    /\ UNCHANGED <<problem, fallbackVars>>

\* The entropy of the current node, raised to its limit at the depth limit.
\* Plausible bug: the depth limit is not looked at.
OwnEntropy(id) == states[id].entropy
Entropy(id) == IF Reached(Depth(id), problem.maxDepth) THEN problem.eMax
               ELSE states[id].entropy

Overheated == current # Root /\ Entropy(current) >= problem.eMax

\* The ancestor a reversion goes back to: it stops at the root.
Back(id, steps) ==
    LET up[n \in 0..steps] == IF n = 0 THEN id
                              ELSE IF Parent(up[n - 1]) = None THEN up[n - 1]
                              ELSE Parent(up[n - 1])
    IN  up[steps]

Revert ==
    /\ Overheated
    /\ Iterate
    /\ LET ancestor == Back(current, problem.reversionSteps)
           forced   == [states EXCEPT ![current].entropy = Entropy(current)]
       IN  /\ current' = ancestor
           /\ states' = [forced EXCEPT ![ancestor].entropy = @ + 1]
    /\ UNCHANGED <<nodes, seen, pc, expanded, deepest, found, best, buffer, inserts, result>>

Selecting == ~ Overheated

\* The root at the depth limit has its entropy forced, and goes on.
Heated(choice) == [states[current] EXCEPT !.entropy = Entropy(current), !.cache = choice.cache]

\* Nothing is left to try at this node: its entropy goes up.
Barren(choice) ==
    /\ Selecting
    /\ choice.at = None
    /\ Iterate
    /\ states' = [states EXCEPT ![current] =
                    [Heated(choice) EXCEPT !.entropy = @ + 1, !.cursor = Len(choice.cache)]]
    /\ UNCHANGED <<nodes, seen, pc, current, expanded, deepest, found, best,
                   buffer, inserts, result>>

\* The state of the current node once the chosen move is marked as tried.
Marked(choice) ==
    [Heated(choice) EXCEPT !.cursor = choice.at, !.tried = @ \cup {choice.cache[choice.at]}]

NextConfig(choice) == Moved(Config(current), choice.cache[choice.at])
NextG == GScore(current) + 1

\* A goal was reached: it is recorded, and the search ends or resumes.
\* Plausible bug: the best depth stays the first goal's.
FirstDepth(depth) == IF best = NoLimit THEN depth ELSE best
BestDepth(depth) == IF best = NoLimit \/ depth < best THEN depth ELSE best

RecordGoal(id, depth, entries) ==
    /\ found' = Append(found, id)
    /\ best' = BestDepth(depth)
    /\ IF Len(found) + 1 >= problem.maxGoals
       THEN /\ pc' = "done" /\ buffer' = Discard(entries, id)
            /\ result' \in Shallowest(Found \cup {id}, nodes')
            /\ UNCHANGED current
       ELSE pc' = "search" /\ UNCHANGED result /\ ResumeFrom(Discard(entries, id), BestDepth(depth))

\* The move leads to a configuration known at no greater cost.
SeeAgain(choice) ==
    LET child == seen[NextConfig(choice)]
    IN  /\ Selecting
        /\ choice.at # None
        /\ Rediscovered(NextConfig(choice), NextG)
        /\ Iterate
        /\ IF IsGoal(child)
           THEN /\ states' = [states EXCEPT ![current] = Marked(choice)]
                /\ UNCHANGED <<nodes, seen>>
                /\ RecordGoal(child, Depth(child), buffer)
           ELSE /\ states' = [states EXCEPT ![current] =
                                [Marked(choice) EXCEPT !.entropy = @ + 1]]
                /\ UNCHANGED <<nodes, seen, pc, current, found, best, buffer, result>>
        /\ UNCHANGED <<expanded, deepest, inserts>>

\* The current node, put in the buffer again if it has something left to try.
Rebuffered(es) ==
    LET scores == OpenScores(Config(current), es)
    IN  IF scores = {} THEN Discard(buffer, current)
        ELSE Kept(Discard(buffer, current),
                  [node |-> current, score |-> BestOf(scores),
                   depth |-> Depth(current), order |-> inserts])

\* The move makes a new node: a goal, one no shallower than the best goal, or
\* the one the walk goes down to.
Descend(choice) ==
    LET config == NextConfig(choice)
        depth  == Depth(current) + 1
    IN  /\ Selecting
        /\ choice.at # None
        /\ Insert(current, choice.cache[choice.at], config, NextG)
        /\ Iterate
        /\ states' = Append([states EXCEPT ![current] = Marked(choice)], NewState)
        /\ expanded' = expanded + 1
        /\ deepest' = MaxOf(deepest, depth)
        /\ inserts' = IF OpenScores(Config(current), Marked(choice)) = {} \/ Capacity = 0
                      THEN inserts ELSE inserts + 1
        /\ \E entries \in {Rebuffered(Marked(choice))} :
              IF config \in problem.goals THEN RecordGoal(NewId, depth, entries)
              ELSE /\ IF Reached(depth, best) THEN ResumeFrom(Discard(entries, NewId), best)
                      ELSE current' = NewId /\ buffer' = entries
                   /\ UNCHANGED <<pc, found, best, result>>

Search ==
    /\ pc = "search"
    /\ \/ StopAtBudget
       \/ Revert
       \/ \E choice \in Selections(current) :
              Barren(choice) \/ SeeAgain(choice) \/ Descend(choice)

----------------------------------------------------------------------------
(***************************************************************************)
(* sequential_fallback.                                                    *)
(***************************************************************************)

\* Plausible bug: only the blocked locations are avoided.
OnlyBlocked(config, q) == problem.blocked
Occupied(config, q) == problem.blocked \cup {config[r] : r \in Qubits \ {q}}

\* The routes of n lanes from a location that avoid the occupied ones.
Walks(from, occupied, n) ==
    {w \in [1..n -> Lanes] :
        \A k \in 1..n : /\ w[k][1] = (IF k = 1 THEN from ELSE w[k - 1][2])
                        /\ w[k][2] \notin occupied}

\* find_path_occupied: some shortest route, of which it takes the one its
\* breadth-first search meets first.
RoutesOf(from, to, occupied, n) == {w \in Walks(from, occupied, n) : w[n][2] = to}
Routes(from, to, occupied) ==
    LET lengths == {n \in 1..Cardinality(Locations) : RoutesOf(from, to, occupied, n) # {}}
    IN  IF lengths = {} THEN {}
        ELSE RoutesOf(from, to, occupied, CHOOSE n \in lengths : \A m \in lengths : n <= m)

\* The next atom is routed; an atom without a route ends the fallback.  The
\* atom is still away from its target, since only its own route moves it.
RouteNext ==
    /\ route = << >> /\ waiting # << >>
    /\ LET q      == Head(waiting)
           config == Config(current)
           routes == Routes(config[q], problem.target[q], Occupied(config, q))
       IN  IF routes = {} THEN pc' = "done" /\ UNCHANGED <<waiting, route>>
           ELSE route' \in routes /\ waiting' = Tail(waiting) /\ UNCHANGED pc
    /\ UNCHANGED <<problem, nodes, seen, loopVars, expanded, found, result>>

\* One lane of the route; a configuration already known is walked through.
TakeLane ==
    /\ route # << >>
    /\ LET config == Moved(Config(current), Single(Head(route)))
       IN  \/ /\ Rediscovered(config, NextG)
              /\ current' = seen[config]
              /\ UNCHANGED <<nodes, seen, states>>
           \/ /\ Insert(current, Single(Head(route)), config, NextG)
              /\ current' = NewId
              /\ states' = Append(states, NewState)
    /\ expanded' = expanded + 1
    /\ route' = Tail(route)
    /\ UNCHANGED <<problem, pc, iterations, deepest, found, best, buffer, inserts, waiting, result>>

FallbackEnds ==
    /\ route = << >> /\ waiting = << >>
    /\ pc' = "done"
    /\ IF IsGoal(current) THEN found' = <<current>> /\ result' = current
                          ELSE UNCHANGED <<found, result>>
    /\ UNCHANGED <<problem, nodes, seen, loopVars, expanded, fallbackVars>>

Fallback == pc = "fallback" /\ (RouteNext \/ TakeLane \/ FallbackEnds)

Next == Search \/ Fallback
Spec == Init /\ [][Next]_vars

----------------------------------------------------------------------------
TypeOK ==
    /\ GraphTypeOK
    /\ problem \in Problems
    /\ pc \in {"search", "fallback", "done"}
    /\ Len(states) = Len(nodes)
    /\ \A id \in NodeIds :
         /\ states[id].entropy \in Nat
         /\ states[id].cursor \in 0..Len(states[id].cache)
         /\ states[id].tried \subseteq MoveSets
    /\ current \in NodeIds
    /\ expanded \in Nat /\ iterations \in Nat /\ deepest \in Nat /\ inserts \in Nat
    /\ found \in Seq(NodeIds)
    /\ best \in Nat \cup {NoLimit}
    /\ buffer \subseteq Entry
    /\ result \in NodeIds \cup {None}

\* The loop loses no goal: those it recorded are the goals of the arena, and it
\* returns one no shallower than any of them.  (The fallback, which looks at the
\* goal at its end only, may pass one.)
GoalNodes == {id \in NodeIds : IsGoal(id)}
NoShallowerGoal ==
    pc = "search" \/ best # NoLimit =>
        /\ Found = GoalNodes
        /\ \A id \in GoalNodes : best # NoLimit /\ best <= Depth(id)
        /\ pc = "done" => IsGoal(result) /\ Depth(result) = best

\* What can be resumed: a node once, within the capacity, ranked by the depth
\* it has, and none that is a goal; nor does the walk stand on a goal.
ResumeSound ==
    /\ Cardinality(buffer) <= Capacity
    /\ \A e, f \in buffer : e # f => e.node # f.node /\ e.order # f.order
    /\ \A e \in buffer :
         /\ e.node \in NodeIds /\ e.depth = Depth(e.node) /\ e.order < inserts
         /\ ~ IsGoal(e.node)
         /\ \E child \in NodeIds : Parent(child) = e.node
    /\ pc = "search" => ~ IsGoal(current)

\* The loop keeps to its budgets: a node for every expansion, no more of them
\* than the limit, none below the depth limit (but the root is left even where
\* the limit is 0), and, once a goal is known, the walk stays above it.  The
\* fallback keeps to none of them.
WithinLimits ==
    pc = "search" \/ best # NoLimit =>
        /\ Len(nodes) = expanded + 1
        /\ expanded <= HardLimit
        /\ iterations <= MaxOf(1, 2 * HardLimit)
        /\ pc = "search" => ~ Reached(Depth(current), best)
        /\ \A id \in NodeIds :
             /\ Depth(id) <= deepest
             /\ problem.maxDepth # NoLimit => Depth(id) <= MaxOf(1, problem.maxDepth)

\* A solution can be executed: each node of the arena is what its move makes of
\* its parent's configuration, no two atoms are ever at one location, whoever
\* made the node, and the result is a goal.
SolutionReplays ==
    /\ \A id \in NodeIds \ {Root} : Config(id) = Moved(Config(Parent(id)), nodes[id].move)
    /\ \A id \in NodeIds : OneAtomEach(Config(id))
    /\ result # None => IsGoal(result)
=============================================================================
