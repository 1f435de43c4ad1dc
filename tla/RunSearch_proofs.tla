-------------------------- MODULE RunSearch_proofs --------------------------
(***************************************************************************)
(* The search loop of frontier.rs is correct for every move graph, every   *)
(* pop order, every budget and depth limit: IInv is inductive, PathInv     *)
(* adds what it needs about the parents, and the theorems follow.          *)
(*                                                                         *)
(* The second part is about Restarts: that pick_best picks a best result,  *)
(* and that no restart and no refinement takes a path away from the        *)
(* caller, whatever the requests.                                          *)
(*                                                                         *)
(* The third part goes up to CzPlacement: PlacementInv puts together what  *)
(* holds of the searches, of the requests and of the trajectories a        *)
(* placement is made of, so that what it returns can be carried out.       *)
(***************************************************************************)
EXTENDS CzPlacement, SearchGraph_proofs, OrderLemmas

IInv == TypeOK /\ GraphInv /\ RootIsFirst /\ NeverPoppedTwice /\ LoopInv

----------------------------------------------------------------------------
\* The arguments of the call have the types the assumption gives them.
LEMMA ProblemTypes ==
    ASSUME TypeOK
    PROVE  /\ problem.root \in Configs /\ problem.goals \subseteq Configs
           /\ problem.cands \in [Configs -> Seq(Candidates)]
           /\ problem.h \in [Configs -> Nat] /\ problem.weight \in Nat \ {0}
           /\ problem.policy \in Policies
           /\ problem.maxExpansions \in Int /\ problem.maxDepth \in Int
  BY DEF TypeOK, Calls, NoLimit

\* A candidate of a node is typed (MoveCandidate and its edge cost).
LEMMA CandidateTypes ==
    ASSUME TypeOK, NEW id \in NodeIds, NEW j \in 1..Len(CandidatesOf(id))
    PROVE  /\ CandidatesOf(id)[j].config \in Configs
           /\ CandidatesOf(id)[j].move \in MoveSets
           /\ CandidatesOf(id)[j].cost \in Costs /\ CandidatesOf(id)[j].cost \in Nat
<1>1. Config(id) \in Configs
  BY NodeTypes DEF TypeOK
<1>2. CandidatesOf(id) \in Seq(Candidates)
  BY <1>1, ProblemTypes DEF CandidatesOf
<1>3. CandidatesOf(id)[j] \in Candidates
  BY <1>2
<1> QED
  BY <1>3, CostsAssumption DEF Candidates

\* `None` is no node, and a node has so many candidates.
LEMMA NodesAndNone ==
    ASSUME TypeOK
    PROVE  /\ None \notin NodeIds
           /\ \A id \in NodeIds : id # None /\ Len(CandidatesOf(id)) \in Nat
<1>1. None \notin NodeIds
  BY DEF NodeIds, None, TypeOK, GraphTypeOK
<1>2. ASSUME NEW id \in NodeIds PROVE Len(CandidatesOf(id)) \in Nat
  <2>1. Config(id) \in Configs
    BY NodeTypes DEF TypeOK
  <2>2. CandidatesOf(id) \in Seq(Candidates)
    BY <2>1, ProblemTypes DEF CandidatesOf
  <2> QED
    BY <2>2
<1> QED
  BY <1>1, <1>2

\* F is a number, whatever the policy.
LEMMA FTypes ==
    ASSUME TypeOK, NEW id \in NodeIds
    PROVE  F(id) \in Nat
<1>1. GScore(id) \in Nat /\ H(id) \in Nat /\ problem.weight \in Nat
  BY NodeTypes, ProblemTypes DEF TypeOK, H
<1>2. problem.weight * H(id) \in Nat
  BY <1>1
<1> QED
  BY <1>1, <1>2 DEF F

\* The node being expanded is a node, and its candidate is an edge of it.
LEMMA CandidateStep ==
    ASSUME IInv, TakeCandidate
    PROVE  /\ current \in NodeIds /\ current # None /\ next \in 1..Len(CandidatesOf(current))
           /\ Candidate.config \in Configs /\ Candidate.move \in MoveSets
           /\ Candidate.cost \in Costs /\ GScore(current) \in Nat
           /\ CandidateG \in Nat /\ CandidateG = GScore(current) + Candidate.cost
<1>1. current \in NodeIds /\ next \in 1..Len(CandidatesOf(current)) /\ current # None
  <2>1. current \in closed
    BY DEF IInv, LoopInv, ControlOK, TakeCandidate
  <2>2. current \in NodeIds /\ current # None
    BY <2>1 DEF IInv, TypeOK, NodeIds, None
  <2>3. CandidatesOf(current) \in Seq(Candidates)
    BY <2>2, NodeTypes, ProblemTypes DEF IInv, TypeOK, CandidatesOf
  <2>4. Len(CandidatesOf(current)) \in Nat
    BY <2>3
  <2> QED
    BY <2>2, <2>4 DEF IInv, TypeOK, TakeCandidate
<1>2. Candidate.config \in Configs /\ Candidate.move \in MoveSets
      /\ Candidate.cost \in Costs /\ Candidate.cost \in Nat
  BY <1>1, CandidateTypes DEF IInv, Candidate
<1>3. GScore(current) \in Nat
  BY <1>1, NodeTypes DEF IInv, TypeOK
<1> QED
  BY <1>1, <1>2, <1>3 DEF CandidateG

----------------------------------------------------------------------------
\* Every step of the loop is an insert below an existing node, or leaves the
\* graph alone.
LEMMA StepsInsert ==
    ASSUME IInv, [Next]_vars
    PROVE  [GraphNext]_graphVars
<1>1. CASE InsertCandidate
  BY <1>1, CandidateStep DEF InsertCandidate, GraphNext
<1>2. CASE UNCHANGED <<nodes, seen>>
  BY <1>2 DEF graphVars
<1>3. InsertCandidate \/ UNCHANGED <<nodes, seen>>
  BY DEF Next, vars, Exhaust, StopOnBudget, FindOnPop, Prune, Expand, SkipKnown,
         AddChild, FindOnGenerate, ReceiveChildren
<1> QED
  BY <1>1, <1>2, <1>3

\* ... so the graph stays the forward-growing tree of SearchGraph.
LEMMA StepsKeepGraph ==
    ASSUME IInv, [Next]_vars
    PROVE  GraphInv'
<1>1. CASE GraphNext
  BY <1>1, InsertKeepsGraphInv DEF GraphNext, IInv
<1>2. CASE UNCHANGED graphVars
  BY <1>2 DEF IInv, graphVars, GraphInv, GraphTypeOK, TreeGrowsForward, TableIsCheapest,
              NodeIds, Config, GScore, Depth, Parent
<1> QED
  BY <1>1, <1>2, StepsInsert

\* What was known at a cost stays known at that cost, and a candidate is known
\* at its cost once it was inserted.
LEMMA KnownStaysKnown ==
    ASSUME GraphInv, NEW parent \in NodeIds, NEW move \in MoveSets,
           NEW config \in Configs, NEW g \in Nat,
           Insert(parent, move, config, g)
    PROVE  /\ \A c \in Configs, k \in Nat :
                 Rediscovered(c, k) => seen'[c] # None /\ nodes'[seen'[c]].g <= k
           /\ seen'[config] # None /\ nodes'[seen'[config]].g <= g
<1>1. /\ \A id \in NodeIds : nodes'[id] = nodes[id]
      /\ nodes'[NewId] = NodeFor(parent, move, config, g)
      /\ NewId \in Nat \ {0}
  BY InsertedNode DEF GraphInv
<1>2. /\ seen'[config] = NewId
      /\ \A c \in Configs \ {config} : seen'[c] = seen[c]
  BY DEF Insert, GraphInv, GraphTypeOK
<1>3. nodes'[NewId].g = g
  BY <1>1 DEF NodeFor
<1>4. seen'[config] # None /\ nodes'[seen'[config]].g <= g
  BY <1>1, <1>2, <1>3 DEF None
<1>5. ASSUME NEW c \in Configs, NEW k \in Nat, Rediscovered(c, k)
      PROVE  seen'[c] # None /\ nodes'[seen'[c]].g <= k
  <2>1. seen[c] \in NodeIds
    BY <1>5 DEF Rediscovered, GraphInv, GraphTypeOK, NodeIds, None
  <2>2. CASE c # config
    BY <2>1, <2>2, <1>1, <1>2, <1>5 DEF Rediscovered, GScore
  <2>3. CASE c = config
    <3>1. GScore(seen[c]) \in Nat /\ GScore(seen[c]) <= k
      BY <2>1, <1>5, NodeTypes DEF GraphInv, Rediscovered
    <3>2. g < GScore(seen[c])
      BY <1>5, <2>3, <3>1 DEF Insert, Rediscovered
    <3> QED
      BY <3>1, <3>2, <2>3, <1>1, <1>2, <1>3 DEF None
  <2> QED
    BY <2>2, <2>3
<1> QED
  BY <1>4, <1>5

----------------------------------------------------------------------------
\* The steps that only take a node from the frontier.
LEMMA HeadKeepsInv ==
    ASSUME IInv, GraphInv', RootIsFirst', Exhaust \/ StopOnBudget
    PROVE  IInv'
<1>0. /\ pc = "select" /\ pc' = "done" /\ goal = None /\ frontier' \subseteq frontier
      /\ UNCHANGED <<problem, nodes, seen, closed, current, next, children, expanded,
                     deepest, goal>>
      /\ (frontier = {} \/ OutOfBudget)
  BY DEF IInv, LoopInv, ControlOK, Exhaust, StopOnBudget
<1>1. TypeOK'
  BY <1>0 DEF IInv, TypeOK, GraphInv, NodeIds
<1>2. NeverPoppedTwice'
  BY <1>0 DEF IInv, NeverPoppedTwice
<1>3. ControlOK'
  BY <1>0 DEF IInv, LoopInv, ControlOK, BetweenExpansions, GoalOnPop, OutOfBudget,
              CandidatesOf, Config
<1>4. NoneLost'
  BY <1>0 DEF IInv, LoopInv, NoneLost, OutOfBudget, NodeIds
<1>5. GoalsCaught'
  BY <1>0 DEF IInv, LoopInv, GoalsCaught, NodeIds, GoalOnGenerate, GoalOnPop, IsGoal, Config
<1>6. EdgesRelaxed'
  BY <1>0 DEF IInv, LoopInv, EdgesRelaxed, CandidatesOf, Config, GScore, Rediscovered,
              TooDeep, Reached, Depth
<1>7. GoalWasFirst'
  BY <1>0 DEF GoalWasFirst
<1> QED
  BY <1>1, <1>2, <1>3, <1>4, <1>5, <1>6, <1>7 DEF IInv, LoopInv

\* A* returns at the pop of a goal: nothing that waits has a lower f.
LEMMA FindOnPopKeepsInv ==
    ASSUME IInv, GraphInv', RootIsFirst', NEW id \in frontier, FindOnPop(id)
    PROVE  IInv'
<1>0. id \in NodeIds /\ None \notin NodeIds /\ goal = None /\ pc = "select"
  BY NodesAndNone DEF IInv, TypeOK, LoopInv, ControlOK, FindOnPop, Close
<1>1. TypeOK'
  BY <1>0 DEF IInv, TypeOK, FindOnPop, Close, GraphInv, NodeIds
<1>2. NeverPoppedTwice'
  BY DEF IInv, NeverPoppedTwice, FindOnPop, Close
<1>3. ControlOK'
  BY <1>0 DEF IInv, LoopInv, ControlOK, BetweenExpansions, FindOnPop, Close, GoalOnPop,
         OutOfBudget, IsGoal, Config, CandidatesOf
<1>4. NoneLost'
  BY <1>0 DEF IInv, LoopInv, NoneLost, FindOnPop, Close, NodeIds
<1>5. GoalsCaught'
  BY <1>0 DEF IInv, LoopInv, GoalsCaught, FindOnPop, Close, NodeIds, GoalOnGenerate,
         GoalOnPop, IsGoal, Config
<1>6. EdgesRelaxed'
  <2>1. goal \notin closed
    BY <1>0 DEF IInv, TypeOK
  <2> QED
    BY <1>0, <2>1 DEF IInv, LoopInv, EdgesRelaxed, FindOnPop, Close, CandidatesOf, Config,
                      GScore, Rediscovered, TooDeep, Reached, Depth
<1>7. GoalWasFirst'
  <2>1. \A m \in frontier \ {id} : F(id) <= F(m)
    <3>1. ASSUME NEW m \in frontier \ {id} PROVE F(id) <= F(m)
      <4>1. m \in NodeIds /\ F(m) \in Nat /\ F(id) \in Nat
        BY <1>0, FTypes DEF IInv, TypeOK
      <4>2. Before(id, m) /\ problem.policy = "astar"
        BY DEF FindOnPop, Close, Selected, GoalOnPop
      <4>3. PriorityBefore(id, m)
        BY <4>2, Zenon DEF Before
      <4> QED
        BY <4>1, <4>3 DEF PriorityBefore
    <3> QED
      BY <3>1
  <2> QED
    BY <2>1 DEF GoalWasFirst, FindOnPop, Close, F, GScore, H, Config
<1> QED
  BY <1>1, <1>2, <1>3, <1>4, <1>5, <1>6, <1>7 DEF IInv, LoopInv

\* A pruned node is closed without candidates: only under a depth limit.
LEMMA PruneKeepsInv ==
    ASSUME IInv, GraphInv', RootIsFirst', NEW id \in frontier, Prune(id)
    PROVE  IInv'
<1>0. id \in NodeIds /\ goal = None /\ pc = "select" /\ Depth(id) \in Nat
  BY NodeTypes DEF IInv, TypeOK, LoopInv, ControlOK, Prune, Close
<1>1. TypeOK'
  BY <1>0 DEF IInv, TypeOK, Prune, Close, GraphInv, NodeIds, MaxOf
<1>2. NeverPoppedTwice'
  BY DEF IInv, NeverPoppedTwice, Prune, Close
<1>3. ControlOK'
  BY <1>0 DEF IInv, LoopInv, ControlOK, BetweenExpansions, Prune, Close, GoalOnPop,
         CandidatesOf, Config
<1>4. NoneLost'
  BY <1>0 DEF IInv, LoopInv, NoneLost, Prune, Close, NodeIds
<1>5. GoalsCaught'
  BY <1>0 DEF IInv, LoopInv, GoalsCaught, Prune, Close, NodeIds, GoalOnGenerate,
         GoalOnPop, IsGoal, Config
<1>6. EdgesRelaxed'
  <2>1. goal \notin closed
    BY <1>0, NodesAndNone DEF IInv, TypeOK
  <2>2. TooDeep(id) /\ closed' = closed \cup {id}
    BY DEF Prune, Close
  <2> QED
    BY <1>0, <2>1, <2>2 DEF IInv, LoopInv, EdgesRelaxed, Prune, CandidatesOf, Config,
                            GScore, Rediscovered, TooDeep, Reached, Depth
<1>7. GoalWasFirst'
  BY <1>0 DEF GoalWasFirst, Prune
<1> QED
  BY <1>1, <1>2, <1>3, <1>4, <1>5, <1>6, <1>7 DEF IInv, LoopInv

\* A node is expanded: all of its candidates are still to come, and the node
\* expanded before it has none left.
LEMMA ExpandKeepsInv ==
    ASSUME IInv, GraphInv', RootIsFirst', NEW id \in frontier, Expand(id)
    PROVE  IInv'
<1>0. /\ id \in NodeIds /\ id # None /\ goal = None /\ pc = "select" /\ Depth(id) \in Nat
      /\ id \notin closed
  BY NodeTypes DEF IInv, TypeOK, LoopInv, ControlOK, Expand, Close, NeverPoppedTwice, NodeIds, None
<1>1. TypeOK'
  BY <1>0 DEF IInv, TypeOK, Expand, Close, GraphInv, NodeIds, MaxOf
<1>2. NeverPoppedTwice'
  BY DEF IInv, NeverPoppedTwice, Expand, Close
<1>3. ControlOK'
  BY <1>0 DEF IInv, LoopInv, ControlOK, BetweenExpansions, Expand, Close
<1>4. NoneLost'
  BY <1>0 DEF IInv, LoopInv, NoneLost, ControlOK, BetweenExpansions, Expand, Close, NodeIds
<1>5. GoalsCaught'
  BY <1>0 DEF IInv, LoopInv, GoalsCaught, Expand, Close, NodeIds, GoalOnGenerate,
         GoalOnPop, IsGoal, Config
<1>6. EdgesRelaxed'
  <2> SUFFICES ASSUME NEW m \in closed', NEW j \in 1..Len(CandidatesOf(m))
               PROVE  \/ TooDeep(m)
                      \/ Rediscovered(CandidatesOf(m)[j].config,
                                      GScore(m) + CandidatesOf(m)[j].cost)
                      \/ m = current' /\ j >= next'
    BY DEF EdgesRelaxed, Expand, CandidatesOf, Config, GScore, Rediscovered, TooDeep, Reached, Depth
  <2>1. m \in closed \cup {id} /\ closed \subseteq NodeIds
    BY DEF Expand, Close, IInv, TypeOK
  <2>2. Len(CandidatesOf(m)) \in Nat
    BY <2>1, <1>0, NodesAndNone DEF IInv
  <2>3. CASE m = id
    BY <2>3, <2>2 DEF Expand
  <2>4. CASE m \in closed
    <3>1. ~ (m = current /\ j >= next)
      <4>1. m # None /\ next \in Nat
        BY <2>1, <2>4 DEF IInv, TypeOK, NodeIds, None
      <4>2. current # None => next > Len(CandidatesOf(current))
        BY <1>0 DEF IInv, LoopInv, ControlOK, BetweenExpansions
      <4>3. Len(CandidatesOf(m)) \in Nat /\ j \in 1..Len(CandidatesOf(m))
        BY <2>2
      <4> QED
        BY <4>1, <4>2, <4>3
    <3>2. m # goal
      BY <2>1, <2>4, <1>0 DEF IInv, TypeOK, NodeIds, None
    <3> QED
      BY <3>1, <3>2, <2>4 DEF IInv, LoopInv, EdgesRelaxed
  <2> QED
    BY <2>1, <2>3, <2>4
<1>7. GoalWasFirst'
  BY <1>0 DEF GoalWasFirst, Expand
<1> QED
  BY <1>1, <1>2, <1>3, <1>4, <1>5, <1>6, <1>7 DEF IInv, LoopInv

\* A candidate that is known at its cost or less: nothing to do.
LEMMA SkipKnownKeepsInv ==
    ASSUME IInv, GraphInv', RootIsFirst', SkipKnown
    PROVE  IInv'
<1>0. /\ current \in NodeIds /\ next \in 1..Len(CandidatesOf(current)) /\ goal = None
      /\ pc = "insert" /\ next' = next + 1
  BY CandidateStep DEF SkipKnown, TakeCandidate, IInv, LoopInv, ControlOK
<1>1. TypeOK'
  BY <1>0 DEF IInv, TypeOK, SkipKnown, GraphInv, NodeIds
<1>2. NeverPoppedTwice'
  BY DEF IInv, NeverPoppedTwice, SkipKnown
<1>3. ControlOK'
  BY <1>0 DEF IInv, LoopInv, ControlOK, BetweenExpansions, SkipKnown
<1>4. NoneLost'
  BY <1>0 DEF IInv, LoopInv, NoneLost, SkipKnown, NodeIds
<1>5. GoalsCaught'
  BY <1>0 DEF IInv, LoopInv, GoalsCaught, SkipKnown, NodeIds, GoalOnGenerate,
              GoalOnPop, IsGoal, Config
<1>6. EdgesRelaxed'
  <2> SUFFICES ASSUME NEW m \in closed \ {goal}, NEW j \in 1..Len(CandidatesOf(m))
               PROVE  \/ TooDeep(m)
                      \/ Rediscovered(CandidatesOf(m)[j].config,
                                      GScore(m) + CandidatesOf(m)[j].cost)
                      \/ m = current /\ j >= next + 1
    BY <1>0 DEF EdgesRelaxed, SkipKnown, CandidatesOf, Config, GScore, Rediscovered,
                TooDeep, Reached, Depth
  <2>1. m \in NodeIds /\ Len(CandidatesOf(m)) \in Nat /\ next \in Nat
    BY NodesAndNone DEF IInv, TypeOK
  <2>2. CASE m = current /\ j = next
    BY <2>2 DEF SkipKnown, Candidate, CandidateG
  <2>3. CASE ~ (m = current /\ j = next)
    BY <2>1, <2>3 DEF IInv, LoopInv, EdgesRelaxed
  <2> QED
    BY <2>2, <2>3
<1>7. GoalWasFirst'
  BY <1>0 DEF GoalWasFirst, SkipKnown
<1> QED
  BY <1>1, <1>2, <1>3, <1>4, <1>5, <1>6, <1>7 DEF IInv, LoopInv

\* An insert relaxes the current candidate and unsettles no other edge.
LEMMA InsertKeepsEdges ==
    ASSUME IInv, InsertCandidate, problem' = problem, closed' = closed, current' = current,
           goal = None, goal' \notin closed
    PROVE  EdgesRelaxed'
<1>0. /\ current \in NodeIds /\ next \in 1..Len(CandidatesOf(current)) /\ next' = next + 1
      /\ Candidate.config \in Configs /\ Candidate.move \in MoveSets /\ CandidateG \in Nat
      /\ Insert(current, Candidate.move, Candidate.config, CandidateG)
  BY CandidateStep DEF InsertCandidate, TakeCandidate
<1>1. \A id \in NodeIds : nodes'[id] = nodes[id]
  BY <1>0, InsertedNode DEF IInv, GraphInv
<1>2. /\ \A c \in Configs, k \in Nat :
            Rediscovered(c, k) => seen'[c] # None /\ nodes'[seen'[c]].g <= k
      /\ seen'[Candidate.config] # None /\ nodes'[seen'[Candidate.config]].g <= CandidateG
  BY <1>0, KnownStaysKnown DEF IInv
<1> SUFFICES ASSUME NEW m \in closed, NEW j \in 1..Len(CandidatesOf(m)), m \in NodeIds
             PROVE  LET c == CandidatesOf(m)[j]
                    IN  \/ TooDeep(m)
                        \/ /\ seen'[c.config] # None
                           /\ nodes'[seen'[c.config]].g <= GScore(m) + c.cost
                        \/ m = current /\ j >= next + 1
  BY <1>0, <1>1 DEF EdgesRelaxed, CandidatesOf, Config, GScore, Rediscovered, IInv, TypeOK,
                    TooDeep, Reached, Depth
<1>3. /\ CandidatesOf(m)[j].config \in Configs /\ CandidatesOf(m)[j].cost \in Nat
      /\ GScore(m) \in Nat /\ Len(CandidatesOf(m)) \in Nat /\ next \in Nat
  BY CandidateTypes, NodeTypes, NodesAndNone DEF IInv, TypeOK
<1>4. CASE m = current /\ j = next
  BY <1>2, <1>4 DEF Candidate, CandidateG
<1>5. CASE ~ (m = current /\ j = next)
  <2>1. \/ TooDeep(m)
        \/ Rediscovered(CandidatesOf(m)[j].config, GScore(m) + CandidatesOf(m)[j].cost)
        \/ m = current /\ j >= next
    BY NodesAndNone DEF IInv, LoopInv, EdgesRelaxed
  <2>2. GScore(m) + CandidatesOf(m)[j].cost \in Nat
    BY <1>3
  <2> QED
    BY <1>2, <1>3, <1>5, <2>1, <2>2
<1> QED
  BY <1>4, <1>5

\* A new child waits in new_children; it is no goal the policy would look at.
LEMMA AddChildKeepsInv ==
    ASSUME IInv, GraphInv', RootIsFirst', AddChild
    PROVE  IInv'
<1>0. /\ current \in NodeIds /\ goal = None /\ None \notin NodeIds
      /\ pc = "insert" /\ next' = next + 1 /\ next \in Nat \ {0}
      /\ Candidate.config \in Configs /\ Candidate.move \in MoveSets /\ CandidateG \in Nat
      /\ Insert(current, Candidate.move, Candidate.config, CandidateG)
  BY CandidateStep, NodesAndNone
  DEF AddChild, InsertCandidate, TakeCandidate, IInv, LoopInv, ControlOK, TypeOK
<1>1. /\ \A id \in NodeIds : nodes'[id] = nodes[id]
      /\ nodes'[NewId] = NodeFor(current, Candidate.move, Candidate.config, CandidateG)
      /\ NodeIds' = NodeIds \cup {NewId}
      /\ NewId \notin NodeIds
  BY <1>0, InsertedNode DEF IInv, GraphInv
<1>2. nodes'[NewId].config = Candidate.config
  BY <1>1 DEF NodeFor
<1>3. TypeOK'
  BY <1>0, <1>1 DEF IInv, TypeOK, AddChild, GraphInv
<1>4. NeverPoppedTwice'
  BY <1>0, <1>1 DEF IInv, NeverPoppedTwice, AddChild, TypeOK
<1>5. ControlOK'
  BY <1>0 DEF IInv, LoopInv, ControlOK, BetweenExpansions, AddChild
<1>6. NoneLost'
  BY <1>0, <1>1 DEF IInv, LoopInv, NoneLost, AddChild
<1>7. GoalsCaught'
  <2> SUFFICES ASSUME NEW m \in NodeIds \cup {NewId}, GoalOnGenerate \/ m \in closed
               PROVE  nodes'[m].config \notin problem.goals
    BY <1>0, <1>1 DEF GoalsCaught, AddChild, GoalOnGenerate, GoalOnPop, IsGoal, Config
  <2>1. CASE m = NewId
    <3>1. m \notin closed
      BY <2>1, <1>1 DEF IInv, TypeOK
    <3> QED
      BY <2>1, <3>1, <1>2 DEF AddChild
  <2>2. CASE m \in NodeIds
    BY <2>2, <1>0, <1>1 DEF IInv, LoopInv, GoalsCaught, IsGoal, Config
  <2> QED
    BY <2>1, <2>2
<1>8. EdgesRelaxed'
  BY <1>0, InsertKeepsEdges DEF AddChild, IInv, TypeOK
<1>9. GoalWasFirst'
  BY <1>0 DEF GoalWasFirst, AddChild
<1> QED
  BY <1>3, <1>4, <1>5, <1>6, <1>7, <1>8, <1>9 DEF IInv, LoopInv

\* The other policies return at the first goal they make.
LEMMA FindOnGenerateKeepsInv ==
    ASSUME IInv, GraphInv', RootIsFirst', FindOnGenerate
    PROVE  IInv'
<1>0. /\ current \in NodeIds /\ goal = None /\ None \notin NodeIds
      /\ pc = "insert" /\ next' = next + 1 /\ next \in Nat \ {0}
      /\ Candidate.config \in Configs /\ Candidate.move \in MoveSets /\ CandidateG \in Nat
      /\ Insert(current, Candidate.move, Candidate.config, CandidateG)
      /\ Depth(current) \in Nat
  BY CandidateStep, NodesAndNone, NodeTypes
  DEF FindOnGenerate, InsertCandidate, TakeCandidate, IInv, LoopInv, ControlOK, TypeOK
<1>1. /\ \A id \in NodeIds : nodes'[id] = nodes[id]
      /\ nodes'[NewId] = NodeFor(current, Candidate.move, Candidate.config, CandidateG)
      /\ NodeIds' = NodeIds \cup {NewId}
      /\ NewId \notin NodeIds
  BY <1>0, InsertedNode DEF IInv, GraphInv
<1>2. nodes'[NewId].config = Candidate.config
  BY <1>1 DEF NodeFor
<1>3. TypeOK'
  BY <1>0, <1>1 DEF IInv, TypeOK, FindOnGenerate, GraphInv, MaxOf
<1>4. NeverPoppedTwice'
  BY <1>0 DEF IInv, NeverPoppedTwice, FindOnGenerate
<1>5. ControlOK'
  <2>1. IsGoal(goal)'
    BY <1>2 DEF FindOnGenerate, IsGoal, Config
  <2>2. ~ BetweenExpansions'
    <3>1. goal' # None
      BY DEF FindOnGenerate, NewId, None, IInv, TypeOK, GraphTypeOK
    <3> QED
      BY <3>1 DEF FindOnGenerate, BetweenExpansions, GoalOnGenerate, GoalOnPop
  <2>3. goal' # None
    BY DEF FindOnGenerate, NewId, None, IInv, TypeOK, GraphTypeOK
  <2> QED
    BY <2>1, <2>2, <2>3 DEF ControlOK, FindOnGenerate
<1>6. NoneLost'
  BY <1>0, <1>1 DEF IInv, LoopInv, NoneLost, FindOnGenerate
<1>7. GoalsCaught'
  <2> SUFFICES ASSUME NEW m \in NodeIds
               PROVE  nodes'[m].config \notin problem.goals
    BY <1>0, <1>1 DEF GoalsCaught, FindOnGenerate, IsGoal, Config
  <2> QED
    BY <1>0, <1>1 DEF IInv, LoopInv, GoalsCaught, FindOnGenerate, IsGoal, Config
<1>8. EdgesRelaxed'
  BY <1>0, <1>1, InsertKeepsEdges DEF FindOnGenerate, IInv, TypeOK
<1>9. GoalWasFirst'
  BY DEF GoalWasFirst, FindOnGenerate, GoalOnGenerate, GoalOnPop
<1> QED
  BY <1>3, <1>4, <1>5, <1>6, <1>7, <1>8, <1>9 DEF IInv, LoopInv

\* The batch moves from new_children to the frontier.
LEMMA ReceiveChildrenKeepsInv ==
    ASSUME IInv, GraphInv', RootIsFirst', ReceiveChildren
    PROVE  IInv'
<1>0. goal = None /\ pc = "insert"
  BY DEF IInv, LoopInv, ControlOK, ReceiveChildren
<1>1. TypeOK'
  BY <1>0 DEF IInv, TypeOK, ReceiveChildren, GraphInv, NodeIds
<1>2. NeverPoppedTwice'
  BY DEF IInv, NeverPoppedTwice, ReceiveChildren
<1>3. ControlOK'
  BY <1>0 DEF IInv, LoopInv, ControlOK, BetweenExpansions, ReceiveChildren, CandidatesOf, Config
<1>4. NoneLost'
  BY <1>0 DEF IInv, LoopInv, NoneLost, ReceiveChildren, NodeIds
<1>5. GoalsCaught'
  BY <1>0 DEF IInv, LoopInv, GoalsCaught, ReceiveChildren, NodeIds, GoalOnGenerate,
              GoalOnPop, IsGoal, Config
<1>6. EdgesRelaxed'
  BY <1>0 DEF IInv, LoopInv, EdgesRelaxed, ReceiveChildren, CandidatesOf, Config, GScore,
              Rediscovered, TooDeep, Reached, Depth
<1>7. GoalWasFirst'
  BY <1>0 DEF GoalWasFirst, ReceiveChildren
<1> QED
  BY <1>1, <1>2, <1>3, <1>4, <1>5, <1>6, <1>7 DEF IInv, LoopInv

\* Inserts append: the root keeps its place.
LEMMA StepsKeepRoot ==
    ASSUME IInv, [Next]_vars
    PROVE  RootIsFirst'
<1>1. problem' = problem
  BY DEF Next, vars, Exhaust, StopOnBudget, FindOnPop, Prune, Expand, SkipKnown,
         AddChild, FindOnGenerate, ReceiveChildren
<1>2. CASE GraphNext
  <2>1. PICK parent \in NodeIds, move \in MoveSets, config \in Configs, cost \in Costs :
           Insert(parent, move, config, GScore(parent) + cost)
    BY <1>2 DEF GraphNext
  <2>2. GScore(parent) + cost \in Nat /\ 1 \in NodeIds
    BY NodeTypes, CostsAssumption DEF IInv, TypeOK, GraphTypeOK, NodeIds
  <2>3. nodes'[1] = nodes[1]
    BY <2>1, <2>2, InsertedNode DEF IInv, TypeOK
  <2> QED
    BY <1>1, <2>3 DEF IInv, RootIsFirst, Config
<1>3. CASE UNCHANGED graphVars
  BY <1>1, <1>3 DEF IInv, RootIsFirst, Config, graphVars
<1> QED
  BY <1>2, <1>3, StepsInsert

LEMMA StepsKeepInv ==
    ASSUME IInv, [Next]_vars
    PROVE  IInv'
<1>1. GraphInv' /\ RootIsFirst'
  BY StepsKeepGraph, StepsKeepRoot
<1>2. CASE Exhaust \/ StopOnBudget
  BY <1>1, <1>2, HeadKeepsInv
<1>3. CASE \E id \in frontier : FindOnPop(id) \/ Prune(id) \/ Expand(id)
  BY <1>1, <1>3, FindOnPopKeepsInv, PruneKeepsInv, ExpandKeepsInv
<1>4. CASE SkipKnown
  BY <1>1, <1>4, SkipKnownKeepsInv
<1>5. CASE AddChild
  BY <1>1, <1>5, AddChildKeepsInv
<1>6. CASE FindOnGenerate
  BY <1>1, <1>6, FindOnGenerateKeepsInv
<1>7. CASE ReceiveChildren
  BY <1>1, <1>7, ReceiveChildrenKeepsInv
<1>8. CASE UNCHANGED vars
  <2> USE <1>1, <1>8 DEF vars, loopVars, IInv
  <2>1. TypeOK'
    BY DEF TypeOK, GraphInv, NodeIds
  <2>2. NeverPoppedTwice'
    BY DEF NeverPoppedTwice
  <2>3. ControlOK'
    BY DEF LoopInv, ControlOK, BetweenExpansions, GoalOnPop, OutOfBudget, IsGoal, Config,
           CandidatesOf
  <2>4. NoneLost' /\ GoalsCaught'
    BY DEF LoopInv, NoneLost, GoalsCaught, OutOfBudget, NodeIds, GoalOnGenerate, GoalOnPop,
           IsGoal, Config
  <2>5. EdgesRelaxed'
    BY DEF LoopInv, EdgesRelaxed, CandidatesOf, Config, GScore, Rediscovered, TooDeep, Reached, Depth
  <2>6. GoalWasFirst'
    BY DEF LoopInv, GoalWasFirst, GoalOnPop, F, GScore, H, Config
  <2> QED
    BY <2>1, <2>2, <2>3, <2>4, <2>5, <2>6 DEF LoopInv
<1> QED
  BY <1>2, <1>3, <1>4, <1>5, <1>6, <1>7, <1>8 DEF Next

LEMMA StartInv ==
    ASSUME NEW p \in Calls, Start(p)
    PROVE  IInv
<1>0. problem = p /\ problem \in Calls /\ problem.root \in Configs
  BY DEF Start, Calls
<1>1. GraphInv
  BY <1>0, NewGraphInv DEF Start
<1>2. /\ NodeIds = {1} /\ Config(1) = problem.root
      /\ closed = {} /\ children = {} /\ current = None /\ next = 1
      /\ expanded = 0 /\ deepest = 0
      /\ \/ pc = "done" /\ goal = 1 /\ frontier = {} /\ problem.root \in problem.goals
         \/ pc = "select" /\ goal = None /\ frontier = {1} /\ problem.root \notin problem.goals
  BY <1>0 DEF Start, NewGraph, RootArena, RootTable, NodeIds, Config
<1>3. TypeOK
  BY <1>0, <1>1, <1>2 DEF TypeOK, GraphInv
<1>4. NeverPoppedTwice /\ RootIsFirst
  BY <1>2 DEF NeverPoppedTwice, RootIsFirst
<1>5. ControlOK
  BY <1>2 DEF ControlOK, IsGoal, None
<1>6. NoneLost /\ GoalsCaught /\ EdgesRelaxed /\ GoalWasFirst
  BY <1>2 DEF NoneLost, GoalsCaught, EdgesRelaxed, GoalWasFirst, IsGoal, None
<1> QED
  BY <1>1, <1>3, <1>4, <1>5, <1>6 DEF IInv, LoopInv

\* IInv holds in every state of every call of run_search.
THEOREM LoopInvariant == Spec => []IInv
<1>1. Init => IInv
  BY StartInv, ProblemsAssumption DEF Init
<1>2. IInv /\ [Next]_vars => IInv'
  BY StepsKeepInv
<1> QED
  BY <1>1, <1>2, PTL DEF Spec

----------------------------------------------------------------------------
(***************************************************************************)
(* Where the nodes come from: the invariants the theorems about paths and  *)
(* walks need besides IInv.                                                *)
(***************************************************************************)
PathInv == NodesAreCandidates /\ MovesAreCounted /\ LayerByLayer /\ EdgesLayered /\ ExpandedInDepth

\* What a step does to the arena: it makes a node of the current candidate, or
\* nothing.
LEMMA StepsGrow ==
    ASSUME IInv, [Next]_vars
    PROVE  /\ problem' = problem
           /\ \/ nodes' = nodes /\ seen' = seen
              \/ /\ InsertCandidate /\ closed' = closed /\ current' = current /\ next' = next + 1
                 /\ frontier' = frontier
                 /\ \A id \in NodeIds : nodes'[id] = nodes[id]
                 /\ nodes'[NewId] = NodeFor(current, Candidate.move, Candidate.config, CandidateG)
                 /\ NodeIds' = NodeIds \cup {NewId} /\ NewId \notin NodeIds /\ NewId \in Nat
                 /\ \A id \in NodeIds : id < NewId
                 /\ current \in NodeIds /\ current \in closed
                 /\ next \in 1..Len(CandidatesOf(current)) /\ pc = "insert" /\ goal = None
<1>1. /\ problem' = problem
      /\ \/ nodes' = nodes /\ seen' = seen
         \/ InsertCandidate /\ closed' = closed /\ current' = current /\ frontier' = frontier
  BY DEF Next, vars, loopVars, Exhaust, StopOnBudget, FindOnPop, Prune, Expand, SkipKnown,
         AddChild, FindOnGenerate, ReceiveChildren
<1>2. CASE InsertCandidate
  <2>1. /\ current \in NodeIds /\ next \in 1..Len(CandidatesOf(current))
        /\ Candidate.config \in Configs /\ Candidate.move \in MoveSets /\ CandidateG \in Nat
        /\ Insert(current, Candidate.move, Candidate.config, CandidateG)
        /\ pc = "insert" /\ next' = next + 1
    BY <1>2, CandidateStep DEF InsertCandidate, TakeCandidate
  <2>2. current \in closed /\ goal = None
    BY <2>1 DEF IInv, LoopInv, ControlOK
  <2>3. \A id \in NodeIds : id < NewId
    BY DEF IInv, TypeOK, GraphTypeOK, NodeIds, NewId
  <2> QED
    BY <1>1, <2>1, <2>2, <2>3, InsertedNode DEF IInv, GraphInv
<1> QED
  BY <1>1, <1>2

\* The parent of a node is a node.
LEMMA ParentIsNode ==
    ASSUME IInv, NEW id \in NodeIds \ {1}
    PROVE  Parent(id) \in NodeIds /\ Parent(id) < id /\ Depth(id) = Depth(Parent(id)) + 1
  BY DEF IInv, GraphInv, TreeGrowsForward, GraphTypeOK, NodeIds

LEMMA StepsKeepCandidates ==
    ASSUME IInv, NodesAreCandidates, [Next]_vars
    PROVE  NodesAreCandidates'
<1>1. CASE problem' = problem /\ nodes' = nodes
  BY <1>1 DEF NodesAreCandidates, MadeBy, CandidatesOf, Config, GScore, Parent, NodeIds
<1>2. CASE /\ problem' = problem
           /\ \A id \in NodeIds : nodes'[id] = nodes[id]
           /\ nodes'[NewId] = NodeFor(current, Candidate.move, Candidate.config, CandidateG)
           /\ NodeIds' = NodeIds \cup {NewId} /\ NewId \notin NodeIds
           /\ current \in NodeIds
           /\ next \in 1..Len(CandidatesOf(current))
  <2>1. \A id \in NodeIds : CandidatesOf(id)' = CandidatesOf(id) /\ Config(id)' = Config(id)
                            /\ GScore(id)' = GScore(id) /\ Parent(id)' = Parent(id)
    BY <1>2 DEF CandidatesOf, Config, GScore, Parent
  <2>2. ASSUME NEW id \in NodeIds \ {1}
        PROVE  \E j \in 1..Len(CandidatesOf(Parent(id))') : MadeBy(id, CandidatesOf(Parent(id))[j])'
    <3>1. PICK j \in 1..Len(CandidatesOf(Parent(id))) : MadeBy(id, CandidatesOf(Parent(id))[j])
      BY DEF NodesAreCandidates
    <3>2. Parent(id) \in NodeIds
      BY ParentIsNode
    <3>3. CandidatesOf(Parent(id))' = CandidatesOf(Parent(id)) /\ GScore(Parent(id))' = GScore(Parent(id))
      BY <2>1, <3>2 DEF CandidatesOf, Config, GScore, Parent
    <3> QED
      BY <3>1, <3>3, <2>1, <1>2 DEF MadeBy
  <2>3. PICK m : m = NewId
    OBVIOUS
  <2>4. PICK j : j = next
    OBVIOUS
  <2>5. /\ Parent(m)' = current /\ Config(m)' = Candidate.config
        /\ nodes'[m].move = Candidate.move /\ GScore(m)' = CandidateG
    BY <2>3, <1>2 DEF NodeFor, Parent, Config, GScore
  <2>6. CandidatesOf(Parent(m))' = CandidatesOf(current) /\ GScore(Parent(m))' = GScore(current)
    BY <2>5, <1>2 DEF CandidatesOf, Config, GScore, Parent
  <2>7. MadeBy(m, CandidatesOf(Parent(m))[j])'
    BY <2>4, <2>5, <2>6 DEF MadeBy, Candidate, CandidateG
  <2>8. j \in 1..Len(CandidatesOf(Parent(m)))'
    BY <2>4, <2>6, <1>2
  <2>9. \A id \in NodeIds' \ {1} : id = m \/ id \in NodeIds \ {1}
    BY <2>3, <1>2
  <2> QED
    BY <2>2, <2>7, <2>8, <2>9 DEF NodesAreCandidates
<1> QED
  BY <1>1, <1>2, StepsGrow

\* What an insert changes of what a node id reads.
LEMMA GrownReads ==
    ASSUME IInv, NEW m, m = NewId,
           \A id \in NodeIds : nodes'[id] = nodes[id],
           nodes'[NewId] = NodeFor(current, Candidate.move, Candidate.config, CandidateG)
    PROVE  /\ \A id \in NodeIds : Depth(id)' = Depth(id) /\ GScore(id)' = GScore(id) /\ Config(id)' = Config(id)
           /\ Depth(m)' = Depth(current) + 1 /\ GScore(m)' = CandidateG /\ Config(m)' = Candidate.config
  BY DEF NodeFor, Depth, GScore, Config

LEMMA StepsCountMoves ==
    ASSUME IInv, MovesAreCounted, [Next]_vars
    PROVE  MovesAreCounted'
<1> SUFFICES ASSUME PositiveCosts PROVE \A id \in NodeIds' : Depth(id)' <= GScore(id)'
  BY StepsGrow DEF MovesAreCounted, PositiveCosts
<1>1. CASE nodes' = nodes
  BY <1>1 DEF MovesAreCounted, NodeIds, Depth, GScore
<1>2. CASE InsertCandidate /\ nodes' # nodes
  <2>1. PICK m : m = NewId
    OBVIOUS
  <2>2. /\ \A id \in NodeIds : Depth(id)' = Depth(id) /\ GScore(id)' = GScore(id)
        /\ Depth(m)' = Depth(current) + 1 /\ GScore(m)' = CandidateG
        /\ NodeIds' = NodeIds \cup {m} /\ current \in NodeIds
    BY <1>2, <2>1, StepsGrow, GrownReads
  <2>3. /\ CandidateG = GScore(current) + Candidate.cost
        /\ Candidate.cost \in Nat /\ Candidate.cost > 0
    <3>1. Config(current) \in Configs /\ next \in 1..Len(problem.cands[Config(current)])
      BY <1>2, CandidateStep, NodeTypes DEF InsertCandidate, CandidatesOf, IInv, TypeOK
    <3> QED
      BY <1>2, <3>1, CandidateStep, CostsAssumption
      DEF InsertCandidate, PositiveCosts, Candidate, CandidatesOf
  <2>4. Depth(current) \in Nat /\ GScore(current) \in Nat /\ Depth(current) <= GScore(current)
    BY <2>2, NodeTypes DEF IInv, TypeOK, MovesAreCounted
  <2>5. Depth(m)' <= GScore(m)'
    BY <2>2, <2>3, <2>4
  <2> QED
    BY <2>2, <2>5 DEF MovesAreCounted
<1> QED
  BY <1>1, <1>2, StepsGrow

\* The first node that waits is the least one, in breadth-first order.
LEMMA BfsPopsFirst ==
    ASSUME IInv, problem.policy = "bfs", NEW id \in frontier, Selected(id)
    PROVE  \A m \in frontier : id = m \/ id < m
<1>1. \A m \in frontier \ {id} : Before(id, m)
  BY DEF Selected
<1>2. ASSUME NEW m \in frontier \ {id} PROVE id < m
  <2>1. BfsBefore(id, m)
    BY <1>1, <1>2, Zenon DEF Before
  <2> QED
    BY <2>1 DEF BfsBefore
<1> QED
  BY <1>2

LEMMA StepsKeepLayers ==
    ASSUME IInv, LayerByLayer, [Next]_vars
    PROVE  LayerByLayer'
<1> SUFFICES ASSUME problem.policy = "bfs" PROVE LayerByLayer'
  BY StepsGrow DEF LayerByLayer
<1>0. /\ frontier \subseteq NodeIds /\ children \subseteq NodeIds /\ closed \subseteq NodeIds
      /\ \A id \in NodeIds : id \in Nat /\ Depth(id) \in Nat
      /\ None \notin NodeIds
  BY NodeTypes, NodesAndNone DEF IInv, TypeOK
<1>1. /\ \A m, n \in NodeIds : m < n => Depth(m) <= Depth(n)
      /\ \A m \in closed, n \in frontier \cup children : m < n
      /\ \A m \in frontier, n \in NodeIds : Depth(n) <= Depth(m) + 1
      /\ pc = "insert" => \A n \in NodeIds : Depth(n) <= Depth(current) + 1
      /\ goal # None /\ goal # 1 =>
            current \in closed /\ Depth(goal) = Depth(current) + 1
  BY DEF LayerByLayer
<1>2. CASE Exhaust \/ StopOnBudget
  <2>1. /\ frontier' \subseteq frontier /\ pc' = "done"
        /\ UNCHANGED <<problem, nodes, closed, children, current, goal>>
    BY <1>2 DEF Exhaust, StopOnBudget
  <2> QED
    BY <1>1, <2>1 DEF LayerByLayer, NodeIds, Depth
<1>3. CASE \E id \in frontier : FindOnPop(id) \/ Prune(id) \/ Expand(id)
  <2>1. PICK id \in frontier : FindOnPop(id) \/ Prune(id) \/ Expand(id)
    BY <1>3
  <2>2. /\ Selected(id) /\ frontier' = frontier \ {id} /\ closed' = closed \cup {id} /\ pc = "select"
        /\ UNCHANGED <<problem, nodes>> /\ children = {}
        /\ goal = None
    BY <2>1 DEF FindOnPop, Prune, Expand, Close, IInv, NeverPoppedTwice, LoopInv, ControlOK
  <2>3. /\ \A m \in frontier : id = m \/ id < m
    BY <2>2, BfsPopsFirst
  <2>4. \A m \in closed', n \in frontier' : m < n
    BY <2>2, <2>3, <1>1
  <2>5. CASE Expand(id)
    <3>1. current' = id /\ children' = {} /\ goal' = None
      BY <2>2, <2>5 DEF Expand
    <3>2. \A n \in NodeIds : Depth(n) <= Depth(id) + 1
      BY <1>1
    <3> QED
      BY <1>1, <2>2, <2>4, <3>1, <3>2 DEF LayerByLayer, NodeIds, Depth
  <2>6. CASE Prune(id)
    <3>1. UNCHANGED <<pc, current, children, goal>>
      BY <2>6 DEF Prune
    <3> QED
      BY <1>1, <2>2, <2>4, <3>1 DEF LayerByLayer, NodeIds, Depth
  <2>7. ~ FindOnPop(id)
    BY DEF FindOnPop, GoalOnPop
  <2> QED
    BY <2>1, <2>5, <2>6, <2>7
<1>4. CASE SkipKnown \/ UNCHANGED vars
  <2>1. /\ UNCHANGED <<problem, nodes, closed, children, current, goal, frontier, pc>>
    BY <1>4 DEF SkipKnown, vars, loopVars
  <2> QED
    BY <1>1, <2>1 DEF LayerByLayer, NodeIds, Depth
<1>5. CASE AddChild \/ FindOnGenerate
  <2>1. PICK m : m = NewId
    OBVIOUS
  <2>2. /\ InsertCandidate /\ ~ (nodes' = nodes /\ seen' = seen)
    <3>1. InsertCandidate
      BY <1>5 DEF AddChild, FindOnGenerate
    <3>2. nodes' # nodes
      BY <3>1 DEF InsertCandidate, Insert, IInv, TypeOK, GraphTypeOK
    <3> QED
      BY <3>1, <3>2
  <2>3. /\ \A id \in NodeIds : Depth(id)' = Depth(id)
        /\ Depth(m)' = Depth(current) + 1
        /\ NodeIds' = NodeIds \cup {m} /\ current \in NodeIds /\ \A id \in NodeIds : id < m
        /\ current \in closed /\ pc = "insert" /\ goal = None
        /\ UNCHANGED <<problem, closed, current, frontier>>
    BY <2>1, <2>2, StepsGrow, GrownReads
  <2>4. children' \subseteq children \cup {m} /\ goal' \in {None, m}
        /\ (goal' = None => pc' = "insert") /\ (goal' # None => pc' = "done")
    <3>1. m # None
      BY <2>1 DEF NewId, None, IInv, TypeOK, GraphTypeOK
    <3>2. CASE AddChild
      BY <2>1, <2>3, <3>2 DEF AddChild
    <3>3. CASE FindOnGenerate
      BY <2>1, <2>3, <3>1, <3>3 DEF FindOnGenerate
    <3> QED
      BY <1>5, <3>2, <3>3
  <2>5. \A i, j \in NodeIds' : i < j => Depth(i)' <= Depth(j)'
    <3> SUFFICES ASSUME NEW i \in NodeIds', NEW j \in NodeIds', i < j PROVE Depth(i)' <= Depth(j)'
      OBVIOUS
    <3>1. i \in NodeIds
      BY <1>0, <2>1, <2>3 DEF NewId, IInv, TypeOK, GraphTypeOK
    <3>2. Depth(i)' = Depth(i) /\ Depth(i) <= Depth(current) + 1
      BY <1>1, <2>3, <3>1
    <3>3. CASE j = m
      BY <2>3, <3>2, <3>3
    <3>4. CASE j \in NodeIds
      BY <1>1, <2>3, <3>1, <3>4
    <3> QED
      BY <2>3, <3>3, <3>4
  <2>6. \A i \in closed', j \in frontier' \cup children' : i < j
    BY <1>0, <1>1, <2>3, <2>4
  <2>7. \A i \in frontier', j \in NodeIds' : Depth(j)' <= Depth(i)' + 1
    <3>1. \A i \in frontier : Depth(current) <= Depth(i)
      BY <1>0, <1>1, <2>3
    <3> QED
      BY <1>0, <1>1, <2>3, <3>1
  <2>8. \A n \in NodeIds' : Depth(n)' <= Depth(current)' + 1
    BY <1>0, <1>1, <2>3
  <2>9. goal' # None => current' \in closed' /\ nodes'[goal'].depth = Depth(current)' + 1
    <3>1. nodes'[m].depth = Depth(current) + 1
      BY <2>3 DEF Depth
    <3>2. Depth(current)' = Depth(current) /\ current' = current
      BY <2>3 DEF Depth
    <3> QED
      BY <2>3, <2>4, <3>1, <3>2
  <2> QED
    BY <2>5, <2>6, <2>7, <2>8, <2>9 DEF LayerByLayer, Depth
<1>6. CASE ReceiveChildren
  <2>1. /\ frontier' = frontier \cup children /\ children' = {} /\ pc' = "select" /\ pc = "insert"
        /\ UNCHANGED <<problem, nodes, closed, current, goal>>
    BY <1>6 DEF ReceiveChildren
  <2>2. \A m \in frontier \cup children : Depth(current) <= Depth(m)
    <3>1. current \in closed
      BY <2>1 DEF IInv, LoopInv, ControlOK
    <3> QED
      BY <1>0, <1>1, <3>1
  <2>3. \A m \in frontier', n \in NodeIds : Depth(n) <= Depth(m) + 1
    <3>1. current \in NodeIds
      BY <1>0, <2>1 DEF IInv, LoopInv, ControlOK
    <3> QED
      BY <1>0, <1>1, <2>1, <2>2, <3>1
  <2> QED
    BY <1>1, <2>1, <2>3 DEF LayerByLayer, NodeIds, Depth
<1> QED
  BY <1>2, <1>3, <1>4, <1>5, <1>6 DEF Next

LEMMA StepsKeepLayeredEdges ==
    ASSUME IInv, LayerByLayer, EdgesLayered, [Next]_vars
    PROVE  EdgesLayered'
<1> SUFFICES ASSUME problem.policy = "bfs",
                    NEW id \in closed', NEW j \in 1..Len(CandidatesOf(id)')
             PROVE  \/ TooDeep(id)'
                    \/ \E m \in NodeIds' : Config(m)' = CandidatesOf(id)'[j].config
                                           /\ Depth(m)' <= Depth(id)' + 1
                    \/ id = current' /\ j >= next'
  BY StepsGrow DEF EdgesLayered
<1>0. /\ closed \subseteq NodeIds /\ frontier \subseteq NodeIds /\ None \notin NodeIds
      /\ \A m \in NodeIds : Depth(m) \in Nat /\ Len(CandidatesOf(m)) \in Nat
      /\ next \in Nat
      /\ problem' = problem /\ \A m \in NodeIds : nodes'[m] = nodes[m] /\ m \in NodeIds'
  BY NodeTypes, NodesAndNone, StepsGrow DEF IInv, TypeOK, NodeIds
<1>1. \A m \in NodeIds : /\ CandidatesOf(m)' = CandidatesOf(m) /\ Depth(m)' = Depth(m)
                         /\ Config(m)' = Config(m) /\ TooDeep(m)' = TooDeep(m)
  BY <1>0 DEF CandidatesOf, Depth, Config, TooDeep, Reached
<1> DEFINE Has(m) == \E n \in NodeIds : Config(n) = CandidatesOf(m)[j].config /\ Depth(n) <= Depth(m) + 1
<1>2. ASSUME id \in closed
      PROVE  TooDeep(id) \/ Has(id) \/ (id = current /\ j >= next)
  BY <1>0, <1>1, <1>2 DEF EdgesLayered
<1>3. ASSUME id \in NodeIds, Has(id)
      PROVE  \E m \in NodeIds' : Config(m)' = CandidatesOf(id)'[j].config /\ Depth(m)' <= Depth(id)' + 1
  <2>1. PICK n \in NodeIds : Config(n) = CandidatesOf(id)[j].config /\ Depth(n) <= Depth(id) + 1
    BY <1>3
  <2> QED
    BY <1>0, <1>1, <1>3, <2>1
<1> HIDE DEF Has
<1>4. CASE Exhaust \/ StopOnBudget \/ ReceiveChildren \/ UNCHANGED vars
  <2>1. UNCHANGED <<closed, current, next>>
    BY <1>4 DEF Exhaust, StopOnBudget, ReceiveChildren, vars, loopVars
  <2> QED
    BY <1>0, <1>1, <1>2, <1>3, <2>1
<1>5. CASE \E m \in frontier : FindOnPop(m) \/ Prune(m) \/ Expand(m)
  <2>1. PICK m \in frontier : FindOnPop(m) \/ Prune(m) \/ Expand(m)
    BY <1>5
  <2>2. /\ closed' = closed \cup {m} /\ m \in NodeIds /\ pc = "select"
        /\ \/ Prune(m) /\ TooDeep(m) /\ UNCHANGED <<current, next>>
           \/ Expand(m) /\ current' = m /\ next' = 1
    BY <1>0, <2>1 DEF FindOnPop, Prune, Expand, Close, GoalOnPop
  <2>3. CASE id = m
    BY <1>0, <1>1, <2>2, <2>3
  <2>4. CASE id \in closed
    <3>1. ~ (id = current /\ j >= next)
      <4>1. current # None => next > Len(CandidatesOf(current))
        BY <2>2 DEF IInv, LoopInv, ControlOK, BetweenExpansions
      <4>2. id # None /\ j \in 1..Len(CandidatesOf(id)) /\ Len(CandidatesOf(id)) \in Nat
        BY <1>0, <1>1, <2>4
      <4> QED
        BY <1>0, <4>1, <4>2
    <3> QED
      BY <1>0, <1>1, <1>2, <1>3, <2>4, <3>1
  <2> QED
    BY <2>2, <2>3, <2>4
<1>6. CASE SkipKnown
  <2>1. /\ current \in NodeIds /\ current \in closed /\ pc = "insert" /\ next' = next + 1
        /\ UNCHANGED <<closed, current>> /\ Candidate.config \in Configs
        /\ Rediscovered(Candidate.config, CandidateG)
    BY <1>6, CandidateStep DEF SkipKnown, TakeCandidate, IInv, LoopInv, ControlOK
  <2>2. CASE id = current /\ j = next
    <3>1. /\ seen[Candidate.config] \in NodeIds
          /\ Config(seen[Candidate.config]) = Candidate.config
      BY <2>1 DEF Rediscovered, IInv, GraphInv, GraphTypeOK, TableIsCheapest, NodeIds, None
    <3>2. Depth(seen[Candidate.config]) <= Depth(current) + 1
      BY <2>1, <3>1 DEF LayerByLayer
    <3>3. Has(id)
      BY <2>2, <3>1, <3>2 DEF Has, Candidate
    <3> QED
      BY <1>3, <2>1, <2>2, <3>3
  <2>3. CASE ~ (id = current /\ j = next)
    BY <1>0, <1>1, <1>2, <1>3, <2>1, <2>3
  <2> QED
    BY <2>2, <2>3
<1>7. CASE AddChild \/ FindOnGenerate
  <2>1. PICK m : m = NewId
    OBVIOUS
  <2>2. InsertCandidate /\ ~ (nodes' = nodes /\ seen' = seen)
    <3>1. InsertCandidate
      BY <1>7 DEF AddChild, FindOnGenerate
    <3> QED
      BY <3>1 DEF InsertCandidate, Insert, IInv, TypeOK, GraphTypeOK
  <2>3. /\ Depth(m)' = Depth(current) + 1 /\ Config(m)' = Candidate.config
        /\ NodeIds' = NodeIds \cup {m} /\ current \in NodeIds
        /\ UNCHANGED <<closed, current>> /\ next' = next + 1
    BY <2>1, <2>2, StepsGrow, GrownReads
  <2>4. CASE id = current /\ j = next
    <3>1. /\ Config(m)' = CandidatesOf(id)'[j].config /\ Depth(m)' <= Depth(id)' + 1 /\ m \in NodeIds'
      BY <1>0, <1>1, <2>3, <2>4 DEF Candidate
    <3> QED
      BY <3>1
  <2>5. CASE ~ (id = current /\ j = next)
    BY <1>0, <1>1, <1>2, <1>3, <2>3, <2>5
  <2> QED
    BY <2>4, <2>5
<1> QED
  BY <1>4, <1>5, <1>6, <1>7 DEF Next

LEMMA StepsKeepInDepth ==
    ASSUME IInv, ExpandedInDepth, [Next]_vars
    PROVE  ExpandedInDepth'
<1>0. /\ problem' = problem /\ \A m \in NodeIds : nodes'[m] = nodes[m]
      /\ closed \subseteq NodeIds /\ frontier \subseteq NodeIds
  BY StepsGrow DEF IInv, TypeOK
<1>1. \A m \in NodeIds : TooDeep(m)' = TooDeep(m)
  BY <1>0 DEF TooDeep, Reached, Depth
<1>2. CASE \E m \in frontier : Expand(m)
  <2>1. PICK m \in frontier : Expand(m)
    BY <1>2
  <2> QED
    BY <1>0, <1>1, <2>1 DEF Expand, Close, ExpandedInDepth
<1>3. (current' = current /\ closed \subseteq closed') \/ (\E m \in frontier : Expand(m))
  BY DEF Next, vars, loopVars, Exhaust, StopOnBudget, FindOnPop, Prune, Close, SkipKnown,
         AddChild, FindOnGenerate, ReceiveChildren
<1> QED
  BY <1>0, <1>1, <1>2, <1>3 DEF ExpandedInDepth

LEMMA StartPathInv ==
    ASSUME NEW p \in Calls, Start(p)
    PROVE  PathInv
<1>1. /\ NodeIds = {1} /\ closed = {} /\ children = {} /\ pc # "insert"
      /\ Depth(1) = 0 /\ GScore(1) = 0 /\ goal \in {None, 1}
      /\ frontier \subseteq {1} /\ current = None
  BY DEF Start, NewGraph, RootArena, NodeIds, Depth, GScore
<1> QED
  BY <1>1 DEF PathInv, NodesAreCandidates, MovesAreCounted, LayerByLayer, EdgesLayered,
               ExpandedInDepth

LEMMA StepsKeepPathInv ==
    ASSUME IInv, PathInv, [Next]_vars
    PROVE  PathInv'
  BY StepsKeepCandidates, StepsCountMoves, StepsKeepLayers, StepsKeepLayeredEdges, StepsKeepInDepth
  DEF PathInv

\* IInv and PathInv hold in every state of every call of run_search: among
\* other things, every node of the arena was made by a candidate of its parent,
\* and breadth-first search makes them layer by layer.
THEOREM PathInvariant == Spec => [](IInv /\ PathInv)
<1>1. Init => PathInv
  BY StartPathInv, ProblemsAssumption DEF Init
<1>2. IInv /\ PathInv /\ [Next]_vars => PathInv'
  BY StepsKeepPathInv
<1> QED
  BY <1>1, <1>2, LoopInvariant, PTL DEF Spec

----------------------------------------------------------------------------
(***************************************************************************)
(* Walks.  What the table says of them is proved along their construction, *)
(* by induction on the number of moves.                                    *)
(***************************************************************************)
\* The walks of one move more.
Stepped(p, W) ==
    W \cup UNION {{<<p.cands[w[1]][j].config, w[2] + p.cands[w[1]][j].cost>> :
                               j \in 1..Len(p.cands[w[1]])} : w \in W}

\* The recursive definition of the walks is what it looks like.
LEMMA WalksAre ==
    ASSUME NEW p, NEW from, NEW n \in Nat
    PROVE  /\ Walks(p, from, 0) = {<<from, 0>>}
           /\ Walks(p, from, n + 1) = Stepped(p, Walks(p, from, n))
<1> DEFINE Solves(f, m) == f = [k \in 0..m |-> IF k = 0 THEN {<<from, 0>>} ELSE Stepped(p, f[k - 1])]
           W(m) == CHOOSE f : Solves(f, m)
<1>1. \A m \in Nat : \E f : Solves(f, m)
  <2> DEFINE S == {m \in Nat : \E f : Solves(f, m)}
  <2>1. 0 \in S
    <3>1. Solves([k \in 0..0 |-> {<<from, 0>>}], 0)
      OBVIOUS
    <3> QED BY <3>1
  <2>2. ASSUME NEW m \in Nat, m \in S PROVE m + 1 \in S
    <3>1. PICK f : Solves(f, m)
      BY <2>2
    <3> DEFINE g == [k \in 0..(m + 1) |-> IF k = m + 1 THEN Stepped(p, f[m]) ELSE f[k]]
    <3>2. ASSUME NEW k \in 0..(m + 1)
          PROVE  g[k] = IF k = 0 THEN {<<from, 0>>} ELSE Stepped(p, g[k - 1])
      <4>1. CASE k = m + 1
        <5>1. k - 1 \in 0..m /\ k - 1 = m /\ k - 1 # m + 1 /\ k # 0 /\ m \in 0..(m + 1)
          BY <4>1
        <5>2. g[k] = Stepped(p, f[m]) /\ g[m] = f[m]
          BY <5>1, <4>1
        <5> HIDE DEF g
        <5> QED BY <5>1, <5>2
      <4>2. CASE k \in 0..m /\ k # 0
        <5>1. k - 1 \in 0..m /\ k # m + 1 /\ k - 1 # m + 1 /\ k - 1 \in 0..(m + 1)
          BY <4>2
        <5>2. g[k] = f[k] /\ g[k - 1] = f[k - 1]
          BY <5>1, <4>2
        <5>3. f[k] = Stepped(p, f[k - 1])
          BY <3>1, <4>2
        <5> HIDE DEF g
        <5> QED BY <5>1, <5>2, <5>3, <4>2
      <4>3. CASE k = 0
        <5>1. f[0] = {<<from, 0>>} /\ 0 # m + 1
          BY <3>1
        <5> QED BY <5>1, <4>3
      <4> QED BY <4>1, <4>2, <4>3
    <3>3. Solves(g, m + 1)
      BY <3>2
    <3> HIDE DEF g
    <3> QED BY <3>3
  <2> HIDE DEF S
  <2>3. Nat \subseteq S
    BY <2>1, <2>2, Induction
  <2> QED BY <2>3 DEF S
<1>2. ASSUME NEW m \in Nat PROVE Solves(W(m), m)
  <2>1. PICK f : Solves(f, m)
    BY <1>1
  <2> HIDE DEF Solves
  <2> QED BY <2>1
<1>3. \A m \in Nat : Walks(p, from, m) = W(m)[m]
  BY DEF Walks, Stepped
<1> HIDE DEF W
<1>4. W(0)[0] = {<<from, 0>>}
  <2>1. Solves(W(0), 0) BY <1>2
  <2> QED BY <2>1
<1>5. \A k \in 0..n : W(n)[k] = W(n + 1)[k]
  <2> DEFINE S == {k \in Nat : k <= n => W(n)[k] = W(n + 1)[k]}
  <2>0. Solves(W(n), n) /\ Solves(W(n + 1), n + 1)
    <3>1. n + 1 \in Nat OBVIOUS
    <3> HIDE DEF Solves
    <3> QED BY <1>2, <3>1
  <2>1. 0 \in S
    BY <2>0
  <2>2. ASSUME NEW k \in Nat, k \in S PROVE k + 1 \in S
    <3>1. ASSUME k + 1 <= n PROVE W(n)[k + 1] = W(n + 1)[k + 1]
      <4>1. k + 1 \in 0..n /\ k + 1 \in 0..(n + 1) /\ k + 1 # 0 /\ (k + 1) - 1 = k /\ k <= n
        BY <3>1
      <4>2. W(n)[k + 1] = Stepped(p, W(n)[k]) /\ W(n + 1)[k + 1] = Stepped(p, W(n + 1)[k])
        BY <2>0, <4>1
      <4> QED BY <4>1, <4>2, <2>2
    <3> QED BY <3>1
  <2> HIDE DEF S
  <2>3. Nat \subseteq S
    BY <2>1, <2>2, Induction
  <2> QED BY <2>3 DEF S
<1>6. W(n + 1)[n + 1] = Stepped(p, W(n)[n])
  <2>1. Solves(W(n + 1), n + 1)
    <3>1. n + 1 \in Nat OBVIOUS
    <3> HIDE DEF Solves
    <3> QED BY <1>2, <3>1
  <2>2. W(n + 1)[n + 1] = Stepped(p, W(n + 1)[n])
    BY <2>1
  <2>3. W(n + 1)[n] = W(n)[n]
    BY <1>5
  <2> QED BY <2>2, <2>3
<1> QED
  BY <1>3, <1>4, <1>6

\* Walks are pairs of a configuration and a cost, and staying is one of them.
LEMMA WalksTypes ==
    ASSUME NEW p, p.cands \in [Configs -> Seq(Candidates)], NEW from \in Configs, NEW n \in Nat
    PROVE  /\ Walks(p, from, n) \subseteq Configs \X Nat
           /\ <<from, 0>> \in Walks(p, from, n)
<1> DEFINE S == {m \in Nat : /\ Walks(p, from, m) \subseteq Configs \X Nat
                             /\ <<from, 0>> \in Walks(p, from, m)}
<1>1. 0 \in S
  <2>1. Walks(p, from, 0) = {<<from, 0>>}
    BY WalksAre
  <2> QED
    BY <2>1
<1>2. ASSUME NEW m \in Nat, m \in S PROVE m + 1 \in S
  <2>1. Walks(p, from, m + 1) = Stepped(p, Walks(p, from, m))
    BY WalksAre
  <2>2. ASSUME NEW w \in Configs \X Nat, NEW j \in 1..Len(p.cands[w[1]])
        PROVE  <<p.cands[w[1]][j].config, w[2] + p.cands[w[1]][j].cost>> \in Configs \X Nat
    <3>1. p.cands[w[1]][j] \in Candidates /\ w[2] \in Nat
      BY <2>2
    <3>2. p.cands[w[1]][j].config \in Configs /\ p.cands[w[1]][j].cost \in Nat
      BY <3>1, CostsAssumption DEF Candidates
    <3> QED
      BY <3>1, <3>2
  <2>3. ASSUME NEW W, W \subseteq Configs \X Nat
        PROVE  W \subseteq Stepped(p, W) /\ Stepped(p, W) \subseteq Configs \X Nat
    BY <2>2, <2>3 DEF Stepped
  <2> QED
    BY <1>2, <2>1, <2>3
<1> HIDE DEF S
<1>3. Nat \subseteq S
  BY <1>1, <1>2, Induction
<1> QED
  BY <1>3 DEF S

\* The last move of a walk.
LEMMA LastMove ==
    ASSUME NEW p, NEW from, NEW n \in Nat, NEW w \in Walks(p, from, n + 1)
    PROVE  \/ w \in Walks(p, from, n)
           \/ \E v \in Walks(p, from, n) : \E j \in 1..Len(p.cands[v[1]]) :
                 w = <<p.cands[v[1]][j].config, v[2] + p.cands[v[1]][j].cost>>
  BY WalksAre DEF Stepped

LEMMA OneMoveMore ==
    ASSUME NEW p, NEW from, NEW n \in Nat, NEW v \in Walks(p, from, n)
    PROVE  /\ v \in Walks(p, from, n + 1)
           /\ \A j \in 1..Len(p.cands[v[1]]) :
                 <<p.cands[v[1]][j].config, v[2] + p.cands[v[1]][j].cost>> \in Walks(p, from, n + 1)
  BY WalksAre DEF Stepped

\* Walks by the candidates of the call: how far the table reaches along them.
\* Each is known at its cost or less, or passes a configuration that still
\* waits or is the goal returned - within the depth limit, if there is one,
\* where every move costs something.
WaysOn(c, n) == Walks(problem, c, n)
OpenAt(u, a) == seen[u] # None /\ seen[u] \in frontier \cup {goal} /\ GScore(seen[u]) <= a
PassesOpen(w, n) ==
    \E u \in Configs, a \in Nat, b \in Nat :
        OpenAt(u, a) /\ a + b = w[2] /\ <<w[1], b>> \in WaysOn(u, n)

LEMMA WalksAreCovered ==
    ASSUME IInv, PathInv, NodeIds \subseteq frontier \cup closed \cup {goal}, BetweenExpansions,
           problem.maxDepth = NoLimit \/ PositiveCosts, NEW n \in Nat
    PROVE  \A w \in WaysOn(problem.root, n) :
              problem.maxDepth = NoLimit \/ w[2] <= problem.maxDepth =>
                 Rediscovered(w[1], w[2]) \/ PassesOpen(w, n)
<1> DEFINE Limited(w) == problem.maxDepth = NoLimit \/ w[2] <= problem.maxDepth
           Covered(w, m) == Rediscovered(w[1], w[2]) \/ PassesOpen(w, m)
           S == {m \in Nat : \A w \in WaysOn(problem.root, m) : Limited(w) => Covered(w, m)}
<1>0. /\ problem.cands \in [Configs -> Seq(Candidates)] /\ problem.root \in Configs
      /\ problem.maxDepth \in Int
      /\ \A c \in Configs : seen[c] # None =>
            seen[c] \in NodeIds /\ Config(seen[c]) = c /\ GScore(seen[c]) \in Nat
      /\ \A m \in Nat, c \in Configs : WaysOn(c, m) \subseteq Configs \X Nat /\ <<c, 0>> \in WaysOn(c, m)
  <2>1. \A c \in Configs : seen[c] # None => seen[c] \in NodeIds /\ Config(seen[c]) = c
    BY DEF IInv, GraphInv, GraphTypeOK, TableIsCheapest, NodeIds, None
  <2> QED
    BY <2>1, NodeTypes, ProblemTypes, WalksTypes DEF IInv, TypeOK, WaysOn
<1>1. 0 \in S
  <2>1. 1 \in NodeIds /\ Config(1) = problem.root /\ GScore(1) = 0
    BY DEF IInv, TypeOK, GraphTypeOK, NodeIds, RootIsFirst, GraphInv, TreeGrowsForward
  <2>2. /\ seen[Config(1)] # None
        /\ 1 # seen[Config(1)] => GScore(seen[Config(1)]) < GScore(1)
    BY <2>1 DEF IInv, GraphInv, TableIsCheapest
  <2>3. Rediscovered(problem.root, 0)
    BY <1>0, <2>1, <2>2 DEF Rediscovered
  <2>4. WaysOn(problem.root, 0) = {<<problem.root, 0>>}
    BY WalksAre DEF WaysOn
  <2> QED
    BY <2>3, <2>4
<1>2. ASSUME NEW m \in Nat, m \in S PROVE m + 1 \in S
  <2> SUFFICES ASSUME NEW w \in WaysOn(problem.root, m + 1), Limited(w)
               PROVE  Covered(w, m + 1)
    BY <1>2
  <2>1. CASE w \in WaysOn(problem.root, m)
    <3>1. Covered(w, m)
      BY <1>2, <2>1
    <3>2. PassesOpen(w, m) => PassesOpen(w, m + 1)
      BY OneMoveMore DEF PassesOpen, WaysOn
    <3> QED
      BY <3>1, <3>2
  <2>2. CASE \E v \in WaysOn(problem.root, m) : \E j \in 1..Len(problem.cands[v[1]]) :
                w = <<problem.cands[v[1]][j].config, v[2] + problem.cands[v[1]][j].cost>>
    <3>0. PICK v \in WaysOn(problem.root, m) : \E j \in 1..Len(problem.cands[v[1]]) :
             w = <<problem.cands[v[1]][j].config, v[2] + problem.cands[v[1]][j].cost>>
      BY <2>2
    <3>1. PICK j \in 1..Len(problem.cands[v[1]]) :
             w = <<problem.cands[v[1]][j].config, v[2] + problem.cands[v[1]][j].cost>>
      BY <3>0
    <3> DEFINE cost == problem.cands[v[1]][j].cost
    <3>2. /\ v[1] \in Configs /\ v[2] \in Nat
          /\ problem.cands[v[1]][j].config \in Configs /\ cost \in Nat
          /\ w[1] = problem.cands[v[1]][j].config /\ w[2] = v[2] + cost
      <4>1. v \in Configs \X Nat
        BY <1>0, <3>1
      <4>2. problem.cands[v[1]][j] \in Candidates
        BY <1>0, <3>1, <4>1
      <4>3. problem.cands[v[1]][j].config \in Configs /\ cost \in Nat
        BY <4>2, CostsAssumption DEF Candidates
      <4>4. v[1] \in Configs /\ v[2] \in Nat
        BY <4>1
      <4>5. \A c, k : w = <<c, k>> => w[1] = c /\ w[2] = k
        OBVIOUS
      <4> QED
        BY <3>1, <4>3, <4>4, <4>5
    <3> HIDE DEF cost
    <3>3. Limited(v)
      BY <1>0, <3>2
    <3>4. CASE Rediscovered(v[1], v[2])
      <4> DEFINE id == seen[v[1]]
      <4>1. /\ id \in NodeIds /\ id # None /\ Config(id) = v[1] /\ GScore(id) <= v[2] /\ GScore(id) \in Nat
            /\ CandidatesOf(id) = problem.cands[v[1]]
        BY <1>0, <3>2, <3>4 DEF Rediscovered, CandidatesOf
      <4>2. CASE id \in frontier \cup {goal}
        <5>1. <<v[1], 0>> \in WaysOn(v[1], m)
          BY <1>0, <3>2
        <5>2. <<w[1], 0 + cost>> \in WaysOn(v[1], m + 1)
          BY <3>1, <3>2, <5>1, OneMoveMore DEF WaysOn, cost
        <5>3. OpenAt(v[1], v[2]) /\ v[2] + cost = w[2] /\ <<w[1], cost>> \in WaysOn(v[1], m + 1)
          BY <3>2, <4>1, <4>2, <5>2 DEF OpenAt
        <5>4. PassesOpen(w, m + 1)
          BY <3>2, <5>3 DEF PassesOpen
        <5> QED
          BY <5>4
      <4>3. CASE id \in closed \ {goal}
        <5>1. ~ TooDeep(id)
          <6>1. CASE problem.maxDepth = NoLimit
            BY <6>1 DEF TooDeep, Reached
          <6>2. CASE PositiveCosts /\ problem.maxDepth # NoLimit
            <7>1. Depth(id) <= GScore(id) /\ Depth(id) \in Nat
              BY <4>1, <6>2, NodeTypes DEF PathInv, MovesAreCounted, IInv, TypeOK
            <7>2. cost > 0 /\ w[2] <= problem.maxDepth
              BY <3>2, <6>2 DEF PositiveCosts, cost
            <7> QED
              BY <1>0, <3>2, <4>1, <7>1, <7>2 DEF TooDeep, Reached
          <6> QED
            BY <6>1, <6>2
        <5>2. ~ (id = current /\ j >= next)
          <6>1. current # None => next > Len(CandidatesOf(current))
            BY DEF IInv, LoopInv, ControlOK
          <6> QED
            BY <4>1, <6>1, NodesAndNone DEF IInv, TypeOK
        <5>3. Rediscovered(CandidatesOf(id)[j].config, GScore(id) + cost)
          BY <4>1, <4>3, <5>1, <5>2 DEF IInv, LoopInv, EdgesRelaxed, cost
        <5>4. Rediscovered(w[1], w[2])
          <6>1. seen[w[1]] # None /\ GScore(seen[w[1]]) <= GScore(id) + cost /\ w[1] \in Configs
            BY <3>2, <4>1, <5>3 DEF Rediscovered
          <6>2. GScore(seen[w[1]]) \in Nat
            BY <1>0, <6>1
          <6> QED
            BY <3>2, <4>1, <6>1, <6>2 DEF Rediscovered
        <5> QED
          BY <5>4
      <4> QED
        BY <4>1, <4>2, <4>3
    <3>5. CASE PassesOpen(v, m)
      <4>1. PICK u \in Configs, a \in Nat, b \in Nat :
               OpenAt(u, a) /\ a + b = v[2] /\ <<v[1], b>> \in WaysOn(u, m)
        BY <3>5 DEF PassesOpen
      <4>2. <<w[1], b + cost>> \in WaysOn(u, m + 1)
        BY <3>1, <3>2, <4>1, OneMoveMore DEF WaysOn, cost
      <4>3. a + (b + cost) = w[2] /\ b + cost \in Nat
        BY <3>2, <4>1
      <4>4. PassesOpen(w, m + 1)
        BY <4>1, <4>2, <4>3 DEF PassesOpen
      <4> QED
        BY <4>4
    <3>6. Covered(v, m)
      BY <1>2, <3>3
    <3> QED
      BY <3>4, <3>5, <3>6
  <2> QED
    BY <2>1, <2>2, LastMove DEF WaysOn
<1> HIDE DEF S
<1>3. Nat \subseteq S
  BY <1>1, <1>2, Induction
<1> QED
  BY <1>3 DEF S

----------------------------------------------------------------------------
\* Every value of the loop keeps its type, in a graph that stays sound.
THEOREM TypeCorrect == Spec => [](TypeOK /\ GraphInv)
<1>1. IInv => TypeOK /\ GraphInv
  BY DEF IInv
<1> QED
  BY <1>1, LoopInvariant, PTL

\* The loop uses the graph as SearchGraph allows: it implements GraphSpec.
THEOREM ImplementsGraph == Spec => GraphSpec
<1>1. Init => GraphInit
  BY ProblemsAssumption DEF Init, Start, Calls, GraphInit
<1>2. IInv /\ [Next]_vars => [GraphNext]_graphVars
  BY StepsInsert
<1> QED
  BY <1>1, <1>2, LoopInvariant, PTL DEF Spec, GraphSpec

\* No node is popped twice: the closed-set test of the code never fires.
THEOREM PoppedOnce == Spec => []NeverPoppedTwice
<1>1. IInv => NeverPoppedTwice
  BY DEF IInv
<1> QED
  BY <1>1, LoopInvariant, PTL

LEMMA UnsolvableIsExplored ==
    ASSUME IInv
    PROVE  UnsolvableIsProved
<1> SUFFICES ASSUME pc = "done", goal = None, ~ OutOfBudget, problem.maxDepth = NoLimit
             PROVE  LET explored == {c \in Configs : seen[c] # None}
                    IN  /\ problem.root \in explored
                        /\ explored \cap problem.goals = {}
                        /\ \A c \in explored : \A j \in 1..Len(problem.cands[c]) :
                              problem.cands[c][j].config \in explored
  BY DEF UnsolvableIsProved, Status
<1>1. /\ NodeIds \subseteq closed /\ goal \notin NodeIds
      /\ current # None => next > Len(CandidatesOf(current))
  BY NodesAndNone DEF IInv, LoopInv, ControlOK, NoneLost, BetweenExpansions
<1>2. problem.root \in Configs /\ seen[problem.root] # None
  <2>1. 1 \in NodeIds
    BY DEF IInv, TypeOK, GraphTypeOK, NodeIds
  <2> QED
    BY <2>1, NodeTypes DEF IInv, GraphInv, TableIsCheapest, RootIsFirst
<1>3. \A c \in Configs : seen[c] # None => seen[c] \in NodeIds /\ Config(seen[c]) = c
  BY DEF IInv, GraphInv, GraphTypeOK, TableIsCheapest, NodeIds, None
<1>4. ASSUME NEW c \in Configs, seen[c] # None PROVE c \notin problem.goals
  BY <1>1, <1>3, <1>4 DEF IInv, LoopInv, GoalsCaught, IsGoal
<1>5. ASSUME NEW c \in Configs, seen[c] # None, NEW j \in 1..Len(problem.cands[c])
      PROVE  problem.cands[c][j].config \in Configs /\ seen[problem.cands[c][j].config] # None
  <2>1. seen[c] \in NodeIds /\ CandidatesOf(seen[c]) = problem.cands[c]
    BY <1>3, <1>5 DEF CandidatesOf
  <2>2. problem.cands[c][j].config \in Configs
    BY <2>1, CandidateTypes DEF IInv
  <2>3. ~ (seen[c] = current /\ j >= next)
    BY <1>1, <2>1, NodesAndNone DEF IInv, TypeOK
  <2>4. Rediscovered(problem.cands[c][j].config, GScore(seen[c]) + problem.cands[c][j].cost)
    BY <1>1, <2>1, <2>3 DEF IInv, LoopInv, EdgesRelaxed, TooDeep, Reached
  <2> QED
    BY <2>2, <2>4 DEF Rediscovered
<1> QED
  BY <1>2, <1>4, <1>5

\* A search that reports "Unsolvable" without a depth limit leaves a proof of
\* it in its table: a set with the root, closed under candidates, without goals.
THEOREM UnsolvableTheorem == Spec => []UnsolvableIsProved
<1>1. IInv => UnsolvableIsProved
  BY UnsolvableIsExplored
<1> QED
  BY <1>1, LoopInvariant, PTL

\* Arithmetic of the potential.
LEMMA Scaling ==
    ASSUME NEW w \in Nat \ {0}, NEW a \in Nat, NEW b \in Nat
    PROVE  /\ w * a \in Nat /\ a <= w * a /\ w * 0 = 0
           /\ w * (a + b) = w * a + w * b
           /\ a <= b => w * a <= w * b
<1>1. w * a \in Nat /\ w * 0 = 0 /\ w * (a + b) = w * a + w * b
  OBVIOUS
<1>2. a <= w * a
  <2>1. PICK v \in Nat : w = v + 1
    <3>1. w - 1 \in Nat /\ w = (w - 1) + 1
      OBVIOUS
    <3> QED
      BY <3>1
  <2>2. w * a = v * a + a /\ v * a \in Nat
    BY <2>1
  <2> QED
    BY <2>2
<1>3. ASSUME a <= b PROVE w * a <= w * b
  <2>1. PICK d \in Nat : b = a + d
    <3>1. b - a \in Nat /\ b = a + (b - a)
      BY <1>3
    <3> QED
      BY <3>1
  <2>2. w * b = w * a + w * d /\ w * d \in Nat
    BY <2>1
  <2> QED
    BY <1>1, <2>2
<1> QED
  BY <1>1, <1>2, <1>3

\* A* with a consistent heuristic returns a path whose cost no path to a goal
\* undercuts by more than the weight: the potential that proves it can be read
\* off the final table, at any weight (PriorityFrontier::astar).
THEOREM AStarTheorem == Spec => []AStarCertified
<1>1. ASSUME IInv PROVE AStarCertified
  <2> SUFFICES ASSUME pc = "done", goal # None, problem.policy = "astar",
                      problem.maxDepth = NoLimit, Consistent
               PROVE  /\ Potential(problem.root) <= 0
                      /\ \A c \in Configs : \A j \in 1..Len(problem.cands[c]) :
                           Potential(problem.cands[c][j].config)
                             <= Potential(c) + problem.weight * problem.cands[c][j].cost
                      /\ \A c \in problem.goals : Potential(c) >= GScore(goal)
    BY DEF AStarCertified
  <2> DEFINE w == problem.weight
             G == GScore(goal)
             h(c) == problem.h[c]
             Ahead(c) == G - w * h(c)
  <2>1. /\ TypeOK /\ goal \in NodeIds /\ IsGoal(goal) /\ GoalOnPop
        /\ G \in Nat /\ w \in Nat \ {0} /\ Config(goal) \in Configs /\ h(Config(goal)) = 0
        /\ problem.goals \subseteq Configs
    BY <1>1, NodeTypes, ProblemTypes
    DEF IInv, TypeOK, LoopInv, ControlOK, GoalOnPop, IsGoal, Consistent
  <2>2. \A c \in Configs : h(c) \in Nat /\ w * h(c) \in Nat /\ Ahead(c) \in Int
    BY <2>1, ProblemTypes, Scaling
  <2>3. /\ NodeIds \subseteq frontier \cup closed \cup {goal}
        /\ current # None => next > Len(CandidatesOf(current))
    BY <1>1, <2>1 DEF IInv, LoopInv, ControlOK, NoneLost, BetweenExpansions
  <2>4. \A c \in Configs : seen[c] # None =>
            /\ seen[c] \in NodeIds /\ Config(seen[c]) = c
            /\ GScore(seen[c]) \in Nat /\ w * GScore(seen[c]) \in Nat
    <3>1. \A c \in Configs : seen[c] # None => seen[c] \in NodeIds /\ Config(seen[c]) = c
      BY <1>1 DEF IInv, GraphInv, GraphTypeOK, TableIsCheapest, NodeIds, None
    <3> QED
      BY <3>1, <2>1, NodeTypes, Scaling DEF TypeOK
  \* What the potential is: never more than what is ahead, nor than the way so far.
  <2>5. ASSUME NEW c \in Configs
        PROVE  /\ Potential(c) \in Int /\ Potential(c) <= Ahead(c)
               /\ seen[c] # None => Potential(c) <= w * GScore(seen[c])
               /\ \/ Potential(c) = Ahead(c)
                  \/ seen[c] # None /\ Potential(c) = w * GScore(seen[c])
    BY <2>1, <2>2, <2>4 DEF Potential, MinOf
  \* At the goal, and at what still waits, it is what is ahead.
  <2>6. ASSUME NEW c \in Configs, seen[c] # None, seen[c] \in frontier \cup {goal}
        PROVE  Potential(c) = Ahead(c)
    <3>1. Ahead(c) <= GScore(seen[c])
      <4>1. CASE seen[c] = goal
        BY <4>1, <2>1, <2>2, <2>4, Scaling
      <4>2. CASE seen[c] \in frontier
        <5>1. F(goal) <= F(seen[c])
          BY <1>1, <4>2, <2>1 DEF IInv, LoopInv, GoalWasFirst
        <5>2. F(goal) = G + w * h(Config(goal)) /\ F(seen[c]) = GScore(seen[c]) + w * h(c)
          BY <2>6, <2>4, <2>1 DEF F, H
        <5>3. w * h(Config(goal)) = 0
          BY <2>1, Scaling
        <5> QED
          BY <5>1, <5>2, <5>3, <2>1, <2>2, <2>4, <2>6
      <4> QED
        BY <2>6, <4>1, <4>2
    <3>2. GScore(seen[c]) <= w * GScore(seen[c])
      BY <2>1, <2>4, <2>6, Scaling
    <3> QED
      BY <3>1, <3>2, <2>2, <2>4, <2>5, <2>6
  <2>7. Potential(problem.root) <= 0
    <3>1. 1 \in NodeIds /\ problem.root \in Configs /\ Config(1) = problem.root /\ GScore(1) = 0
      BY <1>1, ProblemTypes
      DEF IInv, TypeOK, GraphTypeOK, NodeIds, RootIsFirst, GraphInv, TreeGrowsForward
    <3>2. seen[problem.root] # None /\ GScore(seen[problem.root]) = 0
      <4>1. /\ seen[Config(1)] # None
            /\ 1 # seen[Config(1)] => GScore(seen[Config(1)]) < GScore(1)
        BY <1>1, <3>1 DEF IInv, GraphInv, TableIsCheapest
      <4> QED
        BY <4>1, <3>1, <2>4
    <3>3. w * GScore(seen[problem.root]) = 0
      BY <3>2, <2>1, Scaling
    <3> QED
      BY <2>5, <3>1, <3>2, <3>3
  <2>8. ASSUME NEW c \in Configs, NEW j \in 1..Len(problem.cands[c])
        PROVE  Potential(problem.cands[c][j].config)
                  <= Potential(c) + w * problem.cands[c][j].cost
    <3> DEFINE d == problem.cands[c][j].config
               k == problem.cands[c][j].cost
    <3>1. d \in Configs /\ k \in Nat /\ w * k \in Nat
      <4>1. problem.cands[c] \in Seq(Candidates)
        BY <2>1, ProblemTypes
      <4>2. problem.cands[c][j] \in Candidates
        BY <4>1
      <4> QED
        BY <4>2, <2>1, CostsAssumption, Scaling DEF Candidates
    <3>2. Ahead(d) <= Ahead(c) + w * k
      <4>1. h(c) <= k + h(d) /\ h(c) \in Nat /\ h(d) \in Nat
        BY <3>1, <2>2 DEF Consistent
      <4>2. w * h(c) <= w * (k + h(d)) /\ w * (k + h(d)) = w * k + w * h(d)
        <5>1. k + h(d) \in Nat
          BY <3>1, <4>1
        <5> QED
          BY <2>1, <3>1, <4>1, <5>1, Scaling
      <4>3. w * h(c) <= w * k + w * h(d)
        BY <4>2
      <4>4. w * h(c) \in Nat /\ w * h(d) \in Nat /\ w * k \in Nat /\ G \in Nat
        BY <4>1, <2>1, <3>1, Scaling
      <4>5. \A e \in Int, u \in Int, y \in Int, z \in Int : u <= z + y => e - y <= e - u + z
        OBVIOUS
      <4> HIDE DEF w, G, h, d, k
      <4> QED
        BY <4>3, <4>4, <4>5
    <3>3. CASE Potential(c) = Ahead(c)
      BY <3>1, <3>2, <3>3, <2>2, <2>5
    <3>4. CASE seen[c] # None /\ Potential(c) = w * GScore(seen[c]) /\ Potential(c) # Ahead(c)
      <4>1. seen[c] \in closed \ {goal} /\ CandidatesOf(seen[c]) = problem.cands[c]
        BY <3>4, <2>3, <2>4, <2>6 DEF CandidatesOf
      <4>2. ~ (seen[c] = current /\ j >= next)
        BY <1>1, <4>1, <2>3, <2>4, <3>4, NodesAndNone DEF IInv, TypeOK
      <4>3. Rediscovered(d, GScore(seen[c]) + k)
        BY <1>1, <4>1, <4>2 DEF IInv, LoopInv, EdgesRelaxed, TooDeep, Reached
      <4>4. seen[d] # None /\ GScore(seen[d]) <= GScore(seen[c]) + k /\ GScore(seen[d]) \in Nat
        BY <4>3, <3>1, <2>4 DEF Rediscovered
      <4>5. w * GScore(seen[d]) <= w * (GScore(seen[c]) + k)
            /\ w * (GScore(seen[c]) + k) = w * GScore(seen[c]) + w * k
        <5>1. GScore(seen[c]) \in Nat /\ GScore(seen[c]) + k \in Nat
          BY <3>1, <3>4, <2>4
        <5> QED
          BY <5>1, <4>4, <3>1, <2>1, Scaling
      <4>6. Potential(d) <= w * GScore(seen[d])
        BY <2>5, <3>1, <4>4
      <4> QED
        BY <4>5, <4>6, <4>4, <3>1, <3>4, <2>4, <2>5
    <3> QED
      BY <3>3, <3>4, <2>5
  <2>9. ASSUME NEW c \in problem.goals
        PROVE  Potential(c) >= G
    <3>1. c \in Configs /\ Ahead(c) = G
      BY <2>1, <2>2, Scaling DEF Consistent
    <3>2. CASE seen[c] = None
      BY <3>1, <3>2, <2>1, <2>5
    <3>3. CASE seen[c] # None
      <4>1. seen[c] \in frontier \cup {goal}
        BY <1>1, <3>1, <3>3, <2>3, <2>4 DEF IInv, LoopInv, GoalsCaught, IsGoal
      <4> QED
        BY <4>1, <3>1, <3>3, <2>1, <2>6
    <3> QED
      BY <3>2, <3>3
  <2> QED
    BY <2>7, <2>8, <2>9
<1> QED
  BY <1>1, LoopInvariant, PTL

----------------------------------------------------------------------------
(***************************************************************************)
(* A* returns nothing worse than `weight` times any walk it was allowed to *)
(* take, with an admissible heuristic, consistent or not.                  *)
(***************************************************************************)
LEMMA LongestType == Configs # {} => Longest \in Nat
<1>1. ASSUME Configs # {} PROVE Cardinality(Configs) \in Nat /\ Cardinality(Configs) # 0
  BY <1>1, ConfigsAssumption, FS_CardinalityType, FS_EmptySet
<1> QED
  BY <1>1 DEF Longest

\* Once a search is over and was not cut short, every node waits, is closed or
\* is the goal.
LEMMA AllAccounted ==
    ASSUME IInv, pc = "done", goal # None \/ ~ OutOfBudget, GoalOnPop \/ goal = None
    PROVE  NodeIds \subseteq frontier \cup closed \cup {goal} /\ BetweenExpansions
<1>1. BetweenExpansions /\ children = {}
  BY DEF IInv, LoopInv, ControlOK, BetweenExpansions
<1> QED
  BY <1>1 DEF IInv, LoopInv, NoneLost

LEMMA AStarWithinDepth ==
    ASSUME IInv, PathInv, pc = "done", problem.policy = "astar", goal # None \/ ~ OutOfBudget,
           problem.maxDepth = NoLimit \/ PositiveCosts, Admissible,
           NEW w \in Walks(problem, problem.root, Longest), w[1] \in problem.goals,
           problem.maxDepth = NoLimit \/ w[2] <= problem.maxDepth
    PROVE  goal # None /\ GScore(goal) <= problem.weight * w[2]
<1>1. /\ problem.cands \in [Configs -> Seq(Candidates)] /\ problem.root \in Configs
      /\ problem.h \in [Configs -> Nat] /\ problem.weight \in Nat \ {0}
      /\ \A c \in Configs : seen[c] # None =>
            seen[c] \in NodeIds /\ Config(seen[c]) = c /\ GScore(seen[c]) \in Nat
  <2>1. \A c \in Configs : seen[c] # None => seen[c] \in NodeIds /\ Config(seen[c]) = c
    BY DEF IInv, GraphInv, GraphTypeOK, TableIsCheapest, NodeIds, None
  <2> QED
    BY <2>1, NodeTypes, ProblemTypes DEF IInv, TypeOK
<1>2. Longest \in Nat
  BY <1>1, LongestType
<1>3. /\ w[1] \in Configs /\ w[2] \in Nat
      /\ \A c \in Configs : <<c, 0>> \in WaysOn(c, Longest)
  <2>1. \A c \in Configs : Walks(problem, c, Longest) \subseteq Configs \X Nat
                            /\ <<c, 0>> \in Walks(problem, c, Longest)
    BY <1>1, <1>2, WalksTypes
  <2>2. w \in Configs \X Nat
    BY <1>1, <2>1
  <2> QED
    BY <2>1, <2>2 DEF WaysOn
<1>4. NodeIds \subseteq frontier \cup closed \cup {goal} /\ BetweenExpansions
  BY AllAccounted DEF GoalOnPop
<1>5. Rediscovered(w[1], w[2]) \/ PassesOpen(w, Longest)
  BY <1>2, <1>4, WalksAreCovered DEF WaysOn
<1>6. CASE PassesOpen(w, Longest)
  <2>1. PICK u \in Configs, a \in Nat, b \in Nat :
           OpenAt(u, a) /\ a + b = w[2] /\ <<w[1], b>> \in WaysOn(u, Longest)
    BY <1>6 DEF PassesOpen
  <2> DEFINE id == seen[u]
  <2>2. id \in NodeIds /\ Config(id) = u /\ id # None /\ GScore(id) <= a /\ GScore(id) \in Nat
        /\ id \in frontier \cup {goal}
    BY <1>1, <2>1 DEF OpenAt
  <2> HIDE DEF id
  <2>3. goal # None
    BY <2>2 DEF IInv, LoopInv, ControlOK
  <2>4. goal \in NodeIds /\ GScore(goal) \in Nat /\ H(goal) \in Nat
    BY <1>1, <2>3, NodeTypes DEF IInv, TypeOK, H
  <2>5. F(goal) <= F(id)
    BY <2>2, <2>3, <2>4, FTypes DEF IInv, LoopInv, GoalWasFirst, GoalOnPop
  <2>6. H(id) <= b /\ H(id) \in Nat
    <3>1. <<w[1], b>>[1] = w[1] /\ <<w[1], b>>[2] = b
      OBVIOUS
    <3>2. b \in GoalCosts(problem, u, Longest)
      BY <2>1, <3>1 DEF GoalCosts, WaysOn
    <3> QED
      BY <1>1, <2>1, <2>2, <3>2 DEF Admissible, H
  <2> DEFINE wt == problem.weight
  <2>7. /\ wt * H(goal) \in Nat /\ wt * H(id) \in Nat /\ wt * H(id) <= wt * b
        /\ wt * (a + b) = wt * a + wt * b /\ a <= wt * a /\ wt * a \in Nat /\ wt * b \in Nat
    BY <1>1, <2>1, <2>4, <2>6, Scaling
  <2>8. GScore(goal) + wt * H(goal) <= GScore(id) + wt * H(id)
    BY <2>5 DEF F
  <2>9. GScore(goal) <= wt * a + wt * b
    <3> DEFINE hg == wt * H(goal)
               hi == wt * H(id)
               wa == wt * a
               wb == wt * b
    <3>1. /\ hg \in Nat /\ hi \in Nat /\ hi <= wb /\ a <= wa /\ wa \in Nat /\ wb \in Nat
          /\ GScore(goal) + hg <= GScore(id) + hi /\ GScore(id) <= a
          /\ GScore(goal) \in Nat /\ GScore(id) \in Nat /\ a \in Nat
      BY <2>1, <2>2, <2>4, <2>7, <2>8
    <3> HIDE DEF hg, hi, wa, wb
    <3>2. GScore(goal) <= wa + wb
      BY <3>1
    <3> QED
      BY <3>2 DEF wa, wb
  <2> QED
    BY <2>1, <2>3, <2>7, <2>9
<1>7. CASE Rediscovered(w[1], w[2])
  <2> DEFINE id == seen[w[1]]
  <2>1. id \in NodeIds /\ id # None /\ Config(id) = w[1] /\ GScore(id) <= w[2]
    BY <1>1, <1>3, <1>7 DEF Rediscovered
  <2>2. id \in frontier \cup {goal}
    BY <1>4, <2>1 DEF IInv, LoopInv, GoalsCaught, IsGoal
  <2>3. OpenAt(w[1], w[2]) /\ w[2] + 0 = w[2] /\ <<w[1], 0>> \in WaysOn(w[1], Longest)
    BY <1>3, <2>1, <2>2 DEF OpenAt
  <2>4. PassesOpen(w, Longest)
    BY <1>3, <2>3 DEF PassesOpen
  <2> QED
    BY <1>6, <2>4
<1> QED
  BY <1>5, <1>6, <1>7

\* A* with an admissible heuristic is bounded suboptimal, whatever the weight,
\* consistent or not: the run of the loop may reopen configurations and may
\* leave superseded nodes in its heap (PriorityFrontier::astar).
THEOREM AStarBoundedTheorem == Spec => []AStarBounded
<1>1. ASSUME IInv, PathInv PROVE AStarBounded
  <2> SUFFICES ASSUME pc = "done", goal # None, problem.policy = "astar",
                      problem.maxDepth = NoLimit, Admissible,
                      NEW w \in Walks(problem, problem.root, Longest), w[1] \in problem.goals
               PROVE  GScore(goal) <= problem.weight * w[2]
    BY DEF AStarBounded, GoalCosts
  <2> QED
    BY <1>1, AStarWithinDepth
<1> QED
  BY <1>1, PathInvariant, PTL

----------------------------------------------------------------------------
\* Where every move costs one, a walk costs no more than its moves.
LEMMA UnitWalks ==
    ASSUME NEW p, p.cands \in [Configs -> Seq(Candidates)], NEW from \in Configs, NEW n \in Nat,
           \A c \in Configs : \A j \in 1..Len(p.cands[c]) : p.cands[c][j].cost = 1
    PROVE  \A w \in Walks(p, from, n) : w[2] <= n
<1> DEFINE S == {m \in Nat : \A w \in Walks(p, from, m) : w[2] <= m}
<1>1. 0 \in S
  <2>1. Walks(p, from, 0) = {<<from, 0>>}
    BY WalksAre
  <2> QED
    BY <2>1
<1>2. ASSUME NEW m \in Nat, m \in S PROVE m + 1 \in S
  <2> SUFFICES ASSUME NEW w \in Walks(p, from, m + 1) PROVE w[2] <= m + 1
    BY <1>2
  <2>1. CASE w \in Walks(p, from, m)
    <3>1. w \in Configs \X Nat /\ w[2] <= m
      BY <1>2, <2>1, WalksTypes
    <3>2. w[2] \in Nat
      BY <3>1
    <3> QED
      BY <3>1, <3>2
  <2>2. CASE \E v \in Walks(p, from, m) : \E j \in 1..Len(p.cands[v[1]]) :
                w = <<p.cands[v[1]][j].config, v[2] + p.cands[v[1]][j].cost>>
    <3>1. PICK v \in Walks(p, from, m) : \E j \in 1..Len(p.cands[v[1]]) :
                w = <<p.cands[v[1]][j].config, v[2] + p.cands[v[1]][j].cost>>
      BY <2>2
    <3>2. v \in Configs \X Nat /\ v[2] <= m
      BY <1>2, <3>1, WalksTypes
    <3>3. v[1] \in Configs /\ v[2] \in Nat
      BY <3>2
    <3>4. \A c, k : w = <<c, k>> => w[2] = k
      OBVIOUS
    <3>5. w[2] = v[2] + 1
      BY <3>1, <3>3, <3>4
    <3> QED
      BY <3>2, <3>3, <3>5
  <2> QED
    BY <2>1, <2>2, LastMove
<1> HIDE DEF S
<1>3. Nat \subseteq S
  BY <1>1, <1>2, Induction
<1> QED
  BY <1>3 DEF S

\* "Unsolvable" under a depth limit means that no walk of so many unit-cost
\* moves reaches a goal, in any pop order (run_search's max_depth).
THEOREM DepthLimitTheorem == Spec => []DepthLimitComplete
<1>1. ASSUME IInv, PathInv PROVE DepthLimitComplete
  <2> SUFFICES ASSUME pc = "done", goal = None, ~ OutOfBudget, problem.maxDepth # NoLimit, UnitCosts,
                      NEW w \in Walks(problem, problem.root, problem.maxDepth),
                      w[1] \in problem.goals
               PROVE  FALSE
    BY DEF DepthLimitComplete, GoalCosts, Status
  <2>1. /\ problem.cands \in [Configs -> Seq(Candidates)] /\ problem.root \in Configs
        /\ problem.maxDepth \in Nat
        /\ \A c \in Configs : seen[c] # None => seen[c] \in NodeIds /\ Config(seen[c]) = c
    <3>1. \A c \in Configs : seen[c] # None => seen[c] \in NodeIds /\ Config(seen[c]) = c
      BY <1>1 DEF IInv, GraphInv, GraphTypeOK, TableIsCheapest, NodeIds, None
    <3> QED
      BY <1>1, <3>1 DEF IInv, TypeOK, Calls
  <2>2. w[1] \in Configs /\ w[2] \in Nat /\ w[2] <= problem.maxDepth
    <3>1. w \in Configs \X Nat
      BY <2>1, WalksTypes
    <3>2. w[2] <= problem.maxDepth
      BY <2>1, UnitWalks DEF UnitCosts
    <3> QED
      BY <3>1, <3>2
  <2>3. PositiveCosts
    BY DEF UnitCosts, PositiveCosts
  <2>4. NodeIds \subseteq frontier \cup closed \cup {goal} /\ BetweenExpansions /\ frontier = {}
    BY <1>1, AllAccounted DEF IInv, LoopInv, ControlOK
  <2>5. Rediscovered(w[1], w[2]) \/ PassesOpen(w, problem.maxDepth)
    BY <1>1, <2>1, <2>2, <2>3, <2>4, WalksAreCovered DEF WaysOn
  <2>6. Rediscovered(w[1], w[2])
    BY <2>4, <2>5 DEF PassesOpen, OpenAt
  <2>7. seen[w[1]] \in NodeIds /\ seen[w[1]] \in closed \ {goal} /\ Config(seen[w[1]]) = w[1]
    BY <2>1, <2>2, <2>4, <2>6 DEF Rediscovered
  <2> QED
    BY <1>1, <2>7 DEF IInv, LoopInv, GoalsCaught, IsGoal
<1> QED
  BY <1>1, PathInvariant, PTL

----------------------------------------------------------------------------
\* Breadth-first search has seen, when it finds a goal, everything that fewer
\* moves reach, at its depth or above.
LEMMA NearIsSeen ==
    ASSUME IInv, PathInv, problem.policy = "bfs", pc = "done", goal # None, goal # 1,
           NEW n \in Nat
    PROVE  n < Depth(goal) =>
              \A w \in Walks(problem, problem.root, n) :
                 \E m \in NodeIds \ {goal} : Config(m) = w[1] /\ Depth(m) <= n
<1> DEFINE Near(w, k) == \E m \in NodeIds \ {goal} : Config(m) = w[1] /\ Depth(m) <= k
           S == {k \in Nat : k < Depth(goal) =>
                    \A w \in Walks(problem, problem.root, k) : Near(w, k)}
<1>0. /\ problem.cands \in [Configs -> Seq(Candidates)] /\ problem.root \in Configs
      /\ goal \in NodeIds /\ 1 \in NodeIds
      /\ \A id \in NodeIds : Depth(id) \in Nat /\ Config(id) \in Configs
  <2>1. problem.cands \in [Configs -> Seq(Candidates)] /\ problem.root \in Configs
    BY ProblemTypes DEF IInv
  <2>2. 1 \in NodeIds /\ goal \in NodeIds
    BY DEF IInv, TypeOK, GraphTypeOK, NodeIds
  <2>3. \A id \in NodeIds : Depth(id) \in Nat /\ Config(id) \in Configs
    BY NodeTypes DEF IInv, TypeOK
  <2> QED
    BY <2>1, <2>2, <2>3
<1>1. 0 \in S
  <2>1. Walks(problem, problem.root, 0) = {<<problem.root, 0>>}
    BY <1>0, WalksAre
  <2>2. Config(1) = problem.root /\ Depth(1) = 0
    BY DEF IInv, RootIsFirst, GraphInv, TreeGrowsForward
  <2> QED
    BY <1>0, <2>1, <2>2
<1>2. ASSUME NEW k \in Nat, k \in S PROVE k + 1 \in S
  <2> SUFFICES ASSUME k + 1 < Depth(goal), NEW w \in Walks(problem, problem.root, k + 1)
               PROVE  Near(w, k + 1)
    BY <1>2
  <2>0. k < Depth(goal)
    BY <1>0
  <2>1. CASE w \in Walks(problem, problem.root, k)
    <3>1. Near(w, k)
      BY <1>2, <2>0, <2>1
    <3> QED
      BY <1>0, <3>1
  <2>2. CASE \E v \in Walks(problem, problem.root, k) : \E j \in 1..Len(problem.cands[v[1]]) :
                w = <<problem.cands[v[1]][j].config, v[2] + problem.cands[v[1]][j].cost>>
    <3>1. PICK v \in Walks(problem, problem.root, k) : \E j \in 1..Len(problem.cands[v[1]]) :
                w = <<problem.cands[v[1]][j].config, v[2] + problem.cands[v[1]][j].cost>>
      BY <2>2
    <3>2. PICK j \in 1..Len(problem.cands[v[1]]) :
                w = <<problem.cands[v[1]][j].config, v[2] + problem.cands[v[1]][j].cost>>
      BY <3>1
    <3>3. w[1] = problem.cands[v[1]][j].config
      <4>1. \A c, u : w = <<c, u>> => w[1] = c
        OBVIOUS
      <4> QED
        BY <3>2, <4>1
    <3>4. PICK m \in NodeIds \ {goal} : Config(m) = v[1] /\ Depth(m) <= k
      BY <1>2, <2>0, <3>1
    <3>5. /\ current \in closed /\ current \in NodeIds /\ Depth(goal) = Depth(current) + 1
          /\ ~ TooDeep(current)
      BY NodesAndNone DEF PathInv, LayerByLayer, ExpandedInDepth, IInv, TypeOK, None
    <3>6. Depth(m) < Depth(current)
      BY <1>0, <2>0, <3>4, <3>5
    <3>7. m < current /\ m \in Int /\ current \in Int
      BY <1>0, <3>4, <3>5, <3>6 DEF PathInv, LayerByLayer, NodeIds
    <3>8. m \in closed
      <4>1. NodeIds \subseteq frontier \cup children \cup closed \cup {goal}
        BY DEF IInv, LoopInv, NoneLost
      <4>2. \A u \in frontier \cup children : current < u
        BY <3>5 DEF PathInv, LayerByLayer
      <4> QED
        BY <3>4, <3>7, <4>1, <4>2
    <3>9. ~ TooDeep(m)
      BY <1>0, <3>4, <3>5, <3>6, ProblemTypes DEF TooDeep, Reached, IInv, NoLimit
    <3>10. PICK u \in NodeIds : Config(u) = w[1] /\ Depth(u) <= Depth(m) + 1
      BY <3>3, <3>4, <3>7, <3>8, <3>9 DEF PathInv, EdgesLayered, CandidatesOf
    <3>11. Depth(u) <= k + 1 /\ u # goal
      BY <1>0, <3>4, <3>10
    <3> QED
      BY <3>10, <3>11
  <2> QED
    BY <1>0, <2>1, <2>2, LastMove
<1> HIDE DEF S
<1>3. Nat \subseteq S
  BY <1>1, <1>2, Induction
<1> QED
  BY <1>3 DEF S

\* Breadth-first search returns a path of the fewest moves, although it reopens
\* configurations by cost (BfsFrontier with SearchGraph::insert).
THEOREM BfsTheorem == Spec => []BfsFewestMoves
<1>1. ASSUME IInv, PathInv PROVE BfsFewestMoves
  <2> SUFFICES ASSUME pc = "done", goal # None, problem.policy = "bfs",
                      NEW n \in 0..(Depth(goal) - 1),
                      NEW w \in Walks(problem, problem.root, n), w[1] \in problem.goals
               PROVE  FALSE
    BY DEF BfsFewestMoves, GoalCosts
  <2>1. goal \in NodeIds /\ Depth(goal) \in Nat /\ n \in Nat /\ n < Depth(goal)
    BY <1>1, NodeTypes DEF IInv, TypeOK
  <2>2. goal # 1
    BY <1>1, <2>1 DEF IInv, GraphInv, TreeGrowsForward
  <2>3. PICK m \in NodeIds \ {goal} : Config(m) = w[1]
    BY <1>1, <2>1, <2>2, NearIsSeen
  <2> QED
    BY <1>1, <2>3 DEF IInv, LoopInv, GoalsCaught, GoalOnGenerate, GoalOnPop, IsGoal
<1> QED
  BY <1>1, PathInvariant, PTL

----------------------------------------------------------------------------
(***************************************************************************)
(* Replaying the path of a node.                                           *)
(***************************************************************************)
\* One move, from each of the pairs reached.
Follow(W, move) ==
    UNION {{<<c.config, w[2] + c.cost>> :
              c \in {d \in {problem.cands[w[1]][j] : j \in 1..Len(problem.cands[w[1]])} :
                        d.move = move}} : w \in W}

LEMMA ReplaysAre ==
    ASSUME NEW M, NEW path \in Seq(M), NEW move \in M
    PROVE  /\ Replayed(<< >>) = {<<problem.root, 0>>}
           /\ Replayed(Append(path, move)) = Follow(Replayed(path), move)
<1> DEFINE Solves(f, s, m) ==
              f = [k \in 0..m |-> IF k = 0 THEN {<<problem.root, 0>>} ELSE Follow(f[k - 1], s[k])]
           R(s) == CHOOSE f : Solves(f, s, Len(s))
<1>1. ASSUME NEW s PROVE \A m \in Nat : \E f : Solves(f, s, m)
  <2> DEFINE S == {m \in Nat : \E f : Solves(f, s, m)}
  <2>1. 0 \in S
    <3>1. Solves([k \in 0..0 |-> {<<problem.root, 0>>}], s, 0)
      OBVIOUS
    <3> QED BY <3>1
  <2>2. ASSUME NEW m \in Nat, m \in S PROVE m + 1 \in S
    <3>1. PICK f : Solves(f, s, m)
      BY <2>2
    <3> DEFINE g == [k \in 0..(m + 1) |-> IF k = m + 1 THEN Follow(f[m], s[k]) ELSE f[k]]
    <3>2. ASSUME NEW k \in 0..(m + 1)
          PROVE  g[k] = IF k = 0 THEN {<<problem.root, 0>>} ELSE Follow(g[k - 1], s[k])
      <4>1. CASE k = m + 1
        <5>1. k - 1 = m /\ m # m + 1 /\ k # 0 /\ m \in 0..(m + 1)
          BY <4>1
        <5>2. g[k] = Follow(f[m], s[k]) /\ g[m] = f[m]
          BY <5>1, <4>1
        <5> HIDE DEF g
        <5> QED BY <5>1, <5>2
      <4>2. CASE k \in 0..m /\ k # 0
        <5>1. k - 1 \in 0..m /\ k # m + 1 /\ k - 1 # m + 1 /\ k - 1 \in 0..(m + 1)
          BY <4>2
        <5>2. g[k] = f[k] /\ g[k - 1] = f[k - 1]
          BY <5>1, <4>2
        <5>3. f[k] = Follow(f[k - 1], s[k])
          BY <3>1, <4>2
        <5> HIDE DEF g
        <5> QED BY <5>1, <5>2, <5>3, <4>2
      <4>3. CASE k = 0
        <5>1. f[0] = {<<problem.root, 0>>} /\ 0 # m + 1
          BY <3>1
        <5> QED BY <5>1, <4>3
      <4> QED BY <4>1, <4>2, <4>3
    <3>3. Solves(g, s, m + 1)
      BY <3>2
    <3> HIDE DEF g
    <3> QED BY <3>3
  <2> HIDE DEF S
  <2>3. Nat \subseteq S
    BY <2>1, <2>2, Induction
  <2> QED BY <2>3 DEF S
<1>2. ASSUME NEW N, NEW s \in Seq(N) PROVE Solves(R(s), s, Len(s))
  <2>0. Len(s) \in Nat
    BY <1>2
  <2>1. PICK f : Solves(f, s, Len(s))
    <3> HIDE DEF Solves
    <3> QED BY <1>1, <2>0
  <2> HIDE DEF Solves
  <2> QED BY <2>1
<1>3. \A s : Replayed(s) = R(s)[Len(s)]
  BY DEF Replayed, Follow
<1> HIDE DEF R
<1>4. Replayed(<< >>) = {<<problem.root, 0>>}
  <2>1. << >> \in Seq(M) /\ Len(<< >>) = 0
    OBVIOUS
  <2>2. Solves(R(<< >>), << >>, 0)
    BY <1>2, <2>1
  <2> QED BY <1>3, <2>1, <2>2
<1> DEFINE longer == Append(path, move)
           n == Len(path)
<1>5. /\ longer \in Seq(M) /\ Len(longer) = n + 1 /\ n \in Nat /\ longer[n + 1] = move
      /\ \A k \in 1..n : longer[k] = path[k]
  OBVIOUS
<1>6. Solves(R(path), path, n) /\ Solves(R(longer), longer, n + 1)
  <2> HIDE DEF longer, Solves
  <2> QED BY <1>2, <1>5
<1> HIDE DEF longer, n
<1>7. \A k \in 0..n : R(path)[k] = R(longer)[k]
  <2> DEFINE S == {k \in Nat : k <= n => R(path)[k] = R(longer)[k]}
  <2>1. 0 \in S
    BY <1>5, <1>6
  <2>2. ASSUME NEW k \in Nat, k \in S PROVE k + 1 \in S
    <3>1. ASSUME k + 1 <= n PROVE R(path)[k + 1] = R(longer)[k + 1]
      <4>1. k + 1 \in 0..n /\ k + 1 \in 0..(n + 1) /\ k + 1 # 0 /\ (k + 1) - 1 = k /\ k <= n /\ k + 1 \in 1..n
        BY <1>5, <3>1
      <4>2. R(path)[k + 1] = Follow(R(path)[k], path[k + 1])
            /\ R(longer)[k + 1] = Follow(R(longer)[k], longer[k + 1])
        BY <1>6, <4>1
      <4> QED BY <4>1, <4>2, <2>2, <1>5
    <3> QED BY <3>1
  <2> HIDE DEF S
  <2>3. Nat \subseteq S
    BY <2>1, <2>2, Induction
  <2> QED BY <2>3, <1>5 DEF S
<1>8. Replayed(longer) = Follow(Replayed(path), move)
  <2>1. R(longer)[n + 1] = Follow(R(longer)[n], move)
    <3>1. n + 1 \in 0..(n + 1) /\ n + 1 # 0 /\ (n + 1) - 1 = n
      BY <1>5
    <3>2. R(longer)[n + 1] = Follow(R(longer)[n], longer[n + 1])
      BY <1>6, <3>1
    <3> QED BY <1>5, <3>2
  <2>2. R(longer)[n] = R(path)[n]
    BY <1>5, <1>7
  <2> QED BY <1>3, <1>5, <2>1, <2>2 DEF n
<1> QED
  BY <1>4, <1>8 DEF longer

\* The path of every node, found or superseded, leads from the root to it, in
\* as many moves as it is deep and at the cost it is booked with.
LEMMA PathsReplay ==
    ASSUME IInv, PathInv
    PROVE  \A id \in NodeIds :
              /\ ReconstructPath(id) \in Seq(MoveSets)
              /\ Len(ReconstructPath(id)) = Depth(id)
              /\ <<Config(id), GScore(id)>> \in Replayed(ReconstructPath(id))
<1> DEFINE Replays(id) == /\ ReconstructPath(id) \in Seq(MoveSets)
                          /\ Len(ReconstructPath(id)) = Depth(id)
                          /\ <<Config(id), GScore(id)>> \in Replayed(ReconstructPath(id))
           S == {k \in Nat : \A id \in NodeIds : id <= k => Replays(id)}
<1> HIDE DEF Replays
<1>0. /\ Len(nodes) \in Nat /\ NodeIds = 1..Len(nodes)
      /\ Config(1) = problem.root /\ GScore(1) = 0 /\ Depth(1) = 0
      /\ \A id \in NodeIds \ {1} : Parent(id) \in 1..(id - 1) /\ Depth(id) = Depth(Parent(id)) + 1
  BY DEF IInv, GraphInv, GraphTypeOK, TreeGrowsForward, RootIsFirst, NodeIds
<1>1. 0 \in S
  BY <1>0
<1>2. ASSUME NEW k \in Nat, k \in S PROVE k + 1 \in S
  <2> SUFFICES ASSUME NEW id \in NodeIds, id = k + 1 PROVE Replays(id)
    BY <1>0, <1>2
  <2>1. CASE id = 1
    <3>1. ReconstructPath(1) = << >>
      BY PathsAre DEF IInv
    <3>2. << >> \in Seq(MoveSets) /\ Len(<< >>) = 0
      OBVIOUS
    <3>3. <<problem.root, 0>> \in Replayed(<< >>)
      <4>1. PICK m : m \in {0}
        OBVIOUS
      <4>2. << >> \in Seq({0})
        OBVIOUS
      <4> QED
        BY <4>1, <4>2, ReplaysAre
    <3> QED
      BY <1>0, <2>1, <3>1, <3>2, <3>3 DEF Replays
  <2>2. CASE id # 1
    <3> DEFINE par == Parent(id)
               path == ReconstructPath(par)
               move == nodes[id].move
    <3>1. par \in NodeIds /\ par <= k /\ Depth(id) = Depth(par) + 1
      BY <1>0, <2>2
    <3>2. Replays(par)
      BY <1>2, <3>1
    <3>3. PICK j \in 1..Len(CandidatesOf(par)) : MadeBy(id, CandidatesOf(par)[j])
      BY <2>2 DEF PathInv, NodesAreCandidates
    <3> DEFINE cand == CandidatesOf(par)[j]
    <3>4. cand.move \in MoveSets /\ Config(id) = cand.config /\ move = cand.move
          /\ GScore(id) = GScore(par) + cand.cost
      BY <3>1, <3>3, CandidateTypes DEF MadeBy, IInv
    <3>5. ReconstructPath(id) = Append(path, move)
      BY <2>2, PathsAre DEF IInv
    <3>6. Replayed(Append(path, move)) = Follow(Replayed(path), move)
      BY <3>2, <3>4, ReplaysAre DEF Replays
    <3>7. <<Config(id), GScore(id)>> \in Follow(Replayed(path), move)
      <4> DEFINE w == <<Config(par), GScore(par)>>
      <4>1. w \in Replayed(path) /\ w[1] = Config(par) /\ w[2] = GScore(par)
        BY <3>2 DEF Replays
      <4>2. cand \in {d \in {problem.cands[w[1]][i] : i \in 1..Len(problem.cands[w[1]])} : d.move = move}
        BY <3>3, <3>4, <4>1 DEF CandidatesOf
      <4>3. <<Config(id), GScore(id)>> = <<cand.config, w[2] + cand.cost>>
        BY <3>4, <4>1
      <4> HIDE DEF w, cand, move, path
      <4> QED
        BY <4>1, <4>2, <4>3 DEF Follow
    <3>8. Append(path, move) \in Seq(MoveSets) /\ Len(Append(path, move)) = Len(path) + 1
      <4>1. path \in Seq(MoveSets) /\ move \in MoveSets
        BY <3>2, <3>4 DEF Replays
      <4> HIDE DEF path, move
      <4> QED
        BY <4>1
    <3> QED
      BY <3>1, <3>2, <3>5, <3>6, <3>7, <3>8 DEF Replays
  <2> QED
    BY <2>1, <2>2
<1> HIDE DEF S
<1>3. Nat \subseteq S
  BY <1>1, <1>2, Induction
<1>4. ASSUME NEW id \in NodeIds PROVE Replays(id)
  <2>1. id \in Nat /\ id <= id
    BY <1>0
  <2>2. id \in S
    BY <1>3, <2>1
  <2> QED
    BY <2>1, <2>2 DEF S
<1> QED
  BY <1>4 DEF Replays

\* What a caller gets can be executed: the returned moves lead from the root to
\* the goal at the cost reported (reconstruct_path, extract in restarts.rs).
THEOREM PathReplaysTheorem == Spec => []PathReplays
<1>1. ASSUME IInv, PathInv PROVE PathReplays
  <2> SUFFICES ASSUME pc = "done", goal # None
               PROVE  /\ IsGoal(goal)
                      /\ Len(ReconstructPath(goal)) = Depth(goal)
                      /\ <<Config(goal), GScore(goal)>> \in Replayed(ReconstructPath(goal))
    BY DEF PathReplays
  <2>1. goal \in NodeIds /\ IsGoal(goal)
    BY <1>1 DEF IInv, TypeOK, LoopInv, ControlOK
  <2> QED
    BY <1>1, <2>1, PathsReplay
<1> QED
  BY <1>1, PathInvariant, PTL

----------------------------------------------------------------------------
(***************************************************************************)
(* pick_best.  What it is given is a sequence of records with a status and *)
(* a cost; their other fields do not matter.                               *)
(***************************************************************************)
IsResults(rs) ==
    /\ \E S : rs \in Seq(S)
    /\ \A i \in 1..Len(rs) : rs[i].cost \in Nat

LEMMA PickBestIsBest ==
    ASSUME NEW rs, IsResults(rs), Len(rs) >= 1
    PROVE  \E i \in 1..Len(rs) : PickBest(rs) = rs[i] /\ \A j \in 1..Len(rs) : ~ Better(rs[j], rs[i])
<1> DEFINE I == 1..Len(rs)
           Solved == {i \in I : rs[i].status = "Solved"}
           Leading == IF Solved = {} THEN I ELSE Solved
           Prices == {rs[i].cost : i \in Leading}
<1>0. Len(rs) \in Nat /\ 1 \in I
  BY DEF IsResults
<1>1. Leading # {} /\ Leading \subseteq I
  BY <1>0
<1>2. Prices \in SUBSET Nat /\ Prices # {}
  BY <1>1 DEF IsResults
<1>3. PICK price \in Prices : \A p \in Prices : price <= p
  BY <1>2, LeastNumber
<1> DEFINE Cheapest == {i \in Leading : rs[i].cost = price}
<1>4. Cheapest \in SUBSET Nat /\ Cheapest # {}
  BY <1>1, <1>3
<1>5. PICK first \in Cheapest : \A i \in Cheapest : first <= i
  BY <1>4, LeastNumber
<1>6. first \in I /\ rs[first].cost = price /\ price \in Nat
  BY <1>1, <1>2, <1>3, <1>5
<1>7. ASSUME NEW j \in I PROVE ~ Better(rs[j], rs[first])
  <2>1. CASE j \in Leading
    <3>1. price <= rs[j].cost /\ rs[j].cost \in Nat
      BY <2>1, <1>3 DEF IsResults
    <3>2. rs[j].status = "Solved" <=> rs[first].status = "Solved"
      BY <2>1, <1>5
    <3> QED
      BY <3>1, <3>2, <1>6 DEF Better
  <2>2. CASE j \notin Leading
    <3>1. rs[j].status # "Solved" /\ rs[first].status = "Solved"
      BY <2>2, <1>5, <1>7
    <3> QED
      BY <3>1 DEF Better
  <2> QED
    BY <2>1, <2>2
<1>8. ASSUME NEW j \in 1..(first - 1) PROVE Better(rs[first], rs[j])
  <2>0. j \in I /\ j < first /\ rs[j].cost \in Nat
    BY <1>0, <1>6, <1>8 DEF IsResults
  <2>1. CASE j \in Leading
    <3>1. j \notin Cheapest
      <4>1. first \in Nat /\ j \in Nat
        BY <2>0, <1>0, <1>6
      <4>2. ~ (first <= j)
        BY <2>0, <4>1
      <4> HIDE DEF Cheapest
      <4> QED
        BY <4>2, <1>5
    <3>2. rs[j].cost > price
      <4>1. rs[j].cost # price
        BY <2>1, <3>1
      <4>2. price <= rs[j].cost
        BY <2>1, <1>3
      <4> HIDE DEF Cheapest, Prices, Leading, Solved
      <4> QED
        BY <4>1, <4>2, <2>0, <1>6
    <3>3. rs[j].status = "Solved" <=> rs[first].status = "Solved"
      BY <2>1, <1>5
    <3> QED
      BY <3>2, <3>3, <1>6 DEF Better
  <2>2. CASE j \notin Leading
    <3>1. rs[j].status # "Solved" /\ rs[first].status = "Solved"
      BY <2>0, <2>2, <1>5
    <3> QED
      BY <3>1 DEF Better
  <2> QED
    BY <2>1, <2>2
<1>9. \E i \in I : /\ \A j \in I : ~ Better(rs[j], rs[i])
                   /\ \A j \in 1..(i - 1) : Better(rs[i], rs[j])
  BY <1>6, <1>7, <1>8
<1> HIDE DEF I
<1>10. PickBest(rs) = rs[CHOOSE i \in I : /\ \A j \in I : ~ Better(rs[j], rs[i])
                                         /\ \A j \in 1..(i - 1) : Better(rs[i], rs[j])]
  BY DEF PickBest, I
<1> QED
  BY <1>9, <1>10 DEF I

\* The same, read as what the caller of pick_best relies on.
LEMMA PickBestKeeps ==
    ASSUME NEW rs, IsResults(rs), Len(rs) >= 1
    PROVE  /\ PickBest(rs).cost \in Nat
           /\ PickBest(rs).status = "Solved" <=> \E i \in 1..Len(rs) : rs[i].status = "Solved"
           /\ \A i \in 1..Len(rs) : rs[i].status = "Solved" => PickBest(rs).cost <= rs[i].cost
<1>1. PICK k \in 1..Len(rs) : PickBest(rs) = rs[k] /\ \A j \in 1..Len(rs) : ~ Better(rs[j], rs[k])
  BY PickBestIsBest
<1>2. rs[k].cost \in Nat
  BY <1>1 DEF IsResults
<1>3. ASSUME NEW i \in 1..Len(rs), rs[i].status = "Solved"
      PROVE  rs[k].status = "Solved" /\ rs[k].cost <= rs[i].cost
  <2>1. ~ Better(rs[i], rs[k]) /\ rs[i].cost \in Nat
    BY <1>1 DEF IsResults
  <2>2. rs[k].status = "Solved"
    BY <2>1, <1>3 DEF Better
  <2> QED
    BY <1>2, <1>3, <2>1, <2>2 DEF Better
<1> QED
  BY <1>1, <1>2, <1>3

----------------------------------------------------------------------------
(***************************************************************************)
(* The invariant: a call of run_search is always under way, so that its    *)
(* invariant holds, and the results so far are results.                    *)
(***************************************************************************)
SolveInv ==
    /\ IInv
    /\ IsRequest(request)
    /\ stage \in {"runs", "refine", "returned"}
    /\ IsResults(results)
    /\ stage = "runs" => Len(results) < Runs(request)
    /\ stage = "refine" =>
          Len(results) >= 1 /\ \E i \in 1..Len(results) : results[i].status = "Solved"
    /\ AnswerIsBest

LEMMA StartsHoldInv == \A p \in Calls : Start(p) => IInv
  BY StartInv

LEMMA StartsHoldInvNext == \A p \in Calls : Start(p)' => IInv'
<1>1. (\A p \in Calls : Start(p) => IInv)'
  BY StartsHoldInv, PTL
<1> QED
  BY <1>1

LEMMA StartNextInv ==
    ASSUME NEW p \in Calls, StartNext(p)
    PROVE  IInv'
<1>1. Start(p)'
  BY DEF StartNext, Start, NewGraph
<1> QED
  BY <1>1, StartsHoldInvNext

\* What a run adds to the results is a result.
LEMMA AllResultsTypes ==
    ASSUME IInv, IsResults(results)
    PROVE  /\ IsResults(AllResults)
           /\ Len(AllResults) = Len(results) + 1
           /\ \A i \in 1..Len(results) : AllResults[i] = results[i]
<1>1. Extracted.cost \in Nat
  BY NodeTypes DEF IInv, TypeOK, Extracted
<1>2. PICK S : results \in Seq(S)
  BY DEF IsResults
<1> DEFINE T == S \cup {Extracted}
<1>3. results \in Seq(T) /\ Extracted \in T
  BY <1>2
<1> HIDE DEF T
<1>4. /\ AllResults \in Seq(T) /\ Len(AllResults) = Len(results) + 1
      /\ \A i \in 1..Len(results) : AllResults[i] = results[i]
      /\ AllResults[Len(results) + 1] = Extracted
  BY <1>3 DEF AllResults
<1>5. ASSUME NEW i \in 1..Len(AllResults) PROVE AllResults[i].cost \in Nat
  <2>1. Len(results) \in Nat
    BY <1>2
  <2>2. CASE i = Len(results) + 1
    BY <2>2, <1>1, <1>4
  <2>3. CASE i \in 1..Len(results)
    BY <2>3, <1>4 DEF IsResults
  <2> QED
    BY <2>1, <2>2, <2>3, <1>4, <1>5
<1> QED
  BY <1>4, <1>5 DEF IsResults

\* The calls a request makes are calls.
LEMMA CallTypes ==
    ASSUME NEW r, IsRequest(r)
    PROVE  /\ Runs(r) \in Nat /\ Runs(r) >= 1
           /\ \A i \in 0..(Runs(r) - 1) : RunProblem(r, i) \in Calls
           /\ r.strategy = "cascade" => \A cost \in Nat : RefineProblem(r, cost) \in Calls
<1>1. Runs(r) \in Nat /\ Runs(r) >= 1
  BY DEF IsRequest, Runs, MaxOf
<1>2. ASSUME r.strategy = "cascade", NEW cost \in Nat PROVE RefineProblem(r, cost) \in Calls
  <2>1. RefineProblem(r, 0) \in Calls
    BY <1>2 DEF IsRequest
  <2> QED
    BY <2>1 DEF RefineProblem, Calls
<1> QED
  BY <1>1, <1>2 DEF IsRequest

LEMMA SolveInitInv ==
    ASSUME SolveInit
    PROVE  SolveInv
<1>1. PICK r \in Requests : /\ request = r /\ stage = "runs" /\ results = << >>
                            /\ Start(RunProblem(r, 0))
  BY DEF SolveInit
<1>2. IsRequest(r) /\ Runs(r) \in Nat /\ Runs(r) >= 1 /\ RunProblem(r, 0) \in Calls
  BY RequestsAssumption, CallTypes
<1>3. IInv
  BY <1>1, <1>2, StartInv
<1>4. IsResults(results) /\ Len(results) = 0
  <2>1. << >> \in Seq({}) /\ Len(<< >>) = 0
    OBVIOUS
  <2> QED
    BY <2>1, <1>1 DEF IsResults
<1> QED
  BY <1>1, <1>2, <1>3, <1>4 DEF SolveInv, AnswerIsBest, Returned

LEMMA SolveStepsKeepInv ==
    ASSUME SolveInv, [SolveNext]_<<vars, solveVars>>
    PROVE  SolveInv'
<1>0. /\ IInv /\ IsRequest(request) /\ IsResults(results)
      /\ Runs(request) \in Nat /\ Len(results) \in Nat
  BY CallTypes DEF SolveInv, IsResults
<1>1. /\ IsResults(AllResults) /\ Len(AllResults) = Len(results) + 1
      /\ \A i \in 1..Len(results) : AllResults[i] = results[i]
  BY <1>0, AllResultsTypes
<1>2. /\ PickBest(AllResults).cost \in Nat
      /\ PickBest(AllResults).status = "Solved"
            <=> \E i \in 1..Len(AllResults) : AllResults[i].status = "Solved"
      /\ \A i \in 1..Len(AllResults) :
            AllResults[i].status = "Solved" => PickBest(AllResults).cost <= AllResults[i].cost
  <2>1. IsResults(AllResults) /\ Len(AllResults) >= 1
    BY <1>0, <1>1
  <2>2. ASSUME NEW rs, rs = AllResults
        PROVE  /\ PickBest(rs).cost \in Nat
               /\ PickBest(rs).status = "Solved"
                     <=> \E i \in 1..Len(rs) : rs[i].status = "Solved"
               /\ \A i \in 1..Len(rs) :
                     rs[i].status = "Solved" => PickBest(rs).cost <= rs[i].cost
    <3>1. IsResults(rs) /\ Len(rs) >= 1
      BY <2>1, <2>2
    <3> QED
      BY <3>1, PickBestKeeps, Zenon
  <2> QED
    BY <2>2, Zenon
<1>3. CASE Search \/ UNCHANGED <<vars, solveVars>>
  <2>1. [Next]_vars /\ UNCHANGED solveVars
    BY <1>3 DEF Search
  <2>2. IInv'
    BY <2>1, <1>0, StepsKeepInv
  <2> QED
    BY <2>1, <2>2 DEF SolveInv, solveVars, IsResults, AnswerIsBest, Returned
<1>4. CASE NextRun
  <2>1. Len(AllResults) \in 0..(Runs(request) - 1)
    BY <1>0, <1>1, <1>4 DEF NextRun, Ended, IsLast, SolveInv
  <2>2. RunProblem(request, Len(AllResults)) \in Calls
    BY <1>0, <2>1, CallTypes
  <2>3. IInv'
    BY <1>4, <2>2, StartNextInv DEF NextRun
  <2>4. results' = AllResults /\ stage = "runs" /\ UNCHANGED <<request, stage, answer>>
    BY <1>4 DEF NextRun, Ended
  <2>5. IsResults(results)'
    BY <2>4, <1>1 DEF IsResults
  <2> QED
    BY <1>0, <2>1, <2>3, <2>4, <2>5 DEF SolveInv, AnswerIsBest, Returned
<1>5. CASE Refine
  <2>1. /\ request.strategy = "cascade" /\ PickBest(AllResults).status = "Solved"
        /\ StartNext(RefineProblem(request, PickBest(AllResults).cost))
        /\ results' = AllResults /\ stage' = "refine" /\ UNCHANGED <<request, answer>>
    BY <1>5 DEF Refine, Refinable
  <2>2. RefineProblem(request, PickBest(AllResults).cost) \in Calls
    BY <1>0, <1>2, <2>1, CallTypes
  <2>3. IInv'
    BY <2>1, <2>2, StartNextInv
  <2>4. IsResults(results)'
    BY <2>1, <1>1 DEF IsResults
  <2>5. Len(results') >= 1 /\ \E i \in 1..Len(results') : results'[i].status = "Solved"
    BY <1>0, <1>1, <1>2, <2>1
  <2> QED
    BY <1>0, <2>1, <2>3, <2>4, <2>5 DEF SolveInv, AnswerIsBest, Returned
<1>6. CASE ReturnBest
  <2>1. /\ answer' = PickBest(AllResults) /\ results' = AllResults /\ stage' = "returned"
        /\ UNCHANGED <<request, vars>>
    BY <1>6 DEF ReturnBest
  <2>2. IInv'
    BY <2>1, <1>0, StepsKeepInv
  <2>3. IsResults(results)'
    BY <2>1, <1>1 DEF IsResults
  <2>4. AnswerIsBest'
    BY <2>1, <1>2 DEF AnswerIsBest
  <2> QED
    BY <1>0, <2>1, <2>2, <2>3, <2>4 DEF SolveInv
<1>7. CASE ReturnRefined
  <2>0. /\ stage' = "returned" /\ UNCHANGED <<request, results, vars>>
        /\ Len(results) >= 1 /\ \E i \in 1..Len(results) : results[i].status = "Solved"
        /\ answer' = IF Status = "Solved" THEN PickBest(<<PickBest(results), Extracted>>)
                                          ELSE PickBest(results)
    BY <1>7 DEF ReturnRefined, SolveInv
  <2>1. /\ PickBest(results).cost \in Nat /\ PickBest(results).status = "Solved"
        /\ \A i \in 1..Len(results) :
              results[i].status = "Solved" => PickBest(results).cost <= results[i].cost
    BY <1>0, <2>0, PickBestKeeps
  <2>2. /\ answer'.status = "Solved" /\ answer'.cost \in Nat
        /\ answer'.cost <= PickBest(results).cost
    <3>1. CASE Status = "Solved"
      <4> DEFINE two == <<PickBest(results), Extracted>>
      <4>1. Extracted.cost \in Nat
        BY <1>0, NodeTypes DEF IInv, TypeOK, Extracted
      <4>2. /\ two \in Seq({PickBest(results), Extracted}) /\ Len(two) = 2
            /\ two[1] = PickBest(results) /\ two[2] = Extracted
        OBVIOUS
      <4> HIDE DEF two
      <4>3. IsResults(two)
        BY <4>1, <4>2, <2>1 DEF IsResults
      <4>4. /\ PickBest(two).status = "Solved" /\ PickBest(two).cost \in Nat
            /\ PickBest(two).cost <= PickBest(results).cost
        BY <4>2, <4>3, <2>1, PickBestKeeps
      <4> QED
        BY <4>4, <3>1, <2>0 DEF two
    <3>2. CASE Status # "Solved"
      BY <3>2, <2>0, <2>1
    <3> QED
      BY <3>1, <3>2
  <2>3. IInv'
    BY <2>0, <1>0, StepsKeepInv
  <2>4. AnswerIsBest'
    <3>1. ASSUME NEW i \in 1..Len(results), results[i].status = "Solved"
          PROVE  answer'.cost <= results[i].cost
      <4>1. results[i].cost \in Nat /\ PickBest(results).cost <= results[i].cost
        BY <3>1, <1>0, <2>1 DEF IsResults
      <4> QED
        BY <4>1, <2>1, <2>2
    <3> QED
      BY <3>1, <2>0, <2>2 DEF AnswerIsBest
  <2>5. IsResults(results)'
    BY <2>0, <1>0 DEF IsResults
  <2> QED
    BY <1>0, <2>0, <2>3, <2>4, <2>5 DEF SolveInv
<1> QED
  BY <1>3, <1>4, <1>5, <1>6, <1>7 DEF SolveNext

\* Throughout a solve call the loop's invariant holds, run after run.
THEOREM SolveInvariant == SolveSpec => []SolveInv
<1>1. SolveInit => SolveInv
  BY SolveInitInv
<1>2. SolveInv /\ [SolveNext]_<<vars, solveVars>> => SolveInv'
  BY SolveStepsKeepInv
<1> QED
  BY <1>1, <1>2, PTL DEF SolveSpec

\* A call is solved exactly when one of its restarts is, and costs no more than
\* any of them, whatever the refinement returns.
THEOREM RestartsKeepBest == SolveSpec => []AnswerIsBest
<1>1. SolveInv => AnswerIsBest
  BY DEF SolveInv
<1> QED
  BY <1>1, SolveInvariant, PTL

----------------------------------------------------------------------------
(***************************************************************************)
(* The refinement of a cascade.  Its A* run is cut off at the depth that   *)
(* equals the cost of the inner strategy's best path: whatever lies deeper *)
(* costs more, where every move costs something (the code's UniformCost).  *)
(***************************************************************************)
\* Walks depend on the candidates alone.
LEMMA WalksByCandidates ==
    ASSUME NEW p, NEW q, NEW from, NEW n \in Nat, p.cands = q.cands
    PROVE  Walks(p, from, n) = Walks(q, from, n)
<1> DEFINE S == {m \in Nat : Walks(p, from, m) = Walks(q, from, m)}
<1>1. 0 \in S
  BY WalksAre
<1>2. ASSUME NEW m \in Nat, m \in S PROVE m + 1 \in S
  <2>1. Walks(p, from, m + 1) = Stepped(p, Walks(p, from, m))
        /\ Walks(q, from, m + 1) = Stepped(q, Walks(q, from, m))
    BY WalksAre
  <2>2. \A W : Stepped(p, W) = Stepped(q, W)
    BY DEF Stepped
  <2> QED
    BY <1>2, <2>1, <2>2
<1> HIDE DEF S
<1>3. Nat \subseteq S
  BY <1>1, <1>2, Induction
<1> QED
  BY <1>3 DEF S

CascadeInv ==
    /\ PathInv
    /\ stage = "refine" =>
          /\ request.strategy = "cascade"
          /\ problem = RefineProblem(request, PickBest(results).cost)
    /\ CascadeBounded

LEMMA StartsHoldPathInv == \A p \in Calls : Start(p) => PathInv
  BY StartPathInv

LEMMA StartsHoldPathInvNext == \A p \in Calls : Start(p)' => PathInv'
<1>1. (\A p \in Calls : Start(p) => PathInv)'
  BY StartsHoldPathInv, PTL
<1> QED
  BY <1>1

LEMMA StartNextPathInv ==
    ASSUME NEW p \in Calls, StartNext(p)
    PROVE  PathInv' /\ problem' = p
<1>1. Start(p)'
  BY DEF StartNext, Start, NewGraph
<1> QED
  BY <1>1, StartsHoldPathInvNext DEF StartNext


LEMMA NoFreeMoves == IInv => PositiveCosts
<1> SUFFICES ASSUME IInv, NEW c \in Configs, NEW j \in 1..Len(problem.cands[c])
             PROVE  problem.cands[c][j].cost > 0
  BY DEF PositiveCosts
<1>1. problem.cands \in [Configs -> Seq(Candidates)]
  BY ProblemTypes DEF IInv
<1>2. problem.cands[c][j] \in Candidates
  BY <1>1
<1>3. PICK cost : cost = problem.cands[c][j].cost
  OBVIOUS
<1>4. cost \in Costs
  BY <1>2, <1>3 DEF Candidates
<1>5. cost \in Nat /\ cost # 0
  BY <1>4, CostsAssumption, UniformAssumption
<1> QED
  BY <1>3, <1>5

\* When the refinement is over, the better of its path and the one it began
\* with is within `weight` of any walk to a goal.
LEMMA RefinementCovers ==
    ASSUME IInv, PathInv, pc = "done", NEW r, IsRequest(r), r.strategy = "cascade",
           r.maxExpansions = NoLimit, NEW D \in Nat, problem = RefineProblem(r, D),
           \A c \in Configs : \A cost \in GoalCosts([cands |-> r.blockers[0], goals |-> r.goals], c, Longest) :
                r.hMax[c] <= cost,
           NEW k \in GoalCosts([cands |-> r.blockers[0], goals |-> r.goals], r.root, Longest)
    PROVE  \/ D <= r.weight * k
           \/ goal # None /\ GScore(goal) <= r.weight * k
<1> DEFINE maze == [cands |-> r.blockers[0], goals |-> r.goals]
<1>1. /\ problem.cands = maze.cands /\ problem.goals = maze.goals /\ problem.root = r.root
      /\ problem.h = r.hMax /\ problem.weight = r.weight /\ problem.maxExpansions = NoLimit
      /\ problem.maxDepth = D /\ problem.policy = "astar"
  BY DEF RefineProblem
<1>2. /\ problem.cands \in [Configs -> Seq(Candidates)] /\ problem.root \in Configs
      /\ problem.weight \in Nat \ {0} /\ Longest \in Nat
  BY ProblemTypes, LongestType DEF IInv
<1>3. \A c : Walks(problem, c, Longest) = Walks(maze, c, Longest)
  <2>1. problem.cands = maze.cands /\ Longest \in Nat
    BY <1>1, <1>2
  <2> HIDE DEF maze
  <2>2. PICK n \in Nat : n = Longest
    BY <2>1
  <2>3. PICK p : p = problem
    OBVIOUS
  <2>4. PICK q : q = maze
    OBVIOUS
  <2>5. ASSUME NEW c PROVE Walks(p, c, n) = Walks(q, c, n)
    BY <2>1, <2>3, <2>4, WalksByCandidates
  <2> QED
    BY <2>2, <2>3, <2>4, <2>5
<1>4. \A c : GoalCosts(problem, c, Longest) = GoalCosts(maze, c, Longest)
  <2> HIDE DEF maze
  <2> QED
    BY <1>1, <1>3 DEF GoalCosts
<1>5. Admissible
  BY <1>1, <1>4 DEF Admissible
<1>6. PICK w \in Walks(problem, problem.root, Longest) : w[1] \in problem.goals /\ w[2] = k
  <2>1. k \in GoalCosts(problem, problem.root, Longest)
    BY <1>1, <1>4
  <2> QED
    BY <2>1 DEF GoalCosts
<1>7. k \in Nat /\ k <= r.weight * k /\ r.weight * k \in Nat
  <2>1. w \in Configs \X Nat
    BY <1>2, <1>6, WalksTypes
  <2>2. k \in Nat
    BY <1>6, <2>1
  <2> QED
    BY <1>1, <1>2, <2>2, Scaling
<1>8. CASE k <= D
  <2>1. ~ OutOfBudget
    BY <1>1 DEF OutOfBudget, Reached
  <2>2. goal # None /\ GScore(goal) <= problem.weight * w[2]
    BY <1>1, <1>5, <1>6, <1>8, <2>1, AStarWithinDepth, NoFreeMoves
  <2> QED
    BY <1>1, <1>6, <2>2
<1>9. CASE ~ (k <= D)
  <2> DEFINE wk == r.weight * k
  <2>1. k \in Nat /\ k <= wk /\ wk \in Nat
    BY <1>7
  <2> HIDE DEF wk
  <2>2. D <= wk
    BY <1>9, <2>1
  <2> QED
    BY <2>2 DEF wk
<1> QED
  BY <1>8, <1>9

LEMMA CascadeInitInv ==
    ASSUME SolveInit
    PROVE  CascadeInv
<1>1. PICK r \in Requests : stage = "runs" /\ Start(RunProblem(r, 0))
  BY DEF SolveInit
<1>2. RunProblem(r, 0) \in Calls
  BY RequestsAssumption, CallTypes
<1> QED
  BY <1>1, <1>2, StartPathInv DEF CascadeInv, CascadeBounded, Answered, Returned

LEMMA CascadeStepsKeepInv ==
    ASSUME SolveInv, CascadeInv, [SolveNext]_<<vars, solveVars>>
    PROVE  CascadeInv'
<1>0. /\ IInv /\ PathInv /\ IsRequest(request) /\ IsResults(results)
      /\ Runs(request) \in Nat /\ Len(results) \in Nat
  BY CallTypes DEF SolveInv, CascadeInv, IsResults
<1>1. /\ IsResults(AllResults) /\ Len(AllResults) = Len(results) + 1
  BY <1>0, AllResultsTypes
<1>2. PickBest(AllResults).cost \in Nat
  <2>1. ASSUME NEW rs, rs = AllResults PROVE PickBest(rs).cost \in Nat
    <3>1. IsResults(rs) /\ Len(rs) >= 1
      BY <1>0, <1>1, <2>1
    <3> QED
      BY <3>1, PickBestKeeps, Zenon
  <2> QED
    BY <2>1, Zenon
<1>3. CASE Search \/ UNCHANGED <<vars, solveVars>>
  <2>1. [Next]_vars /\ UNCHANGED solveVars
    BY <1>3 DEF Search
  <2>2. PathInv'
    BY <2>1, <1>0, StepsKeepPathInv
  <2>3. problem' = problem
    BY <2>1 DEF Next, vars, loopVars, Exhaust, StopOnBudget, FindOnPop, Prune, Expand, SkipKnown,
                AddChild, FindOnGenerate, ReceiveChildren
  <2>4. /\ stage' = stage /\ request' = request /\ answer' = answer /\ results' = results
    BY <2>1 DEF solveVars
  <2>5. CascadeBounded'
    BY <2>4 DEF CascadeInv, CascadeBounded, Answered, Returned, Optimistic, Refinement
  <2> QED
    BY <2>2, <2>3, <2>4, <2>5 DEF CascadeInv
<1>4. CASE NextRun
  <2>1. Len(AllResults) \in 0..(Runs(request) - 1)
    BY <1>0, <1>1, <1>4 DEF NextRun, Ended, IsLast, SolveInv
  <2>2. RunProblem(request, Len(AllResults)) \in Calls
    BY <1>0, <2>1, CallTypes
  <2>3. PathInv'
    BY <1>4, <2>2, StartNextPathInv DEF NextRun
  <2>4. stage' = "runs"
    BY <1>4 DEF NextRun, Ended
  <2> QED
    BY <2>3, <2>4 DEF CascadeInv, CascadeBounded, Answered, Returned
<1>5. CASE Refine
  <2>1. /\ request.strategy = "cascade"
        /\ StartNext(RefineProblem(request, PickBest(AllResults).cost))
        /\ results' = AllResults /\ stage' = "refine" /\ request' = request
    BY <1>5 DEF Refine, Refinable
  <2>2. RefineProblem(request, PickBest(AllResults).cost) \in Calls
    BY <1>0, <1>2, <2>1, CallTypes
  <2>3. PathInv' /\ problem' = RefineProblem(request, PickBest(AllResults).cost)
    BY <2>1, <2>2, StartNextPathInv
  <2>4. problem' = RefineProblem(request', PickBest(results').cost)
    BY <2>1, <2>3
  <2> QED
    BY <2>1, <2>3, <2>4 DEF CascadeInv, CascadeBounded, Answered, Returned
<1>6. CASE ReturnBest
  <2>1. /\ answer' = PickBest(AllResults) /\ stage' = "returned" /\ ~ Refinable
        /\ request' = request /\ UNCHANGED vars
    BY <1>6 DEF ReturnBest
  <2>2. PathInv'
    BY <2>1, <1>0, StepsKeepPathInv
  <2>3. ~ (Answered' /\ request'.strategy = "cascade")
    BY <2>1 DEF Refinable, Answered
  <2> QED
    BY <2>1, <2>2, <2>3 DEF CascadeInv, CascadeBounded
<1>7. CASE ReturnRefined
  <2>0. /\ stage' = "returned" /\ UNCHANGED <<request, results, vars>> /\ pc = "done"
        /\ Len(results) >= 1
        /\ answer' = IF Status = "Solved" THEN PickBest(<<PickBest(results), Extracted>>)
                                          ELSE PickBest(results)
        /\ request.strategy = "cascade"
        /\ problem = RefineProblem(request, PickBest(results).cost)
        /\ \E i \in 1..Len(results) : results[i].status = "Solved"
    BY <1>7 DEF ReturnRefined, SolveInv, CascadeInv
  <2> DEFINE D == PickBest(results).cost
  <2>1. D \in Nat /\ PickBest(results).status = "Solved"
    BY <1>0, <2>0, PickBestKeeps
  <2>2. /\ answer'.cost \in Nat /\ answer'.cost <= D
        /\ goal # None => answer'.cost <= GScore(goal) /\ GScore(goal) \in Nat
    <3>1. CASE Status = "Solved"
      <4> DEFINE two == <<PickBest(results), Extracted>>
      <4>1. goal # None /\ Extracted.cost = GScore(goal) /\ Extracted.status = "Solved"
            /\ GScore(goal) \in Nat
        BY <1>0, <3>1, NodeTypes DEF IInv, TypeOK, Extracted, Status
      <4>2. /\ two \in Seq({PickBest(results), Extracted}) /\ Len(two) = 2
            /\ two[1] = PickBest(results) /\ two[2] = Extracted
        OBVIOUS
      <4> HIDE DEF two
      <4>3. IsResults(two)
        BY <4>1, <4>2, <2>1 DEF IsResults
      <4>4. /\ PickBest(two).cost \in Nat /\ PickBest(two).cost <= D
            /\ PickBest(two).cost <= Extracted.cost
        <5>1. 1 \in 1..Len(two) /\ 2 \in 1..Len(two) /\ Len(two) >= 1
          BY <4>2
        <5>2. /\ PickBest(two).cost \in Nat
              /\ \A i \in 1..Len(two) : two[i].status = "Solved" => PickBest(two).cost <= two[i].cost
          BY <4>3, <5>1, PickBestKeeps
        <5>3. PickBest(two).cost <= two[1].cost /\ PickBest(two).cost <= two[2].cost
          BY <4>1, <4>2, <5>1, <5>2, <2>1
        <5> QED
          BY <4>2, <5>2, <5>3
      <4> QED
        BY <4>1, <4>4, <3>1, <2>0 DEF two
    <3>2. CASE Status # "Solved"
      BY <3>2, <2>0, <2>1 DEF Status
    <3> QED
      BY <3>1, <3>2
  <2>3. PathInv'
    BY <2>0, <1>0, StepsKeepPathInv
  <2>4. ASSUME request.maxExpansions = NoLimit, Optimistic,
               NEW k \in GoalCosts(Refinement, request.root, Longest)
        PROVE  answer'.cost <= request.weight * k
    <3>1. \/ D <= request.weight * k
          \/ goal # None /\ GScore(goal) <= request.weight * k
      BY <1>0, <2>0, <2>1, <2>4, RefinementCovers DEF Optimistic, Refinement
    <3>2. request.weight * k \in Nat
      <4>1. problem.cands = Refinement.cands /\ problem.weight = request.weight /\ problem.root = request.root
        BY <2>0 DEF RefineProblem, Refinement
      <4>2. /\ problem.cands \in [Configs -> Seq(Candidates)] /\ problem.root \in Configs
            /\ problem.weight \in Nat \ {0} /\ Longest \in Nat
        BY <1>0, ProblemTypes, LongestType DEF IInv
      <4>3. PICK w \in Walks(Refinement, request.root, Longest) : w[2] = k
        BY <2>4 DEF GoalCosts
      <4>4. w \in Configs \X Nat
        BY <4>1, <4>2, <4>3, WalksTypes
      <4>5. k \in Nat
        BY <4>3, <4>4
      <4> QED
        BY <4>1, <4>2, <4>5, Scaling
    <3> DEFINE wk == request.weight * k
    <3>3. wk \in Nat /\ (D <= wk \/ (goal # None /\ GScore(goal) <= wk))
      BY <3>1, <3>2
    <3> HIDE DEF wk, D
    <3>4. answer'.cost <= wk
      BY <3>3, <2>1, <2>2
    <3> QED
      BY <3>4 DEF wk
  <2>5. CascadeBounded'
    BY <2>0, <2>4 DEF CascadeBounded, Optimistic, Refinement
  <2> QED
    BY <2>0, <2>3, <2>5 DEF CascadeInv
<1> QED
  BY <1>3, <1>4, <1>5, <1>6, <1>7 DEF SolveNext

\* A cascade without a budget returns a path within `weight` of the cheapest one
\* of the MoveBlockers generator, although its A* run is cut off at the depth
\* the inner strategy reached (run_cascade).
THEOREM CascadeTheorem == SolveSpec => []CascadeBounded
<1>1. SolveInit => SolveInv /\ CascadeInv
  BY SolveInitInv, CascadeInitInv
<1>2. SolveInv /\ CascadeInv /\ [SolveNext]_<<vars, solveVars>> => (SolveInv /\ CascadeInv)'
  BY SolveStepsKeepInv, CascadeStepsKeepInv
<1>3. CascadeInv => CascadeBounded
  BY DEF CascadeInv
<1> QED
  BY <1>1, <1>2, <1>3, PTL DEF SolveSpec

----------------------------------------------------------------------------
(***************************************************************************)
(* apply_layers_to: moves, carried out one after the other.                *)
(***************************************************************************)
LEMMA ReplayIs ==
    ASSUME NEW M, NEW c, NEW path \in Seq(M), NEW move \in M
    PROVE  /\ ReplayFrom(c, << >>) = c
           /\ ReplayFrom(c, Append(path, move)) = Replay[ReplayFrom(c, path)][move]
<1> DEFINE Solves(f, s, m) == f = [k \in 0..m |-> IF k = 0 THEN c ELSE Replay[f[k - 1]][s[k]]]
           R(s) == CHOOSE f : Solves(f, s, Len(s))
<1>1. ASSUME NEW s PROVE \A m \in Nat : \E f : Solves(f, s, m)
  <2> DEFINE S == {m \in Nat : \E f : Solves(f, s, m)}
  <2>1. 0 \in S
    <3>1. Solves([k \in 0..0 |-> c], s, 0)
      OBVIOUS
    <3> QED BY <3>1
  <2>2. ASSUME NEW m \in Nat, m \in S PROVE m + 1 \in S
    <3>1. PICK f : Solves(f, s, m)
      BY <2>2
    <3> DEFINE g == [k \in 0..(m + 1) |-> IF k = m + 1 THEN Replay[f[m]][s[k]] ELSE f[k]]
    <3>2. ASSUME NEW k \in 0..(m + 1)
          PROVE  g[k] = IF k = 0 THEN c ELSE Replay[g[k - 1]][s[k]]
      <4>1. CASE k = m + 1
        <5>1. k - 1 = m /\ m # m + 1 /\ k # 0 /\ m \in 0..(m + 1)
          BY <4>1
        <5>2. g[k] = Replay[f[m]][s[k]] /\ g[m] = f[m]
          BY <5>1, <4>1
        <5> HIDE DEF g
        <5> QED BY <5>1, <5>2
      <4>2. CASE k \in 0..m /\ k # 0
        <5>1. k - 1 \in 0..m /\ k # m + 1 /\ k - 1 # m + 1 /\ k - 1 \in 0..(m + 1)
          BY <4>2
        <5>2. g[k] = f[k] /\ g[k - 1] = f[k - 1]
          BY <5>1, <4>2
        <5>3. f[k] = Replay[f[k - 1]][s[k]]
          BY <3>1, <4>2
        <5> HIDE DEF g
        <5> QED BY <5>1, <5>2, <5>3, <4>2
      <4>3. CASE k = 0
        <5>1. f[0] = c /\ 0 # m + 1
          BY <3>1
        <5> QED BY <5>1, <4>3
      <4> QED BY <4>1, <4>2, <4>3
    <3>3. Solves(g, s, m + 1)
      BY <3>2
    <3> HIDE DEF g
    <3> QED BY <3>3
  <2> HIDE DEF S
  <2>3. Nat \subseteq S
    BY <2>1, <2>2, Induction
  <2> QED BY <2>3 DEF S
<1>2. ASSUME NEW N, NEW s \in Seq(N) PROVE Solves(R(s), s, Len(s))
  <2>0. Len(s) \in Nat
    BY <1>2
  <2>1. PICK f : Solves(f, s, Len(s))
    <3> HIDE DEF Solves
    <3> QED BY <1>1, <2>0
  <2> HIDE DEF Solves
  <2> QED BY <2>1
<1>3. \A s : ReplayFrom(c, s) = R(s)[Len(s)]
  BY DEF ReplayFrom
<1> HIDE DEF R
<1>4. ReplayFrom(c, << >>) = c
  <2>1. << >> \in Seq(M) /\ Len(<< >>) = 0
    OBVIOUS
  <2>2. Solves(R(<< >>), << >>, 0)
    <3> HIDE DEF Solves
    <3> QED BY <1>2, <2>1
  <2>3. R(<< >>)[0] = c
    BY <2>2
  <2> QED BY <1>3, <2>1, <2>3
<1> DEFINE longer == Append(path, move)
           n == Len(path)
<1>5. /\ longer \in Seq(M) /\ Len(longer) = n + 1 /\ n \in Nat /\ longer[n + 1] = move
      /\ \A k \in 1..n : longer[k] = path[k]
  OBVIOUS
<1>6. Solves(R(path), path, n) /\ Solves(R(longer), longer, n + 1)
  <2> HIDE DEF longer, Solves
  <2> QED BY <1>2, <1>5
<1> HIDE DEF longer, n
<1>7. \A k \in 0..n : R(path)[k] = R(longer)[k]
  <2> DEFINE S == {k \in Nat : k <= n => R(path)[k] = R(longer)[k]}
  <2>1. 0 \in S
    BY <1>5, <1>6
  <2>2. ASSUME NEW k \in Nat, k \in S PROVE k + 1 \in S
    <3>1. ASSUME k + 1 <= n PROVE R(path)[k + 1] = R(longer)[k + 1]
      <4>1. k + 1 \in 0..n /\ k + 1 \in 0..(n + 1) /\ k + 1 # 0 /\ (k + 1) - 1 = k /\ k <= n /\ k + 1 \in 1..n
        BY <1>5, <3>1
      <4>2. R(path)[k + 1] = Replay[R(path)[k]][path[k + 1]]
            /\ R(longer)[k + 1] = Replay[R(longer)[k]][longer[k + 1]]
        BY <1>6, <4>1
      <4> QED BY <4>1, <4>2, <2>2, <1>5
    <3> QED BY <3>1
  <2> HIDE DEF S
  <2>3. Nat \subseteq S
    BY <2>1, <2>2, Induction
  <2> QED BY <2>3, <1>5 DEF S
<1>8. ReplayFrom(c, longer) = Replay[ReplayFrom(c, path)][move]
  <2>1. R(longer)[n + 1] = Replay[R(longer)[n]][move]
    <3>1. n + 1 \in 0..(n + 1) /\ n + 1 # 0 /\ (n + 1) - 1 = n
      BY <1>5
    <3>2. R(longer)[n + 1] = Replay[R(longer)[n]][longer[n + 1]]
      BY <1>6, <3>1
    <3> QED BY <1>5, <3>2
  <2>2. R(longer)[n] = R(path)[n]
    BY <1>5, <1>7
  <2> QED BY <1>3, <1>5, <2>1, <2>2 DEF n
<1> QED
  BY <1>4, <1>8 DEF longer

\* A sequence that is not empty is a shorter one and its last move.
LEMMA MovesEnd ==
    ASSUME NEW n \in Nat, NEW q \in Seq(MoveSets), Len(q) = n + 1
    PROVE  \E p \in Seq(MoveSets), m \in MoveSets : Len(p) = n /\ q = Append(p, m)
<1>1. /\ SubSeq(q, 1, n) \in Seq(MoveSets) /\ Len(SubSeq(q, 1, n)) = n
      /\ q[n + 1] \in MoveSets
  OBVIOUS
<1>2. q = Append(SubSeq(q, 1, n), q[n + 1])
  OBVIOUS
<1> QED
  BY <1>1, <1>2

LEMMA ReplayTypes ==
    ASSUME NEW c \in Configs, NEW path \in Seq(MoveSets)
    PROVE  ReplayFrom(c, path) \in Configs
<1> DEFINE S == {n \in Nat : \A q \in Seq(MoveSets) : Len(q) = n => ReplayFrom(c, q) \in Configs}
<1>1. 0 \in S
  <2>1. ASSUME NEW q \in Seq(MoveSets), Len(q) = 0 PROVE ReplayFrom(c, q) \in Configs
    <3>1. q = << >> /\ 0 \in {0} /\ << >> \in Seq({0})
      BY <2>1
    <3> QED BY <3>1, ReplayIs
  <2> QED BY <2>1
<1>2. ASSUME NEW n \in Nat, n \in S PROVE n + 1 \in S
  <2>1. ASSUME NEW q \in Seq(MoveSets), Len(q) = n + 1 PROVE ReplayFrom(c, q) \in Configs
    <3>1. PICK p \in Seq(MoveSets), m \in MoveSets : Len(p) = n /\ q = Append(p, m)
      BY <2>1, MovesEnd
    <3>2. ReplayFrom(c, p) \in Configs
      BY <1>2, <3>1
    <3>3. ReplayFrom(c, q) = Replay[ReplayFrom(c, p)][m]
      BY <3>1, ReplayIs
    <3> QED BY <3>1, <3>2, <3>3, TrajectoriesAssumption
  <2> QED BY <2>1
<1> HIDE DEF S
<1>3. Nat \subseteq S
  BY <1>1, <1>2, Induction
<1>4. Len(path) \in S
  BY <1>3
<1> QED
  BY <1>4 DEF S

LEMMA ReplayOn ==
    ASSUME NEW c, NEW path \in Seq(MoveSets), NEW more \in Seq(MoveSets)
    PROVE  ReplayFrom(c, path \o more) = ReplayFrom(ReplayFrom(c, path), more)
<1> DEFINE d == ReplayFrom(c, path)
           S == {n \in Nat : \A q \in Seq(MoveSets) : Len(q) = n => ReplayFrom(c, path \o q) = ReplayFrom(d, q)}
<1>1. 0 \in S
  <2>1. ASSUME NEW q \in Seq(MoveSets), Len(q) = 0 PROVE ReplayFrom(c, path \o q) = ReplayFrom(d, q)
    <3>1. q = << >> /\ 0 \in {0} /\ << >> \in Seq({0})
      BY <2>1
    <3>2. path \o q = path
      BY <3>1
    <3>3. ReplayFrom(d, << >>) = d
      BY <3>1, ReplayIs
    <3> QED BY <3>1, <3>2, <3>3
  <2> QED BY <2>1
<1>2. ASSUME NEW n \in Nat, n \in S PROVE n + 1 \in S
  <2>1. ASSUME NEW q \in Seq(MoveSets), Len(q) = n + 1 PROVE ReplayFrom(c, path \o q) = ReplayFrom(d, q)
    <3>1. PICK p \in Seq(MoveSets), m \in MoveSets : Len(p) = n /\ q = Append(p, m)
      BY <2>1, MovesEnd
    <3>2. path \o q = Append(path \o p, m) /\ path \o p \in Seq(MoveSets)
      BY <3>1
    <3>3. ReplayFrom(c, path \o p) = ReplayFrom(d, p)
      BY <1>2, <3>1
    <3>4. ReplayFrom(d, q) = Replay[ReplayFrom(d, p)][m]
      <4> HIDE DEF d
      <4> QED BY <3>1, ReplayIs
    <3>5. ReplayFrom(c, path \o q) = Replay[ReplayFrom(c, path \o p)][m]
      <4> DEFINE whole == path \o p
      <4> HIDE DEF whole
      <4>1. whole \in Seq(MoveSets)
        BY <3>2 DEF whole
      <4>2. ReplayFrom(c, Append(whole, m)) = Replay[ReplayFrom(c, whole)][m]
        BY <4>1, ReplayIs
      <4> QED BY <3>2, <4>2 DEF whole
    <3> QED BY <3>3, <3>4, <3>5
  <2> QED BY <2>1
<1> HIDE DEF S
<1>3. Nat \subseteq S
  BY <1>1, <1>2, Induction
<1>4. Len(more) \in S
  BY <1>3
<1> QED
  BY <1>4 DEF S

----------------------------------------------------------------------------
(***************************************************************************)
(* The arena of any search that inserts candidates of its generator, be it *)
(* run_search or beam_rollout: every node's path leads to it.              *)
(***************************************************************************)
Arena ==
    /\ problem \in Calls /\ GraphInv /\ RootIsFirst /\ NodesAreCandidates
    /\ Faithful(problem.cands)

LEMMA LoopArena == IInv /\ PathInv /\ Faithful(problem.cands) => Arena
  BY DEF Arena, IInv, PathInv, TypeOK

LEMMA NodesReplay ==
    ASSUME Arena
    PROVE  \A id \in NodeIds :
              /\ ReconstructPath(id) \in Seq(MoveSets)
              /\ Len(ReconstructPath(id)) = Depth(id) /\ GScore(id) = Depth(id)
              /\ Config(id) \in Configs
              /\ ReplayFrom(problem.root, ReconstructPath(id)) = Config(id)
<1> DEFINE Replays(id) == /\ ReconstructPath(id) \in Seq(MoveSets)
                          /\ Len(ReconstructPath(id)) = Depth(id) /\ GScore(id) = Depth(id)
                          /\ Config(id) \in Configs
                          /\ ReplayFrom(problem.root, ReconstructPath(id)) = Config(id)
           S == {k \in Nat : \A id \in NodeIds : id <= k => Replays(id)}
<1> HIDE DEF Replays
<1>0. /\ Len(nodes) \in Nat /\ NodeIds = 1..Len(nodes)
      /\ Config(1) = problem.root /\ GScore(1) = 0 /\ Depth(1) = 0
      /\ \A id \in NodeIds \ {1} : Parent(id) \in 1..(id - 1) /\ Depth(id) = Depth(Parent(id)) + 1
      /\ \A id \in NodeIds : Config(id) \in Configs
  <2>1. nodes \in Seq(NodeData)
    BY DEF Arena, GraphInv, GraphTypeOK
  <2>2. \A id \in NodeIds : nodes[id] \in NodeData
    BY <2>1 DEF NodeIds
  <2>3. \A id \in NodeIds : Config(id) \in Configs
    BY <2>2 DEF Config, NodeData
  <2> QED
    BY <2>1, <2>3 DEF Arena, GraphInv, TreeGrowsForward, RootIsFirst, NodeIds
<1>1. 0 \in S
  BY <1>0
<1>2. ASSUME NEW k \in Nat, k \in S PROVE k + 1 \in S
  <2> SUFFICES ASSUME NEW id \in NodeIds, id = k + 1 PROVE Replays(id)
    <3>1. \A id \in NodeIds : id <= k + 1 => id <= k \/ id = k + 1
      BY <1>0
    <3> QED BY <1>2, <3>1
  <2>1. CASE id = 1
    <3>1. ReconstructPath(1) = << >>
      BY PathsAre DEF Arena
    <3>2. << >> \in Seq(MoveSets) /\ Len(<< >>) = 0 /\ 0 \in {0} /\ << >> \in Seq({0})
      OBVIOUS
    <3>3. ReplayFrom(problem.root, << >>) = problem.root
      BY <3>2, ReplayIs
    <3> QED
      BY <1>0, <2>1, <3>1, <3>2, <3>3 DEF Replays
  <2>2. CASE id # 1
    <3> DEFINE par == Parent(id)
               path == ReconstructPath(par)
               move == nodes[id].move
    <3>1. par \in NodeIds /\ par <= k /\ Depth(id) = Depth(par) + 1
      BY <1>0, <2>2
    <3>2. Replays(par)
      BY <1>2, <3>1
    <3>3. PICK j \in 1..Len(CandidatesOf(par)) : MadeBy(id, CandidatesOf(par)[j])
      BY <2>2 DEF Arena, NodesAreCandidates
    <3> DEFINE cand == CandidatesOf(par)[j]
    <3>4. cand \in Candidates /\ problem.cands[Config(par)] \in Seq(Candidates) /\ cand = problem.cands[Config(par)][j]
      <4>1. problem.cands[Config(par)] \in Seq(Candidates)
        BY <1>0, <3>1 DEF Arena, Calls
      <4> QED BY <4>1, <3>3 DEF CandidatesOf
    <3>5. /\ cand.move \in MoveSets /\ Config(id) = cand.config /\ move = cand.move
          /\ GScore(id) = GScore(par) + 1
      <4>1. cand.move \in MoveSets /\ cand.cost = 1
        BY <3>4, UniformCostAssumption DEF Candidates
      <4> QED BY <3>3, <4>1 DEF MadeBy
    <3>6. Replay[Config(par)][cand.move] = cand.config
      <4>1. Config(par) \in Configs /\ j \in 1..Len(problem.cands[Config(par)])
        BY <1>0, <3>1, <3>3 DEF CandidatesOf
      <4> QED BY <4>1, <3>4 DEF Arena, Faithful
    <3>7. ReconstructPath(id) = Append(path, move)
      BY <2>2, PathsAre DEF Arena
    <3> HIDE DEF path, move, cand
    <3>8. path \in Seq(MoveSets) /\ Len(path) = Depth(par) /\ ReplayFrom(problem.root, path) = Config(par)
          /\ GScore(par) = Depth(par)
      BY <3>2 DEF Replays, path
    <3>9. ReplayFrom(problem.root, Append(path, move)) = Replay[Config(par)][move]
      BY <3>5, <3>8, ReplayIs
    <3>10. Append(path, move) \in Seq(MoveSets) /\ Len(Append(path, move)) = Depth(par) + 1
      BY <3>5, <3>8
    <3> QED
      BY <1>0, <3>1, <3>5, <3>6, <3>7, <3>8, <3>9, <3>10 DEF Replays
  <2> QED
    BY <2>1, <2>2
<1> HIDE DEF S
<1>3. Nat \subseteq S
  BY <1>1, <1>2, Induction
<1>4. ASSUME NEW id \in NodeIds PROVE Replays(id)
  <2>1. id \in Nat /\ id <= id
    BY <1>0
  <2>2. id \in S
    BY <1>3, <2>1
  <2> QED
    BY <2>1, <2>2 DEF S
<1> QED
  BY <1>4 DEF Replays

----------------------------------------------------------------------------
(***************************************************************************)
(* What a run of run_search returns (extract): moves that lead to the      *)
(* configuration it names, and a status that is true.                      *)
(***************************************************************************)
\* "Unsolvable" without a depth limit: no walk leads to a goal.
LEMMA NoWalkToAGoal ==
    ASSUME IInv, pc = "done", Status = "Unsolvable", problem.maxDepth = NoLimit
    PROVE  GoalCosts(problem, problem.root, Longest) = {}
<1> DEFINE E == {c \in Configs : seen[c] # None}
           S == {n \in Nat : \A w \in Walks(problem, problem.root, n) : w[1] \in E}
<1>1. /\ problem.root \in E /\ E \cap problem.goals = {}
      /\ \A c \in E : \A j \in 1..Len(problem.cands[c]) : problem.cands[c][j].config \in E
  BY UnsolvableIsExplored DEF UnsolvableIsProved
<1> HIDE DEF E
<1>2. 0 \in S
  <2>1. Walks(problem, problem.root, 0) = {<<problem.root, 0>>}
    BY WalksAre
  <2> QED BY <1>1, <2>1
<1>3. ASSUME NEW n \in Nat, n \in S PROVE n + 1 \in S
  <2>1. ASSUME NEW w \in Walks(problem, problem.root, n + 1) PROVE w[1] \in E
    <3>1. CASE w \in Walks(problem, problem.root, n)
      BY <1>3, <3>1
    <3>2. CASE \E v \in Walks(problem, problem.root, n) : \E j \in 1..Len(problem.cands[v[1]]) :
                  w = <<problem.cands[v[1]][j].config, v[2] + problem.cands[v[1]][j].cost>>
      <4>1. PICK v \in Walks(problem, problem.root, n) : \E j \in 1..Len(problem.cands[v[1]]) :
                  w = <<problem.cands[v[1]][j].config, v[2] + problem.cands[v[1]][j].cost>>
        BY <3>2
      <4>2. PICK j \in 1..Len(problem.cands[v[1]]) :
                  w = <<problem.cands[v[1]][j].config, v[2] + problem.cands[v[1]][j].cost>>
        BY <4>1
      <4>3. v[1] \in E
        BY <1>3
      <4>4. w[1] = problem.cands[v[1]][j].config
        BY <4>2
      <4> QED BY <1>1, <4>3, <4>4
    <3> QED BY <3>1, <3>2, LastMove
  <2> QED BY <2>1
<1> HIDE DEF S
<1>4. Nat \subseteq S
  BY <1>2, <1>3, Induction
<1>5. Longest \in Nat
  <2>1. problem.root \in Configs
    BY ProblemTypes DEF IInv
  <2> QED BY <2>1, LongestType
<1>6. \A w \in Walks(problem, problem.root, Longest) : w[1] \in E
  BY <1>4, <1>5 DEF S
<1> QED
  BY <1>1, <1>6 DEF GoalCosts

\* The loop stops at its budget, not after it.
WithinBudget == problem.maxExpansions # NoLimit => expanded <= problem.maxExpansions

LEMMA StepsKeepBudget ==
    ASSUME TypeOK, WithinBudget, [Next]_vars
    PROVE  WithinBudget' /\ problem' = problem
<1>1. problem' = problem
  BY DEF Next, vars, Exhaust, StopOnBudget, FindOnPop, Prune, Expand, SkipKnown,
         AddChild, FindOnGenerate, ReceiveChildren
<1>2. CASE expanded' = expanded
  BY <1>1, <1>2 DEF WithinBudget
<1>3. CASE \E id \in frontier : Expand(id)
  <2>1. expanded' = expanded + 1 /\ ~ OutOfBudget
    BY <1>3 DEF Expand, Close
  <2>2. problem.maxExpansions \in Nat \cup {NoLimit} /\ expanded \in Nat
    BY DEF TypeOK, Calls
  <2> QED BY <1>1, <2>1, <2>2 DEF OutOfBudget, Reached, WithinBudget, NoLimit
<1> QED
  BY <1>1, <1>2, <1>3 DEF Next, vars, loopVars, Exhaust, StopOnBudget, FindOnPop, Prune, SkipKnown,
         AddChild, FindOnGenerate, ReceiveChildren

\* A result that can be carried out and one whose status is true, for a call or
\* a request.
Carried(from, moves, config) ==
    moves \in Seq(MoveSets) /\ config \in Configs /\ ReplayFrom(from, moves) = config
ResultFields == {"status", "move_layers", "goal_config", "cost", "nodes_expanded"}
Sound(r, res) ==
    /\ ResultFields \subseteq DOMAIN res /\ res.cost \in Nat
    /\ Carried(r.root, res.move_layers, res.goal_config)
    /\ res.status = "Solved" => res.goal_config \in r.goals /\ res.cost = Len(res.move_layers)
    /\ res.status # "Solved" =>
          res.cost = 0 /\ res.move_layers = << >> /\ res.goal_config = r.root
Honest(r, res) ==
    /\ res.status \in {"Solved", "Unsolvable", "BudgetExceeded"}
    /\ res.nodes_expanded \in Nat
    /\ r.maxExpansions # NoLimit => res.nodes_expanded <= r.maxExpansions
    /\ res.status # "Solved" =>
          (res.status = "BudgetExceeded" <=>
              r.maxExpansions # NoLimit /\ res.nodes_expanded = r.maxExpansions)

LEMMA NoMoves == \A c \in Configs : Carried(c, << >>, c)
<1> SUFFICES ASSUME NEW c \in Configs PROVE Carried(c, << >>, c)
  OBVIOUS
<1>1. << >> \in Seq(MoveSets) /\ 0 \in {0} /\ << >> \in Seq({0})
  OBVIOUS
<1> QED
  BY <1>1, ReplayIs DEF Carried

LEMMA ExtractedIsSound ==
    ASSUME IInv, PathInv, WithinBudget, Faithful(problem.cands), pc = "done"
    PROVE  /\ Sound(problem, Extracted) /\ Honest(problem, Extracted)
           /\ Extracted.status = "Unsolvable" /\ problem.maxDepth = NoLimit
                => GoalCosts(problem, problem.root, Longest) = {}
<1>1. Arena
  BY LoopArena
<1>2. /\ goal \in NodeIds \cup {None} /\ (goal # None => IsGoal(goal)) /\ expanded \in Nat
      /\ Config(1) = problem.root /\ problem.root \in Configs
      /\ problem.maxExpansions \in Nat \cup {NoLimit}
  BY ProblemTypes DEF IInv, TypeOK, LoopInv, ControlOK, RootIsFirst, Calls
<1>3. /\ Extracted.status = Status /\ Extracted.nodes_expanded = expanded
      /\ Extracted.move_layers = (IF goal = None THEN << >> ELSE ReconstructPath(goal))
      /\ Extracted.goal_config = (IF goal = None THEN Config(1) ELSE Config(goal))
      /\ Extracted.cost = (IF goal = None THEN 0 ELSE GScore(goal))
      /\ ResultFields \subseteq DOMAIN Extracted
  BY DEF Extracted, ResultFields
<1>4. Status = "Solved" <=> goal # None
  BY DEF Status
<1>5. Sound(problem, Extracted)
  <2>1. CASE goal = None
    BY <1>2, <1>3, <1>4, <2>1, NoMoves DEF Sound
  <2>2. CASE goal # None
    <3>1. /\ ReconstructPath(goal) \in Seq(MoveSets)
          /\ Len(ReconstructPath(goal)) = Depth(goal) /\ GScore(goal) = Depth(goal)
          /\ Config(goal) \in Configs
          /\ ReplayFrom(problem.root, ReconstructPath(goal)) = Config(goal)
      BY <1>1, <1>2, <2>2, NodesReplay
    <3>2. GScore(goal) \in Nat
      BY <3>1
    <3> QED BY <1>2, <1>3, <1>4, <2>2, <3>1, <3>2 DEF Sound, Carried, IsGoal
  <2> QED BY <2>1, <2>2
<1>6. Honest(problem, Extracted)
  BY <1>2, <1>3 DEF Honest, Status, OutOfBudget, Reached, WithinBudget, NoLimit
<1> QED
  BY <1>3, <1>5, <1>6, NoWalkToAGoal

----------------------------------------------------------------------------
(***************************************************************************)
(* A solve call: the same of each of its results, and of its answer.       *)
(***************************************************************************)
Told(r, i, res) ==
    /\ Sound(r, res) /\ Honest(r, res)
    /\ res.status = "Unsolvable" => GoalCosts(RunProblem(r, i - 1), r.root, Longest) = {}
AnswerTold(r, res) ==
    /\ Sound(r, res) /\ Honest(r, res)
    /\ res.status = "Unsolvable" => NoWay(r)

\* A call of run_search that a request makes.
CallOf(r, p) ==
    /\ p.root = r.root /\ p.goals = r.goals /\ p.maxExpansions = r.maxExpansions
    /\ Faithful(p.cands)

SolveSound ==
    /\ SolveInv /\ PathInv /\ WithinBudget /\ IsSolve(request)
    /\ CallOf(request, problem)
    /\ stage = "runs" => problem = RunProblem(request, Len(results))
    /\ Len(results) <= Runs(request)
    /\ \A i \in 1..Len(results) : Told(request, i, results[i])
    /\ Returned => AnswerTold(request, answer)

LEMMA SolveCalls ==
    ASSUME NEW r, IsSolve(r)
    PROVE  /\ Runs(r) \in Nat /\ Runs(r) >= 1
           /\ \A i \in 0..(Runs(r) - 1) : /\ RunProblem(r, i) \in Calls /\ CallOf(r, RunProblem(r, i))
                                          /\ RunProblem(r, i).maxDepth = NoLimit
           /\ r.strategy = "cascade" => \A D \in Nat : /\ RefineProblem(r, D) \in Calls
                                                       /\ CallOf(r, RefineProblem(r, D))
<1>1. IsRequest(r)
  BY DEF IsSolve
<1>2. /\ Runs(r) \in Nat /\ Runs(r) >= 1
      /\ \A i \in 0..(Runs(r) - 1) : RunProblem(r, i) \in Calls
      /\ r.strategy = "cascade" => \A D \in Nat : RefineProblem(r, D) \in Calls
  BY <1>1, CallTypes
<1>3. ASSUME NEW i \in 0..(Runs(r) - 1)
      PROVE  CallOf(r, RunProblem(r, i)) /\ RunProblem(r, i).maxDepth = NoLimit
  <2>1. Faithful(RunProblem(r, i).cands)
    BY <1>3 DEF IsSolve
  <2>2. /\ RunProblem(r, i).root = r.root /\ RunProblem(r, i).goals = r.goals
        /\ RunProblem(r, i).maxExpansions = r.maxExpansions /\ RunProblem(r, i).maxDepth = NoLimit
    BY DEF RunProblem
  <2> QED BY <2>1, <2>2 DEF CallOf
<1>4. ASSUME r.strategy = "cascade", NEW D \in Nat PROVE CallOf(r, RefineProblem(r, D))
  <2>1. /\ RefineProblem(r, D).root = r.root /\ RefineProblem(r, D).goals = r.goals
        /\ RefineProblem(r, D).maxExpansions = r.maxExpansions
        /\ RefineProblem(r, D).cands = r.blockers[0]
    BY DEF RefineProblem
  <2>2. Faithful(r.blockers[0])
    BY <1>4 DEF IsSolve
  <2> QED BY <2>1, <2>2 DEF CallOf
<1> QED
  BY <1>2, <1>3, <1>4

\* What is sound and honest for a call is so for the request that made it.
LEMMA ForTheRequest ==
    ASSUME NEW r, NEW p, CallOf(r, p), NEW res, Sound(p, res), Honest(p, res)
    PROVE  Sound(r, res) /\ Honest(r, res)
  BY DEF CallOf, Sound, Honest

LEMMA StartNextBudget ==
    ASSUME NEW p \in Calls, StartNext(p)
    PROVE  WithinBudget'
<1>1. problem' = p /\ expanded' = 0 /\ p.maxExpansions \in Nat \cup {NoLimit}
  BY DEF StartNext, Calls
<1> QED
  BY <1>1 DEF WithinBudget, NoLimit

LEMMA AllAreTold ==
    ASSUME SolveSound, Ended
    PROVE  \A i \in 1..Len(AllResults) : Told(request, i, AllResults[i])
<1>1. IInv /\ IsResults(results) /\ Len(results) \in Nat
  BY DEF SolveSound, SolveInv, IsResults
<1>2. /\ Len(AllResults) = Len(results) + 1 /\ \A i \in 1..Len(results) : AllResults[i] = results[i]
  BY <1>1, AllResultsTypes
<1>3. AllResults[Len(results) + 1] = Extracted
  BY <1>1 DEF AllResults, IsResults
<1>4. problem = RunProblem(request, Len(results)) /\ Len(results) \in 0..(Runs(request) - 1) /\ pc = "done"
  <2>1. Len(results) < Runs(request) /\ Runs(request) \in Nat
    BY SolveCalls DEF SolveSound, SolveInv, Ended
  <2> QED BY <1>1, <2>1 DEF SolveSound, Ended
<1>5. problem.maxDepth = NoLimit /\ problem.root = request.root
  BY <1>4, SolveCalls DEF SolveSound, CallOf
<1>6. /\ Sound(problem, Extracted) /\ Honest(problem, Extracted)
      /\ Extracted.status = "Unsolvable" => GoalCosts(problem, problem.root, Longest) = {}
  BY <1>1, <1>4, <1>5, ExtractedIsSound DEF SolveSound, CallOf
<1>7. Sound(request, Extracted) /\ Honest(request, Extracted)
  BY <1>6, ForTheRequest DEF SolveSound
<1>8. Told(request, Len(results) + 1, Extracted)
  <2>1. (Len(results) + 1) - 1 = Len(results)
    BY <1>1
  <2> QED BY <1>4, <1>5, <1>6, <1>7, <2>1 DEF Told
<1>9. ASSUME NEW i \in 1..Len(AllResults) PROVE Told(request, i, AllResults[i])
  <2>1. i = Len(results) + 1 \/ i \in 1..Len(results)
    BY <1>1, <1>2
  <2> QED BY <1>2, <1>3, <1>8, <2>1 DEF SolveSound
<1> QED
  BY <1>9

LEMMA SolveStepsKeepSound ==
    ASSUME SolveSound, [SolveNext]_<<vars, solveVars>>
    PROVE  SolveSound'
<1>0. /\ SolveInv /\ IInv /\ PathInv /\ WithinBudget /\ IsSolve(request) /\ IsRequest(request)
      /\ IsResults(results) /\ Len(results) \in Nat /\ Runs(request) \in Nat
      /\ \A i \in 1..Len(results) : Told(request, i, results[i])
      /\ Len(results) <= Runs(request) /\ CallOf(request, problem)
  BY SolveCalls DEF SolveSound, SolveInv, IsResults, IsSolve
<1>1. SolveInv'
  BY <1>0, SolveStepsKeepInv
<1>2. /\ IsResults(AllResults) /\ Len(AllResults) = Len(results) + 1
  BY <1>0, AllResultsTypes
<1>3. ASSUME [Next]_vars PROVE PathInv' /\ WithinBudget' /\ problem' = problem
  BY <1>0, <1>3, StepsKeepPathInv, StepsKeepBudget DEF IInv
<1>4. CASE Search \/ UNCHANGED <<vars, solveVars>>
  <2>1. [Next]_vars /\ UNCHANGED solveVars
    BY <1>4 DEF Search
  <2>2. request' = request /\ stage' = stage /\ results' = results /\ answer' = answer
    BY <2>1 DEF solveVars
  <2> QED
    BY <1>1, <1>3, <2>1, <2>2 DEF SolveSound, Returned
<1>5. CASE NextRun
  <2>1. /\ Ended /\ ~ IsLast /\ results' = AllResults /\ stage = "runs" /\ stage' = stage /\ request' = request
        /\ StartNext(RunProblem(request, Len(AllResults)))
    BY <1>5 DEF NextRun, Ended
  <2>2. Len(AllResults) \in 0..(Runs(request) - 1)
    <3>1. Len(results) < Runs(request)
      BY <2>1 DEF SolveSound, SolveInv
    <3> QED BY <1>0, <1>2, <2>1, <3>1 DEF IsLast
  <2>3. /\ RunProblem(request, Len(AllResults)) \in Calls
        /\ CallOf(request, RunProblem(request, Len(AllResults)))
    BY <1>0, <2>2, SolveCalls
  <2>4. PathInv' /\ problem' = RunProblem(request, Len(AllResults)) /\ WithinBudget'
    BY <2>1, <2>3, StartNextPathInv, StartNextBudget
  <2>5. \A i \in 1..Len(AllResults) : Told(request, i, AllResults[i])
    BY <2>1, AllAreTold
  <2>6. ~ Returned'
    BY <2>1 DEF Returned
  <2> QED
    BY <1>0, <1>1, <2>1, <2>2, <2>3, <2>4, <2>5, <2>6 DEF SolveSound
<1>6. CASE Refine
  <2>1. /\ Ended /\ results' = AllResults /\ stage' = "refine" /\ request' = request /\ IsLast
        /\ StartNext(RefineProblem(request, PickBest(AllResults).cost)) /\ request.strategy = "cascade"
    BY <1>6 DEF Refine, Refinable
  <2>2. PickBest(AllResults).cost \in Nat
    <3> DEFINE rs == AllResults
    <3>1. IsResults(rs) /\ Len(rs) >= 1
      BY <1>0, <1>2
    <3> HIDE DEF rs
    <3>2. PickBest(rs).cost \in Nat
      BY <3>1, PickBestKeeps
    <3> QED BY <3>2 DEF rs
  <2>3. PICK D \in Nat : D = PickBest(AllResults).cost
    BY <2>2
  <2>4. RefineProblem(request, D) \in Calls /\ CallOf(request, RefineProblem(request, D))
    BY <1>0, <2>1, SolveCalls
  <2>5. PathInv' /\ problem' = RefineProblem(request, D) /\ WithinBudget'
    BY <2>1, <2>3, <2>4, StartNextPathInv, StartNextBudget
  <2>6. \A i \in 1..Len(AllResults) : Told(request, i, AllResults[i])
    BY <2>1, AllAreTold
  <2>7. ~ Returned' /\ stage' # "runs" /\ Len(AllResults) = Runs(request)
    BY <2>1 DEF Returned, IsLast
  <2> QED
    BY <1>0, <1>1, <2>1, <2>4, <2>5, <2>6, <2>7 DEF SolveSound
<1>7. CASE ReturnBest
  <2>1. /\ Ended /\ answer' = PickBest(AllResults) /\ results' = AllResults /\ stage' = "returned"
        /\ request' = request /\ UNCHANGED vars /\ IsLast
    BY <1>7 DEF ReturnBest
  <2>2. \A i \in 1..Len(AllResults) : Told(request, i, AllResults[i])
    BY <2>1, AllAreTold
  <2>3. Len(AllResults) = Runs(request) /\ Len(AllResults) >= 1
    BY <1>0, <1>2, <2>1 DEF IsLast
  <2>4. PICK k \in 1..Len(AllResults) : PickBest(AllResults) = AllResults[k]
    <3> DEFINE rs == AllResults
    <3>1. IsResults(rs) /\ Len(rs) >= 1
      BY <1>2, <2>3
    <3> HIDE DEF rs
    <3>2. \E i \in 1..Len(rs) : PickBest(rs) = rs[i]
      BY <3>1, PickBestIsBest
    <3> QED BY <3>2 DEF rs
  <2>5. AnswerTold(request, answer')
    <3>1. Told(request, k, answer')
      BY <2>1, <2>2, <2>4
    <3>2. k - 1 \in 0..(Runs(request) - 1)
      BY <2>3, <1>0
    <3> QED BY <3>1, <3>2 DEF Told, AnswerTold, NoWay
  <2>6. PathInv' /\ WithinBudget' /\ problem' = problem
    BY <2>1, <1>3
  <2>7. stage' # "runs"
    BY <2>1
  <2> QED
    BY <1>0, <1>1, <2>1, <2>2, <2>3, <2>5, <2>6, <2>7 DEF SolveSound
<1>8. CASE ReturnRefined
  <2>1. /\ stage' = "returned" /\ request' = request /\ results' = results /\ UNCHANGED vars /\ pc = "done"
        /\ Len(results) >= 1 /\ \E i \in 1..Len(results) : results[i].status = "Solved"
        /\ answer' = IF Status = "Solved" THEN PickBest(<<PickBest(results), Extracted>>)
                                          ELSE PickBest(results)
    BY <1>0, <1>8 DEF ReturnRefined, SolveInv
  <2>2. PICK k \in 1..Len(results) : PickBest(results) = results[k]
    BY <1>0, <2>1, PickBestIsBest
  <2>3. Sound(request, PickBest(results)) /\ Honest(request, PickBest(results))
    BY <1>0, <2>2 DEF Told
  <2>4. PickBest(results).status = "Solved" /\ PickBest(results).cost \in Nat
    BY <1>0, <2>1, PickBestKeeps
  <2>5. Sound(request, answer') /\ Honest(request, answer') /\ answer'.status = "Solved"
    <3>1. CASE Status # "Solved"
      BY <2>1, <2>3, <2>4, <3>1
    <3>2. CASE Status = "Solved"
      <4> DEFINE two == <<PickBest(results), Extracted>>
      <4>1. Sound(request, Extracted) /\ Honest(request, Extracted)
        BY <1>0, <2>1, ExtractedIsSound, ForTheRequest DEF CallOf
      <4>2. Extracted.status = "Solved" /\ Extracted.cost \in Nat
        BY <3>2, <4>1 DEF Extracted, Sound
      <4>3. /\ two \in Seq({PickBest(results), Extracted}) /\ Len(two) = 2
            /\ two[1] = PickBest(results) /\ two[2] = Extracted
        OBVIOUS
      <4> HIDE DEF two
      <4>4. IsResults(two)
        BY <2>4, <4>2, <4>3 DEF IsResults
      <4>5. PICK i \in 1..2 : PickBest(two) = two[i]
        BY <4>3, <4>4, PickBestIsBest
      <4>6. PickBest(two) = PickBest(results) \/ PickBest(two) = Extracted
        BY <4>3, <4>5
      <4>7. answer' = PickBest(two)
        BY <2>1, <3>2 DEF two
      <4> QED BY <2>3, <2>4, <4>1, <4>2, <4>6, <4>7
    <3> QED BY <3>1, <3>2
  <2>6. PathInv' /\ WithinBudget' /\ problem' = problem
    BY <2>1, <1>3
  <2>7. stage' # "runs" /\ AnswerTold(request, answer')
    BY <2>1, <2>5 DEF AnswerTold
  <2> QED
    BY <1>0, <1>1, <2>1, <2>6, <2>7 DEF SolveSound
<1> QED
  BY <1>4, <1>5, <1>6, <1>7, <1>8 DEF SolveNext

----------------------------------------------------------------------------
LEMMA StartSolveSound ==
    ASSUME NEW r, IsSolve(r), StartSolve(r)
    PROVE  SolveSound' /\ request' = r /\ rhVars' = rhVars
<1>1. /\ request' = r /\ stage' = "runs" /\ results' = << >> /\ answer' = NoAnswer /\ rhVars' = rhVars
      /\ StartNext(RunProblem(r, 0))
  BY DEF StartSolve
<1>2. /\ IsRequest(r) /\ Runs(r) \in Nat /\ Runs(r) >= 1
      /\ RunProblem(r, 0) \in Calls /\ CallOf(r, RunProblem(r, 0))
  BY SolveCalls DEF IsSolve
<1>3. IInv' /\ PathInv' /\ WithinBudget' /\ problem' = RunProblem(r, 0)
  BY <1>1, <1>2, StartNextInv, StartNextPathInv, StartNextBudget
<1>4. IsResults(results)' /\ Len(results') = 0
  <2>1. << >> \in Seq({}) /\ Len(<< >>) = 0
    OBVIOUS
  <2> QED
    BY <2>1, <1>1 DEF IsResults
<1>5. SolveInv'
  BY <1>1, <1>2, <1>3, <1>4 DEF SolveInv, AnswerIsBest, Returned
<1> QED
  BY <1>1, <1>2, <1>3, <1>4, <1>5 DEF SolveSound, Returned

----------------------------------------------------------------------------
(***************************************************************************)
(* beam_rollout and extract_best_leaf.                                     *)
(***************************************************************************)
\* The best leaf is a node of the rollout.
LEMMA BestLeafIsNode ==
    ASSUME Arena, NEW limit \in Nat
    PROVE  BestLeaf(limit) \in NodeIds \cup {None}
<1>0. /\ GraphTypeOK /\ Len(nodes) \in Nat /\ Len(nodes) >= 1 /\ Depth(1) = 0 /\ 1 \in NodeIds
      /\ IsFiniteSet(NodeIds) /\ NodeIds \subseteq Nat
      /\ \A id \in NodeIds : Depth(id) \in Nat /\ GScore(id) \in Nat /\ H(id) \in Nat
  <2>1. GraphTypeOK /\ problem \in Calls
    BY DEF Arena, GraphInv
  <2>2. Len(nodes) \in Nat /\ Len(nodes) >= 1 /\ Depth(1) = 0
    BY <2>1 DEF GraphTypeOK, Arena, GraphInv, TreeGrowsForward
  <2>3. IsFiniteSet(NodeIds) /\ 1 \in NodeIds
    BY <2>2, FS_Interval DEF NodeIds
  <2>4. \A id \in NodeIds : Config(id) \in Configs /\ Depth(id) \in Nat /\ GScore(id) \in Nat
    BY <2>1, NodeTypes
  <2>5. problem.h \in [Configs -> Nat]
    BY <2>1 DEF Calls
  <2>6. \A id \in NodeIds : H(id) \in Nat
    BY <2>4, <2>5 DEF H
  <2> QED BY <2>1, <2>2, <2>3, <2>4, <2>6 DEF NodeIds
<1> DEFINE D == {Depth(id) : id \in NodeIds}
           Low == {d \in D : d <= limit}
<1>1. PICK d \in Low : \A e \in Low : e <= d
  <2>1. IsFiniteSet(0..limit)
    BY FS_Interval
  <2>2. IsFiniteSet(Low)
    <3>1. Low \subseteq 0..limit
      BY <1>0
    <3> HIDE DEF Low
    <3> QED BY <2>1, <3>1, FS_Subset
  <2>3. Low \in SUBSET Int /\ Low # {}
    <3>1. 0 \in Low
      BY <1>0
    <3> QED BY <1>0, <3>1
  <2> HIDE DEF Low
  <2> QED BY <2>2, <2>3, GreatestNumber
<1> DEFINE Deep(e) == e <= limit /\ \A id \in NodeIds : Depth(id) <= limit => Depth(id) <= e
<1>2. Deep(d) /\ d \in D
  BY <1>1
<1>3. Deepest(limit) \in D
  <2>1. Deepest(limit) = CHOOSE e \in D : Deep(e)
    BY DEF Deepest
  <2> HIDE DEF D, Deep
  <2> QED BY <1>2, <2>1
<1> HIDE DEF D, Low, Deep
<1> DEFINE S == {m \in NodeIds : Depth(m) = Deepest(limit)}
           f == [m \in S |-> H(m)]
           g == [m \in S |-> GScore(m)]
<1>4. PICK m \in S : \A n \in S \ {m} :
              f[m] < f[n] \/ (f[m] = f[n] /\ (g[m] < g[n] \/ (g[m] = g[n] /\ m < n)))
  <2>1. S \in SUBSET Nat /\ S \subseteq NodeIds
    BY <1>0
  <2>2. IsFiniteSet(S)
    <3> HIDE DEF S
    <3> QED BY <1>0, <2>1, FS_Subset
  <2>3. S # {}
    BY <1>3 DEF D
  <2>4. f \in [S -> Int] /\ g \in [S -> Int]
    <3>1. \A k \in S : H(k) \in Int /\ GScore(k) \in Int
      BY <1>0
    <3> HIDE DEF S
    <3> QED BY <3>1
  <2> HIDE DEF S, f, g
  <2> QED BY <2>1, <2>2, <2>3, <2>4, LexicographicFirst
<1>5. m \in NodeIds /\ Depth(m) = Deepest(limit)
      /\ \A n \in NodeIds \ {m} : Depth(n) = Deepest(limit) => LeafBefore(m, n)
  BY <1>4 DEF LeafBefore
<1> QED
  BY <1>5 DEF BestLeaf

\* An option is a candidate of a member of the beam.
IsOption(o) ==
    /\ o.parent \in NodeIds
    /\ \E j \in 1..Len(CandidatesOf(o.parent)) : o.cand = CandidatesOf(o.parent)[j]

OptionsOf(id) ==
    [j \in 1..Len(CandidatesOf(id)) |-> [parent |-> id, cand |-> CandidatesOf(id)[j]]]

LEMMA OptionsAre ==
    ASSUME Arena, beam \in Seq(NodeIds)
    PROVE  /\ \E S : Options \in Seq(S)
           /\ \A k \in 1..Len(Options) : IsOption(Options[k])
<1> DEFINE All == {o \in [parent : NodeIds, cand : Candidates] : IsOption(o)}
           Solves(f, m) == f = [k \in 0..m |-> IF k = 0 THEN << >> ELSE f[k - 1] \o OptionsOf(beam[k])]
           n == Len(beam)
           P == CHOOSE f : Solves(f, n)
<1>0. n \in Nat /\ \A k \in 1..n : beam[k] \in NodeIds
  OBVIOUS
<1>1. \A id \in NodeIds : OptionsOf(id) \in Seq(All)
  <2> SUFFICES ASSUME NEW id \in NodeIds PROVE OptionsOf(id) \in Seq(All)
    OBVIOUS
  <2>1. Config(id) \in Configs
    BY NodeTypes DEF Arena, GraphInv
  <2>2. CandidatesOf(id) \in Seq(Candidates)
    BY <2>1 DEF CandidatesOf, Arena, Calls
  <2>3. Len(CandidatesOf(id)) \in Nat
    BY <2>2
  <2>4. ASSUME NEW j \in 1..Len(CandidatesOf(id)) PROVE [parent |-> id, cand |-> CandidatesOf(id)[j]] \in All
    <3>1. CandidatesOf(id)[j] \in Candidates
      BY <2>2, <2>4
    <3>2. IsOption([parent |-> id, cand |-> CandidatesOf(id)[j]])
      BY <2>4 DEF IsOption
    <3> QED BY <3>1, <3>2
  <2> HIDE DEF All
  <2> QED BY <2>3, <2>4 DEF OptionsOf
<1> HIDE DEF All
<1>2. \A m \in Nat : \E f : Solves(f, m)
  <2> DEFINE S == {m \in Nat : \E f : Solves(f, m)}
  <2>1. 0 \in S
    <3>1. Solves([k \in 0..0 |-> << >>], 0)
      OBVIOUS
    <3> QED BY <3>1
  <2>2. ASSUME NEW m \in Nat, m \in S PROVE m + 1 \in S
    <3>1. PICK f : Solves(f, m)
      BY <2>2
    <3> DEFINE g == [k \in 0..(m + 1) |-> IF k = m + 1 THEN f[m] \o OptionsOf(beam[k]) ELSE f[k]]
    <3>2. ASSUME NEW k \in 0..(m + 1)
          PROVE  g[k] = IF k = 0 THEN << >> ELSE g[k - 1] \o OptionsOf(beam[k])
      <4>1. CASE k = m + 1
        <5>1. k - 1 = m /\ m # m + 1 /\ k # 0 /\ m \in 0..(m + 1)
          BY <4>1
        <5>2. g[k] = f[m] \o OptionsOf(beam[k]) /\ g[m] = f[m]
          BY <5>1, <4>1
        <5> HIDE DEF g
        <5> QED BY <5>1, <5>2
      <4>2. CASE k \in 0..m /\ k # 0
        <5>1. k - 1 \in 0..m /\ k # m + 1 /\ k - 1 # m + 1 /\ k - 1 \in 0..(m + 1)
          BY <4>2
        <5>2. g[k] = f[k] /\ g[k - 1] = f[k - 1]
          BY <5>1, <4>2
        <5>3. f[k] = f[k - 1] \o OptionsOf(beam[k])
          BY <3>1, <4>2
        <5> HIDE DEF g
        <5> QED BY <5>1, <5>2, <5>3, <4>2
      <4>3. CASE k = 0
        <5>1. f[0] = << >> /\ 0 # m + 1
          BY <3>1
        <5> QED BY <5>1, <4>3
      <4> QED BY <4>1, <4>2, <4>3
    <3>3. Solves(g, m + 1)
      BY <3>2
    <3> HIDE DEF g
    <3> QED BY <3>3
  <2> HIDE DEF S
  <2>3. Nat \subseteq S
    BY <2>1, <2>2, Induction
  <2> QED BY <2>3 DEF S
<1>3. PICK f : Solves(f, n)
  <2> HIDE DEF Solves
  <2> QED BY <1>2, <1>0
<1>4. Solves(P, n)
  <2> HIDE DEF Solves
  <2> QED BY <1>3
<1>5. \A k \in 0..n : P[k] \in Seq(All)
  <2> DEFINE S == {k \in Nat : k <= n => P[k] \in Seq(All)}
  <2> HIDE DEF P
  <2>1. 0 \in S
    <3>1. P[0] = << >>
      BY <1>4, <1>0
    <3>2. << >> \in Seq(All)
      OBVIOUS
    <3> QED BY <3>1, <3>2
  <2>2. ASSUME NEW k \in Nat, k \in S PROVE k + 1 \in S
    <3>1. ASSUME k + 1 <= n PROVE P[k + 1] \in Seq(All)
      <4>1. k + 1 \in 0..n /\ k + 1 # 0 /\ (k + 1) - 1 = k /\ k <= n /\ k + 1 \in 1..n
        BY <3>1, <1>0
      <4>2. P[k + 1] = P[k] \o OptionsOf(beam[k + 1])
        BY <1>4, <4>1
      <4>3. P[k] \in Seq(All) /\ OptionsOf(beam[k + 1]) \in Seq(All)
        BY <2>2, <4>1, <1>0, <1>1
      <4> QED BY <4>2, <4>3
    <3> QED BY <3>1
  <2> HIDE DEF S
  <2>3. Nat \subseteq S
    BY <2>1, <2>2, Induction
  <2> QED BY <2>3 DEF S
<1>6. Options = P[n]
  BY DEF Options, OptionsOf
<1> HIDE DEF P
<1>7. Options \in Seq(All)
  BY <1>0, <1>5, <1>6
<1>8. ASSUME NEW k \in 1..Len(Options) PROVE IsOption(Options[k])
  <2>1. Options[k] \in All
    BY <1>7
  <2> QED BY <2>1 DEF All
<1> QED
  BY <1>7, <1>8

----------------------------------------------------------------------------
\* The calls that are considered, field by field.
LEMMA TrajectoryTypes ==
    ASSUME NEW t \in Trajectories
    PROVE  /\ t.root \in Configs /\ t.goals \in SUBSET Configs /\ t.fallbackGoals \in SUBSET Configs
           /\ t.proposed \in [Configs -> SUBSET Seq(Assignments)]
           /\ t.cands \in [Assignments -> [Configs -> Seq(Candidates)]]
           /\ t.score \in [Assignments -> [Configs -> [Configs -> Int]]]
           /\ t.h \in [Configs -> Nat] /\ t.leafCost \in [Configs -> Nat] /\ t.nextCost \in [Configs -> Nat]
           /\ t.horizon \in Nat /\ t.commit \in Nat /\ t.decrement \in Nat /\ t.perRollout \in Nat
           /\ t.width \in Nat /\ t.maxExpansions \in Nat \cup {NoLimit}
           /\ t.fallbackCands \in [Configs -> Seq(Candidates)] /\ t.fallbackPolicy \in Policies
           /\ \A a \in Assignments : Faithful(t.cands[a])
           /\ Faithful(t.fallbackCands)
<1>1. t \in Arguments
  BY TrajectoriesAssumption
<1>2. \A cands \in GeneratorsOf(t) : Faithful(cands)
  BY TrajectoriesAssumption
<1> QED
  BY <1>1, <1>2 DEF Arguments, GeneratorsOf

\* The best options are options.
LEMMA BestAreOptions ==
    ASSUME Arena, call \in Trajectories, Head(assigned) \in Assignments,
           NEW options, \E S : options \in Seq(S), \A k \in 1..Len(options) : IsOption(options[k])
    PROVE  /\ \E S : Best(options) \in Seq(S)
           /\ \A k \in 1..Len(Best(options)) : IsOption(Best(options)[k])
<1> DEFINE n == Len(options)
           I == 1..n
           before(i, j) ==
              \/ Scored(options[i]) > Scored(options[j])
              \/ Scored(options[i]) = Scored(options[j]) /\ i < j
           R == {p \in I \X I : before(p[1], p[2])}
           rank(i) == 1 + Cardinality({j \in I : before(j, i)})
           size == IF n < call.width THEN n ELSE call.width
           chosen(k) == CHOOSE i \in I : rank(i) = k
<1>0. n \in Nat /\ size \in Nat /\ size <= n
  <2>1. n \in Nat
    OBVIOUS
  <2> QED BY <2>1, TrajectoryTypes
<1>1. \A i \in I : Scored(options[i]) \in Int
  <2> SUFFICES ASSUME NEW i \in I PROVE Scored(options[i]) \in Int
    OBVIOUS
  <2>1. PICK o : o = options[i]
    OBVIOUS
  <2>2. IsOption(o)
    BY <2>1
  <2>3. Config(o.parent) \in Configs
    BY <2>2, NodeTypes DEF IsOption, Arena, GraphInv
  <2>4. o.cand.config \in Configs
    <3>1. CandidatesOf(o.parent) \in Seq(Candidates)
      BY <2>3 DEF CandidatesOf, Arena, Calls
    <3>2. o.cand \in Candidates
      BY <2>2, <3>1 DEF IsOption
    <3> QED BY <3>2 DEF Candidates
  <2>5. call.score \in [Assignments -> [Configs -> [Configs -> Int]]]
    BY TrajectoryTypes
  <2> QED BY <2>1, <2>3, <2>4, <2>5 DEF Scored
<1>2. /\ \A i \in I : <<i, i>> \notin R
      /\ \A i, j, k \in I : <<i, j>> \in R /\ <<j, k>> \in R => <<i, k>> \in R
      /\ \A i, j \in I : i # j => <<i, j>> \in R \/ <<j, i>> \in R
  <2>1. \A i, j \in I : <<i, j>> \in R <=> before(i, j)
    OBVIOUS
  <2>2. I \subseteq Nat
    BY <1>0
  <2> HIDE DEF R, I
  <2> QED BY <1>1, <2>1, <2>2
<1>3. ASSUME NEW k \in I PROVE \E i \in I : rank(i) = k
  <2>1. PICK i \in I : 1 + Cardinality({j \in I : <<j, i>> \in R}) = k
    <3> HIDE DEF R
    <3>1. PICK Q : Q = R
      OBVIOUS
    <3>2. PICK m \in Nat : m = n
      BY <1>0
    <3>3. k \in 1..m /\ I = 1..m
      BY <3>2
    <3>4. StrictTotal(m, Q)
      BY <1>2, <3>1, <3>2 DEF StrictTotal
    <3> HIDE DEF I, n
    <3>5. \E i \in 1..m : RankOf(m, Q, i) = k
      BY <3>3, <3>4, RanksAreFull
    <3> QED BY <3>1, <3>3, <3>5 DEF RankOf
  <2>2. {j \in I : <<j, i>> \in R} = {j \in I : before(j, i)}
    OBVIOUS
  <2> QED BY <2>1, <2>2
<1>4. ASSUME NEW k \in 1..size PROVE chosen(k) \in I
  <2>1. k \in I
    BY <1>0
  <2> HIDE DEF rank, I
  <2> QED BY <1>3, <2>1
<1>5. Best(options) = [k \in 1..size |-> options[chosen(k)]]
  BY DEF Best
<1> HIDE DEF chosen, rank, before, R, size
<1>6. Len(Best(options)) = size /\ \A k \in 1..size : IsOption(Best(options)[k])
  BY <1>0, <1>4, <1>5
<1>7. Best(options) \in Seq({options[i] : i \in I})
  BY <1>0, <1>4, <1>5
<1> QED
  BY <1>6, <1>7

\* A rollout's node is a candidate of its parent, whatever the order it was made in.
LEMMA InsertKeepsArena ==
    ASSUME Arena, NEW o, IsOption(o), problem' = problem,
           Insert(o.parent, o.cand.move, o.cand.config, GScore(o.parent) + 1)
    PROVE  /\ Arena'
           /\ NodeIds' = NodeIds \cup {NewId} /\ nodes'[NewId].config = o.cand.config
           /\ \A id \in NodeIds : nodes'[id] = nodes[id]
<1>1. GraphInv /\ GraphTypeOK /\ problem \in Calls /\ o.parent \in NodeIds
  BY DEF Arena, GraphInv, IsOption
<1>2. PICK j \in 1..Len(CandidatesOf(o.parent)) : o.cand = CandidatesOf(o.parent)[j]
  BY DEF IsOption
<1>3. o.cand \in Candidates
  <2>1. Config(o.parent) \in Configs
    BY <1>1, NodeTypes
  <2>2. CandidatesOf(o.parent) \in Seq(Candidates)
    BY <1>1, <2>1 DEF CandidatesOf, Calls
  <2> QED BY <1>2, <2>2
<1>4. o.cand.move \in MoveSets /\ o.cand.config \in Configs /\ o.cand.cost = 1 /\ 1 \in Costs
  BY <1>3, UniformCostAssumption DEF Candidates
<1>5. GScore(o.parent) + 1 \in Nat
  BY <1>1, NodeTypes
<1>6. GraphInv'
  BY <1>1, <1>4, InsertKeepsGraphInv
<1>7. PICK m : m = NewId
  OBVIOUS
<1>8. /\ \A id \in NodeIds : nodes'[id] = nodes[id]
      /\ nodes'[m] = NodeFor(o.parent, o.cand.move, o.cand.config, GScore(o.parent) + 1)
      /\ NodeIds' = NodeIds \cup {m} /\ m \notin NodeIds
  BY <1>1, <1>4, <1>5, <1>7, InsertedNode
<1>9. \A id \in NodeIds : CandidatesOf(id)' = CandidatesOf(id) /\ Config(id)' = Config(id)
                          /\ GScore(id)' = GScore(id) /\ Parent(id)' = Parent(id)
  BY <1>8 DEF CandidatesOf, Config, GScore, Parent
<1>10. 1 \in NodeIds /\ RootIsFirst'
  <2>1. 1 \in NodeIds
    BY <1>1 DEF GraphTypeOK, NodeIds
  <2> QED BY <2>1, <1>8 DEF Arena, RootIsFirst, Config
<1>11. ASSUME NEW id \in NodeIds \ {1}
       PROVE  \E k \in 1..Len(CandidatesOf(Parent(id))') : MadeBy(id, CandidatesOf(Parent(id))[k])'
  <2>1. PICK k \in 1..Len(CandidatesOf(Parent(id))) : MadeBy(id, CandidatesOf(Parent(id))[k])
    BY DEF NodesAreCandidates, Arena
  <2>2. Parent(id) \in NodeIds
    BY <1>1 DEF GraphInv, TreeGrowsForward, GraphTypeOK, NodeIds
  <2>3. CandidatesOf(Parent(id))' = CandidatesOf(Parent(id)) /\ GScore(Parent(id))' = GScore(Parent(id))
    BY <1>9, <2>2 DEF CandidatesOf, Config, GScore, Parent
  <2> QED
    BY <2>1, <2>3, <1>8, <1>9 DEF MadeBy
<1>12. \E k \in 1..Len(CandidatesOf(Parent(m))') : MadeBy(m, CandidatesOf(Parent(m))[k])'
  <2>1. /\ Parent(m)' = o.parent /\ Config(m)' = o.cand.config
        /\ nodes'[m].move = o.cand.move /\ GScore(m)' = GScore(o.parent) + 1
    BY <1>8 DEF NodeFor, Parent, Config, GScore
  <2>2. CandidatesOf(Parent(m))' = CandidatesOf(o.parent) /\ GScore(Parent(m))' = GScore(o.parent)
    BY <1>1, <1>8, <2>1 DEF CandidatesOf, Config, GScore, Parent
  <2>3. MadeBy(m, CandidatesOf(Parent(m))[j])'
    BY <1>2, <1>4, <2>1, <2>2 DEF MadeBy
  <2>4. j \in 1..Len(CandidatesOf(Parent(m)))'
    BY <1>2, <2>2
  <2> QED BY <2>3, <2>4
<1>13. NodesAreCandidates'
  <2>1. \A id \in NodeIds' \ {1} : id = m \/ id \in NodeIds \ {1}
    BY <1>8
  <2> QED BY <2>1, <1>11, <1>12 DEF NodesAreCandidates
<1>14. nodes'[NewId].config = o.cand.config
  BY <1>7, <1>8 DEF NodeFor
<1>15. Arena'
  BY <1>1, <1>6, <1>10, <1>13 DEF Arena
<1> QED
  BY <1>7, <1>8, <1>14, <1>15

----------------------------------------------------------------------------
(***************************************************************************)
(* A trajectory: what was committed leads to where it is, a branch leads   *)
(* on from there, and each stage's rollout is one of the two searches.     *)
(***************************************************************************)
IsBranch(b) ==
    /\ b.tier \in {0, 1} /\ b.depth \in Nat /\ b.depth = Len(b.path)
    /\ Carried(state, b.path, b.leaf)
AreBranches(bs) == (\E S : bs \in Seq(S)) /\ \A i \in 1..Len(bs) : IsBranch(bs[i])

GoalFound == goal \in NodeIds \cup {None} /\ (goal # None => IsGoal(goal))
BeamInv ==
    /\ Arena /\ GoalFound
    /\ beam \in Seq(NodeIds) /\ nextBeam \in Seq(NodeIds)
    /\ (\E S : pool \in Seq(S)) /\ \A k \in 1..Len(pool) : IsOption(pool[k])

RollingOut == rhStage \in {"rollout", "beam", "ids"}

TrajectoryEnd ==
    /\ rhAnswer.cost \in Nat
    /\ Carried(call.root, rhAnswer.move_layers, rhAnswer.goal_config)
    /\ rhAnswer.status = "Solved" => /\ rhAnswer.goal_config \in call.goals \cup call.fallbackGoals
                                     /\ rhAnswer.cost = Len(rhAnswer.move_layers)
    /\ rhAnswer.status # "Solved" => rhAnswer.cost = 0

TrajectoryInv ==
    /\ call \in Trajectories
    /\ rhStage \in {"plan", "rollout", "beam", "ids", "pick", "fallback", "returned"}
    /\ Carried(call.root, layers, state) /\ x \in Nat
    /\ RollingOut => assigned \in Seq(Assignments) /\ assigned # << >>
    /\ RollingOut \/ rhStage = "pick" => AreBranches(branches)
    /\ rhStage \in {"beam", "ids"} => problem = RolloutProblem(Head(assigned))
    /\ rhStage = "beam" => BeamInv
    /\ rhStage \in {"ids", "fallback"} => IInv /\ PathInv
    /\ rhStage = "fallback" => problem = FallbackProblem
    /\ rhStage = "returned" => TrajectoryEnd

LEMMA StartTrajectoryInv ==
    ASSUME NEW t \in Trajectories, StartTrajectory(t)
    PROVE  TrajectoryInv' /\ call' = t
<1>1. /\ call' = t /\ rhStage' = "plan" /\ state' = t.root /\ layers' = << >> /\ x' = t.horizon
  BY DEF StartTrajectory
<1>2. t.root \in Configs /\ t.horizon \in Nat
  BY TrajectoryTypes
<1>3. Carried(t.root, << >>, t.root)
  BY <1>2, NoMoves
<1> QED
  BY <1>1, <1>2, <1>3 DEF TrajectoryInv, RollingOut

\* The calls of run_search that a trajectory makes.
LEMMA TrajectoryCalls ==
    ASSUME TrajectoryInv
    PROVE  /\ state \in Configs /\ layers \in Seq(MoveSets) /\ call.root \in Configs
           /\ \A a \in Assignments : /\ RolloutProblem(a) \in Calls
                                     /\ RolloutProblem(a).root = state
                                     /\ RolloutProblem(a).goals = call.goals
                                     /\ Faithful(RolloutProblem(a).cands)
           /\ FallbackProblem \in Calls
           /\ FallbackProblem.root = state /\ FallbackProblem.goals = call.fallbackGoals
           /\ Faithful(FallbackProblem.cands)
<1>1. state \in Configs /\ layers \in Seq(MoveSets) /\ x \in Nat /\ call \in Trajectories
  BY DEF TrajectoryInv, Carried
<1>2. /\ call.root \in Configs /\ call.goals \in SUBSET Configs /\ call.fallbackGoals \in SUBSET Configs
      /\ call.cands \in [Assignments -> [Configs -> Seq(Candidates)]]
      /\ call.h \in [Configs -> Nat] /\ call.perRollout \in Nat
      /\ call.maxExpansions \in Nat \cup {NoLimit}
      /\ call.fallbackCands \in [Configs -> Seq(Candidates)] /\ call.fallbackPolicy \in Policies
      /\ \A a \in Assignments : Faithful(call.cands[a])
      /\ Faithful(call.fallbackCands)
  BY <1>1, TrajectoryTypes
<1>3. "ids" \in Policies
  BY DEF Policies
<1> QED
  BY <1>1, <1>2, <1>3 DEF RolloutProblem, FallbackProblem, Calls

LEMMA StartFallbackInv ==
    ASSUME TrajectoryInv, StartFallback, call' = call, state' = state, layers' = layers, x' \in Nat
    PROVE  TrajectoryInv'
<1>1. PICK p \in Calls : p = FallbackProblem
  BY TrajectoryCalls
<1>2. StartNext(p) /\ rhStage' = "fallback"
  BY <1>1 DEF StartFallback
<1>3. IInv' /\ PathInv' /\ problem' = p
  BY <1>2, StartNextInv, StartNextPathInv
<1>4. FallbackProblem' = p
  BY <1>1 DEF FallbackProblem
<1> QED
  BY <1>2, <1>3, <1>4 DEF TrajectoryInv, RollingOut

\* A node of a rollout, as a branch.
LEMMA NodesAreBranches ==
    ASSUME Arena, problem.root = state, NEW id \in NodeIds, NEW tier \in {0, 1}
    PROVE  IsBranch(Branch(tier, id))
<1>1. /\ ReconstructPath(id) \in Seq(MoveSets) /\ Len(ReconstructPath(id)) = Depth(id)
      /\ Config(id) \in Configs /\ ReplayFrom(problem.root, ReconstructPath(id)) = Config(id)
  BY NodesReplay
<1>2. Depth(id) \in Nat
  BY <1>1
<1> QED
  BY <1>1, <1>2 DEF Branch, IsBranch, Carried

LEMMA BestBranchIsBranch ==
    ASSUME TrajectoryInv, AreBranches(branches), branches # << >>
    PROVE  IsBranch(BestBranch)
<1> DEFINE I == 1..Len(branches)
           f == [i \in I |-> branches[i].tier]
           g == [i \in I |-> Score(branches[i])]
<1>0. Len(branches) \in Nat /\ Len(branches) >= 1 /\ \A i \in I : IsBranch(branches[i])
  BY DEF AreBranches
<1>1. \A i \in I : branches[i].tier \in Int /\ Score(branches[i]) \in Int
  <2> SUFFICES ASSUME NEW i \in I PROVE branches[i].tier \in Int /\ Score(branches[i]) \in Int
    OBVIOUS
  <2>1. PICK b : b = branches[i]
    OBVIOUS
  <2>2. b.tier \in {0, 1} /\ b.depth \in Nat /\ b.leaf \in Configs
    BY <2>1, <1>0 DEF IsBranch, Carried
  <2>3. call.leafCost \in [Configs -> Nat] /\ call.nextCost \in [Configs -> Nat]
    BY TrajectoryTypes DEF TrajectoryInv
  <2>4. Score(b) \in Int
    BY <2>2, <2>3 DEF Score
  <2> QED BY <2>1, <2>2, <2>4
<1>2. PICK i \in I : \A j \in I \ {i} :
              f[i] < f[j] \/ (f[i] = f[j] /\ (g[i] < g[j] \/ (g[i] = g[j] /\ i < j)))
  <2>1. I \in SUBSET Nat /\ IsFiniteSet(I) /\ I # {}
    <3>1. I \in SUBSET Nat /\ 1 \in I
      BY <1>0
    <3>2. IsFiniteSet(I)
      BY <1>0, FS_Interval
    <3> QED BY <3>1, <3>2
  <2>2. f \in [I -> Int] /\ g \in [I -> Int]
    BY <1>1
  <2> HIDE DEF I, f, g
  <2> QED BY <2>1, <2>2, LexicographicFirst
<1>3. \A j \in I \ {i} : BranchBefore(i, j)
  BY <1>2 DEF BranchBefore
<1> DEFINE First(k) == \A j \in 1..Len(branches) \ {k} : BranchBefore(k, j)
           best == CHOOSE k \in 1..Len(branches) : First(k)
<1>4. best \in I
  <2>1. First(i) /\ i \in 1..Len(branches)
    BY <1>3
  <2> HIDE DEF First
  <2> QED BY <2>1
<1>5. BestBranch = branches[best]
  BY DEF BestBranch
<1> HIDE DEF best
<1> QED
  BY <1>0, <1>4, <1>5

----------------------------------------------------------------------------
\* One step of the trajectory after another.
LEMMA PlanKeepsInv ==
    ASSUME TrajectoryInv, Arrived \/ OutOfStages \/ Propose
    PROVE  TrajectoryInv'
<1>0. Carried(call.root, layers, state) /\ Len(layers) \in Nat /\ x \in Nat /\ call \in Trajectories
  BY DEF TrajectoryInv, Carried
<1>1. CASE Arrived
  <2>1. /\ state \in call.goals /\ UNCHANGED <<vars, stageVars>> /\ rhStage' = "returned"
        /\ rhAnswer' = [status |-> "Solved", move_layers |-> layers, goal_config |-> state,
                        cost |-> Len(layers), nodes_expanded |-> total]
    BY <1>1 DEF Arrived, Return
  <2>2. call' = call /\ state' = state /\ layers' = layers /\ x' = x
    BY <2>1 DEF stageVars
  <2>3. TrajectoryEnd'
    BY <1>0, <2>1, <2>2 DEF TrajectoryEnd
  <2> QED BY <1>0, <2>1, <2>2, <2>3 DEF TrajectoryInv, RollingOut
<1>2. CASE OutOfStages
  <2>1. /\ UNCHANGED <<vars, stageVars>> /\ rhStage' = "returned"
        /\ rhAnswer' = [status |-> "BudgetExceeded", move_layers |-> layers, goal_config |-> state,
                        cost |-> 0, nodes_expanded |-> total]
    BY <1>2 DEF OutOfStages, Return
  <2>2. call' = call /\ state' = state /\ layers' = layers /\ x' = x
    BY <2>1 DEF stageVars
  <2>3. TrajectoryEnd'
    BY <1>0, <2>1, <2>2 DEF TrajectoryEnd
  <2> QED BY <1>0, <2>1, <2>2, <2>3 DEF TrajectoryInv, RollingOut
<1>3. CASE Propose
  <2>1. /\ assigned' \in call.proposed[state] /\ branches' = << >>
        /\ call' = call /\ state' = state /\ layers' = layers /\ x' = x
        /\ IF assigned' = << >> THEN StartFallback ELSE rhStage' = "rollout"
    BY <1>3 DEF Propose, stageVars
  <2>2. CASE assigned' = << >>
    BY <1>0, <2>1, <2>2, StartFallbackInv
  <2>3. CASE assigned' # << >>
    <3>1. assigned' \in Seq(Assignments)
      BY <1>0, <2>1, TrajectoryTypes, TrajectoryCalls
    <3>2. AreBranches(branches)'
      <4>1. << >> \in Seq({}) /\ Len(<< >>) = 0
        OBVIOUS
      <4> QED BY <4>1, <2>1 DEF AreBranches
    <3> QED BY <1>0, <2>1, <2>3, <3>1, <3>2 DEF TrajectoryInv, RollingOut
  <2> QED BY <2>2, <2>3
<1> QED
  BY <1>1, <1>2, <1>3

\* A list of branches stays one while the trajectory stays where it is.
LEMMA BranchesStay ==
    ASSUME AreBranches(branches), branches' = branches, state' = state
    PROVE  AreBranches(branches)'
  BY DEF AreBranches, IsBranch

LEMMA StartRolloutKeepsInv ==
    ASSUME TrajectoryInv, StartBeam \/ StartIds \/ FallBackToIds
    PROVE  TrajectoryInv'
<1>0. /\ Carried(call.root, layers, state) /\ x \in Nat /\ call \in Trajectories
      /\ assigned \in Seq(Assignments) /\ assigned # << >> /\ AreBranches(branches)
      /\ call' = call /\ state' = state /\ layers' = layers /\ x' = x
      /\ assigned' = assigned /\ branches' = branches
  BY DEF TrajectoryInv, RollingOut, StartBeam, StartIds, FallBackToIds, stageVars
<1>1. PICK p \in Calls : p = RolloutProblem(Head(assigned))
  <2>1. Head(assigned) \in Assignments
    BY <1>0
  <2> QED BY <2>1, TrajectoryCalls
<1>2. StartNext(p) /\ (rhStage' = "ids" \/ StartBeam)
  BY <1>1 DEF TrajectoryInv, StartBeam, StartIds, FallBackToIds
<1>3. IInv' /\ PathInv' /\ problem' = p
  BY <1>2, StartNextInv, StartNextPathInv
<1>4. RolloutProblem(Head(assigned))' = p
  BY <1>0, <1>1 DEF RolloutProblem
<1>5. AreBranches(branches)'
  BY <1>0, BranchesStay
<1>6. CASE rhStage' = "ids"
  BY <1>0, <1>3, <1>4, <1>5, <1>6 DEF TrajectoryInv, RollingOut
<1>7. CASE StartBeam
  <2>1. rhStage' = "beam" /\ beam' = <<1>> /\ pool' = << >> /\ nextBeam' = << >>
    BY <1>7 DEF StartBeam
  <2>2. Faithful(p.cands)
    <3>1. Head(assigned) \in Assignments
      BY <1>0
    <3> QED BY <1>1, <3>1, TrajectoryCalls
  <2>3. Arena'
    <3>1. Faithful(problem.cands)'
      BY <1>3, <2>2 DEF Faithful
    <3>2. (IInv /\ PathInv /\ Faithful(problem.cands))'
      BY <1>3, <3>1
    <3>3. (IInv /\ PathInv /\ Faithful(problem.cands) => Arena)'
      BY LoopArena, PTL
    <3> QED BY <3>2, <3>3
  <2>4. GoalFound' /\ NodeIds' = {1}
    <3>1. /\ nodes' = RootArena(p.root)
          /\ (goal' = 1 /\ p.root \in p.goals) \/ goal' = None
      BY <1>2 DEF StartNext
    <3>2. NodeIds' = {1} /\ nodes'[1].config = p.root
      BY <3>1 DEF RootArena, NodeIds
    <3>3. 1 # None
      BY DEF None
    <3> QED BY <1>3, <3>1, <3>2, <3>3 DEF GoalFound, IsGoal, Config
  <2>5. BeamInv'
    <3>1. << >> \in Seq({}) /\ Len(<< >>) = 0 /\ <<1>> \in Seq({1}) /\ << >> \in Seq({1})
      OBVIOUS
    <3> QED BY <2>1, <2>3, <2>4, <3>1 DEF BeamInv
  <2> QED
    BY <1>0, <1>3, <1>4, <1>5, <2>1, <2>5 DEF TrajectoryInv, RollingOut
<1> QED
  BY <1>2, <1>6, <1>7

----------------------------------------------------------------------------
LEMMA BeamStepsKeepInv ==
    ASSUME TrajectoryInv, Round \/ Apply \/ EndBeam
    PROVE  TrajectoryInv'
<1>0. /\ Carried(call.root, layers, state) /\ x \in Nat /\ call \in Trajectories
      /\ assigned \in Seq(Assignments) /\ assigned # << >> /\ AreBranches(branches)
      /\ BeamInv /\ problem = RolloutProblem(Head(assigned)) /\ Head(assigned) \in Assignments
      /\ rhStage = "beam"
  BY DEF TrajectoryInv, RollingOut, Round, Apply, EndBeam
<1>1. /\ call' = call /\ state' = state /\ layers' = layers /\ x' = x
      /\ assigned' = assigned /\ branches' = branches /\ rhStage' = "beam" /\ problem' = problem
  BY <1>0 DEF Round, Apply, EndBeam, stageVars
<1>2. RolloutProblem(Head(assigned))' = RolloutProblem(Head(assigned))
  BY <1>1 DEF RolloutProblem
<1>3. AreBranches(branches)'
  BY <1>0, <1>1, BranchesStay
<1>4. SUFFICES BeamInv'
  BY <1>0, <1>1, <1>2, <1>3 DEF TrajectoryInv, RollingOut
<1>5. ASSUME UNCHANGED graphVars
      PROVE  /\ Arena' /\ NodeIds' = NodeIds /\ Config(goal)' = nodes[goal'].config
             /\ \A o : IsOption(o) => IsOption(o)'
  <2>1. nodes' = nodes /\ seen' = seen
    BY <1>5 DEF graphVars
  <2>2. GraphInv' /\ RootIsFirst' /\ NodesAreCandidates' /\ NodeIds' = NodeIds
    BY <1>0, <1>1, <2>1 DEF BeamInv, Arena, GraphInv, GraphTypeOK, TreeGrowsForward, TableIsCheapest,
         RootIsFirst, NodesAreCandidates, MadeBy, CandidatesOf, NodeIds, Config, GScore, Depth, Parent
  <2>3. Arena'
    BY <1>0, <1>1, <2>2 DEF BeamInv, Arena, Faithful
  <2>4. \A o : IsOption(o) => IsOption(o)'
    BY <1>1, <2>1, <2>2 DEF IsOption, CandidatesOf, Config
  <2> QED BY <2>1, <2>2, <2>3, <2>4 DEF Config
<1>6. CASE Round
  <2>1. UNCHANGED graphVars /\ goal' = goal /\ beam' = beam /\ nextBeam' = nextBeam
        /\ (pool' = pool \/ pool' = Best(Options))
    BY <1>6 DEF Round, graphVars
  <2>2. /\ \E S : Options \in Seq(S)
        /\ \A k \in 1..Len(Options) : IsOption(Options[k])
    BY <1>0, OptionsAre DEF BeamInv
  <2>3. PICK options : options = Options
    OBVIOUS
  <2>4. (\E S : Best(options) \in Seq(S)) /\ \A k \in 1..Len(Best(options)) : IsOption(Best(options)[k])
    BY <1>0, <2>2, <2>3, BestAreOptions DEF BeamInv
  <2>5. (\E S : pool' \in Seq(S)) /\ \A k \in 1..Len(pool') : IsOption(pool'[k])
    BY <1>0, <2>1, <2>3, <2>4 DEF BeamInv
  <2>6. \A k \in 1..Len(pool') : IsOption(pool[k])'
    <3>1. PICK q : q = pool'
      OBVIOUS
    <3>2. \A k \in 1..Len(q) : IsOption(q[k])'
      BY <2>1, <2>5, <3>1, <1>5
    <3> QED BY <3>1, <3>2 DEF IsOption
  <2>7. GoalFound'
    BY <1>0, <1>1, <1>5, <2>1 DEF BeamInv, GoalFound, IsGoal, Config
  <2> QED
    BY <1>0, <1>5, <2>1, <2>5, <2>6, <2>7 DEF BeamInv
<1>7. CASE EndBeam
  <2>1. UNCHANGED graphVars /\ goal' = goal /\ beam' = beam /\ nextBeam' = nextBeam /\ pool' = pool
    BY <1>7 DEF EndBeam, graphVars, beamVars
  <2>2. GoalFound'
    BY <1>0, <1>1, <1>5, <2>1 DEF BeamInv, GoalFound, IsGoal, Config
  <2>3. \A k \in 1..Len(pool') : IsOption(pool[k])'
    <3>1. \A k \in 1..Len(pool) : IsOption(pool[k])
      BY <1>0 DEF BeamInv
    <3>2. PICK q : q = pool
      OBVIOUS
    <3>3. \A k \in 1..Len(q) : IsOption(q[k])'
      BY <2>1, <3>1, <3>2, <1>5
    <3> QED BY <2>1, <3>2, <3>3 DEF IsOption
  <2> QED
    BY <1>0, <1>5, <2>1, <2>2, <2>3 DEF BeamInv
<1>8. CASE Apply
  <2>1. PICK o : o = Head(pool)
    OBVIOUS
  <2>2. PICK reached : reached = IF Rediscovered(o.cand.config, GScore(o.parent) + 1)
                                 THEN seen[o.cand.config] ELSE NewId
    OBVIOUS
  <2>3. /\ pool # << >>
        /\ IF reached = NewId THEN Insert(o.parent, o.cand.move, o.cand.config, GScore(o.parent) + 1)
                              ELSE UNCHANGED graphVars
        /\ IF o.cand.config \in call.goals
           THEN goal' = reached /\ UNCHANGED <<beam, pool, nextBeam>>
           ELSE /\ pool' = Tail(pool)
                /\ beam' = IF Len(pool) = 1 THEN Append(nextBeam, reached) ELSE beam
                /\ nextBeam' = IF Len(pool) = 1 THEN << >> ELSE Append(nextBeam, reached)
                /\ goal' = goal
    BY <1>8, <2>1, <2>2 DEF Apply
  <2>4. PICK S : pool \in Seq(S)
    BY <1>0 DEF BeamInv
  <2>5. IsOption(o) /\ \A k \in 1..Len(pool) : IsOption(pool[k])
    <3>1. Len(pool) >= 1 /\ o = pool[1]
      BY <2>1, <2>3, <2>4
    <3> QED BY <3>1, <1>0 DEF BeamInv
  <2>6. o.cand.config \in Configs
    <3>1. o.parent \in NodeIds /\ \E j \in 1..Len(CandidatesOf(o.parent)) : o.cand = CandidatesOf(o.parent)[j]
      BY <2>5 DEF IsOption
    <3>2. Config(o.parent) \in Configs
      BY <1>0, <3>1, NodeTypes DEF BeamInv, Arena, GraphInv
    <3>3. CandidatesOf(o.parent) \in Seq(Candidates)
      BY <1>0, <3>2 DEF CandidatesOf, BeamInv, Arena, Calls
    <3>4. o.cand \in Candidates
      BY <3>1, <3>3
    <3> QED BY <3>4 DEF Candidates
  <2>7. /\ Arena' /\ NodeIds \subseteq NodeIds' /\ reached \in NodeIds'
        /\ nodes'[reached].config = o.cand.config
        /\ \A id \in NodeIds : nodes'[id] = nodes[id]
    <3>1. CASE reached = NewId
      BY <1>0, <1>1, <2>3, <2>5, <3>1, InsertKeepsArena DEF BeamInv
    <3>2. CASE reached # NewId
      <4>1. reached = seen[o.cand.config] /\ seen[o.cand.config] # None /\ UNCHANGED graphVars
        BY <2>2, <2>3, <3>2 DEF Rediscovered
      <4>2. reached \in NodeIds /\ Config(reached) = o.cand.config
        <5>1. GraphTypeOK /\ TableIsCheapest
          BY <1>0 DEF BeamInv, Arena, GraphInv
        <5>2. reached \in 0..Len(nodes) /\ reached # 0 /\ Len(nodes) \in Nat
          BY <2>6, <4>1, <5>1 DEF GraphTypeOK, None
        <5> QED BY <2>6, <4>1, <5>1, <5>2 DEF TableIsCheapest, NodeIds
      <4> QED BY <1>5, <4>1, <4>2 DEF graphVars, Config
    <3> QED BY <3>1, <3>2
  <2>8. \A q : IsOption(q) => IsOption(q)'
    BY <1>1, <2>7 DEF IsOption, CandidatesOf, Config
  <2>9. (\E T : pool' \in Seq(T)) /\ \A k \in 1..Len(pool') : IsOption(pool'[k])
    <3>1. CASE pool' = pool
      BY <2>4, <2>5, <3>1
    <3>2. CASE pool' = Tail(pool)
      <4>1. pool' \in Seq(S) /\ Len(pool') = Len(pool) - 1 /\ Len(pool) \in Nat
            /\ \A k \in 1..Len(pool') : pool'[k] = pool[k + 1]
        BY <2>3, <2>4, <3>2
      <4>2. \A k \in 1..Len(pool') : k + 1 \in 1..Len(pool)
        BY <4>1
      <4> QED BY <2>5, <4>1, <4>2
    <3> QED BY <2>3, <3>1, <3>2
  <2>10. \A k \in 1..Len(pool') : IsOption(pool[k])'
    <3>1. PICK q : q = pool'
      OBVIOUS
    <3>2. \A k \in 1..Len(q) : IsOption(q[k])'
      BY <2>8, <2>9, <3>1
    <3> QED BY <3>1, <3>2 DEF IsOption
  <2>11. GoalFound'
    <3>1. CASE goal' = goal
      BY <1>0, <1>1, <2>7, <3>1 DEF BeamInv, GoalFound, IsGoal, Config
    <3>2. CASE goal' = reached /\ o.cand.config \in call.goals
      <4>1. problem.goals = call.goals
        BY <1>0 DEF RolloutProblem
      <4> QED BY <1>1, <2>7, <3>2, <4>1 DEF GoalFound, IsGoal, Config
    <3> QED BY <2>3, <3>1, <3>2
  <2>12. beam' \in Seq(NodeIds') /\ nextBeam' \in Seq(NodeIds')
    <3>1. beam \in Seq(NodeIds') /\ nextBeam \in Seq(NodeIds')
      BY <1>0, <2>7 DEF BeamInv
    <3>2. Append(nextBeam, reached) \in Seq(NodeIds') /\ << >> \in Seq(NodeIds')
      BY <2>7, <3>1
    <3> QED BY <2>3, <3>1, <3>2
  <2> QED
    BY <2>7, <2>9, <2>10, <2>11, <2>12 DEF BeamInv
<1> QED
  BY <1>6, <1>7, <1>8

----------------------------------------------------------------------------
LEMMA SearchOnKeepsInv ==
    ASSUME TrajectoryInv, SearchOn
    PROVE  TrajectoryInv'
<1>0. IInv /\ PathInv /\ Next /\ rhVars' = rhVars /\ rhStage \in {"ids", "fallback"}
  BY DEF TrajectoryInv, SearchOn
<1>1. /\ call' = call /\ state' = state /\ layers' = layers /\ x' = x /\ rhStage' = rhStage
      /\ assigned' = assigned /\ branches' = branches /\ rhAnswer' = rhAnswer
  BY <1>0 DEF rhVars, stageVars
<1>2. IInv' /\ PathInv'
  BY <1>0, StepsKeepInv, StepsKeepPathInv
<1>3. problem' = problem
  BY <1>0, StepsKeepBudget, StepsGrow
<1>4. RolloutProblem(Head(assigned))' = RolloutProblem(Head(assigned)) /\ FallbackProblem' = FallbackProblem
  BY <1>1 DEF RolloutProblem, FallbackProblem
<1>5. AreBranches(branches) => AreBranches(branches)'
  BY <1>1, BranchesStay
<1> QED
  BY <1>0, <1>1, <1>2, <1>3, <1>4, <1>5 DEF TrajectoryInv, RollingOut

LEMMA ClassifyKeepsInv ==
    ASSUME TrajectoryInv, Classify
    PROVE  TrajectoryInv'
<1>0. /\ Carried(call.root, layers, state) /\ x \in Nat /\ call \in Trajectories
      /\ assigned \in Seq(Assignments) /\ assigned # << >> /\ AreBranches(branches)
      /\ problem = RolloutProblem(Head(assigned)) /\ Head(assigned) \in Assignments
  BY DEF TrajectoryInv, RollingOut, Classify
<1>1. /\ call' = call /\ state' = state /\ layers' = layers /\ x' = x
      /\ branches' = branches \o Classified /\ assigned' = Tail(assigned)
      /\ rhStage' = IF Len(assigned) = 1 THEN "pick" ELSE "rollout"
  BY DEF Classify
<1>2. problem.root = state /\ Faithful(problem.cands)
  BY <1>0, TrajectoryCalls
<1>3. Arena /\ goal \in NodeIds \cup {None}
  <2>1. CASE rhStage = "beam"
    BY <2>1 DEF TrajectoryInv, BeamInv, GoalFound
  <2>2. CASE rhStage = "ids"
    <3>1. IInv /\ PathInv
      BY <2>2 DEF TrajectoryInv
    <3> QED BY <3>1, <1>2, LoopArena DEF IInv, TypeOK
  <2> QED BY <2>1, <2>2 DEF Classify
<1>4. BestLeaf(x) \in NodeIds \cup {None}
  BY <1>0, <1>3, BestLeafIsNode
<1>5. \/ Classified = << >>
      \/ \E id \in NodeIds, tier \in {0, 1} : Classified = << Branch(tier, id) >>
  BY <1>3, <1>4 DEF Classified, FallsShort
<1>6. AreBranches(branches)'
  <2>1. CASE Classified = << >>
    <3>1. branches' = branches
      BY <1>0, <1>1, <2>1 DEF AreBranches
    <3> QED BY <1>0, <1>1, <3>1, BranchesStay
  <2>2. CASE \E id \in NodeIds, tier \in {0, 1} : Classified = << Branch(tier, id) >>
    <3>1. PICK id \in NodeIds, tier \in {0, 1} : Classified = << Branch(tier, id) >>
      BY <2>2
    <3>2. PICK b : b = Branch(tier, id)
      OBVIOUS
    <3>3. IsBranch(b)
      BY <1>2, <1>3, <3>2, NodesAreBranches
    <3>4. PICK S : branches \in Seq(S)
      BY <1>0 DEF AreBranches
    <3>5. /\ branches \in Seq(S \cup {b}) /\ << b >> \in Seq(S \cup {b}) /\ Len(<< b >>) = 1
          /\ << b >>[1] = b
      BY <3>4
    <3>6. /\ branches' \in Seq(S \cup {b}) /\ Len(branches') = Len(branches) + 1 /\ Len(branches) \in Nat
          /\ \A i \in 1..Len(branches) : branches'[i] = branches[i]
          /\ branches'[Len(branches) + 1] = b
      BY <1>1, <3>1, <3>2, <3>5
    <3>7. ASSUME NEW i \in 1..Len(branches') PROVE IsBranch(branches'[i])
      <4>1. i \in 1..Len(branches) \/ i = Len(branches) + 1
        BY <3>6
      <4> QED BY <1>0, <3>3, <3>6, <4>1 DEF AreBranches
    <3>8. \A i \in 1..Len(branches') : IsBranch(branches[i])'
      BY <1>1, <3>7 DEF IsBranch
    <3> QED BY <3>6, <3>8 DEF AreBranches
  <2> QED BY <1>5, <2>1, <2>2
<1>7. rhStage' = "rollout" => assigned' \in Seq(Assignments) /\ assigned' # << >>
  <2>1. /\ Tail(assigned) \in Seq(Assignments) /\ Len(Tail(assigned)) = Len(assigned) - 1
        /\ Len(assigned) \in Nat /\ Len(assigned) >= 1
    BY <1>0
  <2>2. CASE Len(assigned) = 1
    BY <1>1, <2>2
  <2>3. CASE Len(assigned) # 1
    <3>1. PICK rest : rest = Tail(assigned)
      OBVIOUS
    <3>2. rest \in Seq(Assignments) /\ Len(rest) >= 1
      BY <2>1, <2>3, <3>1
    <3>3. rest # << >>
      BY <3>2
    <3>4. assigned' = rest
      BY <1>1, <3>1
    <3> QED BY <3>2, <3>3, <3>4
  <2> QED BY <2>2, <2>3
<1> QED
  BY <1>0, <1>1, <1>6, <1>7 DEF TrajectoryInv, RollingOut

LEMMA PickKeepsInv ==
    ASSUME TrajectoryInv, AllDropped \/ Commit
    PROVE  TrajectoryInv'
<1>0. /\ Carried(call.root, layers, state) /\ x \in Nat /\ call \in Trajectories
      /\ AreBranches(branches) /\ call.root \in Configs /\ layers \in Seq(MoveSets) /\ state \in Configs
      /\ call.commit \in Nat /\ call.decrement \in Nat /\ call.horizon \in Nat
  BY TrajectoryTypes, TrajectoryCalls DEF TrajectoryInv, AllDropped, Commit
<1>1. CASE AllDropped
  <2>1. call' = call /\ state' = state /\ layers' = layers
        /\ \/ x' = ShorterHorizon /\ rhStage' = "plan"
           \/ StartFallback /\ x' = x
    BY <1>1 DEF AllDropped
  <2>2. ShorterHorizon \in Nat
    BY <1>0 DEF ShorterHorizon, MaxOf
  <2>3. CASE StartFallback
    BY <1>0, <2>1, <2>2, <2>3, StartFallbackInv
  <2>4. CASE x' = ShorterHorizon /\ rhStage' = "plan"
    BY <1>0, <2>1, <2>2, <2>4 DEF TrajectoryInv, RollingOut
  <2> QED BY <2>1, <2>3, <2>4
<1>2. CASE Commit
  <2>1. PICK b : b = BestBranch
    OBVIOUS
  <2>2. IsBranch(b)
    BY <1>0, <1>2, <2>1, BestBranchIsBranch DEF Commit
  <2>3. /\ b.depth \in Nat /\ b.path \in Seq(MoveSets) /\ Len(b.path) = b.depth
        /\ b.leaf \in Configs /\ ReplayFrom(state, b.path) = b.leaf
    BY <2>2 DEF IsBranch, Carried
  <2>4. CASE CommitCount(BestBranch) = 0
    <3>1. StartFallback /\ UNCHANGED stageVars
      BY <1>2, <2>4 DEF Commit
    <3> QED BY <1>0, <3>1, StartFallbackInv DEF stageVars
  <2>5. CASE CommitCount(BestBranch) # 0
    <3>1. PICK k : k = CommitCount(b)
      OBVIOUS
    <3>2. k \in Nat /\ k >= 1 /\ k <= Len(b.path)
      BY <1>0, <2>1, <2>3, <2>5, <3>1 DEF CommitCount
    <3>3. PICK taken : taken = SubSeq(b.path, 1, k)
      OBVIOUS
    <3>4. taken \in Seq(MoveSets) /\ (k = Len(b.path) => taken = b.path)
      BY <2>3, <3>2, <3>3
    <3>5. /\ state' = (IF k = Len(b.path) THEN b.leaf ELSE ReplayFrom(state, taken))
          /\ layers' = layers \o taken /\ x' = call.horizon /\ rhStage' = "plan" /\ call' = call
      BY <1>2, <2>1, <2>5, <3>1, <3>3 DEF Commit, Advanced
    <3>6. state' = ReplayFrom(state, taken)
      BY <2>3, <3>4, <3>5
    <3>7. state' \in Configs
      BY <1>0, <3>4, <3>6, ReplayTypes
    <3>8. ReplayFrom(call.root, layers \o taken) = ReplayFrom(ReplayFrom(call.root, layers), taken)
      <4>1. PICK from \in Configs : from = call.root
        BY <1>0
      <4>2. PICK path \in Seq(MoveSets) : path = layers
        BY <1>0
      <4> QED BY <3>4, <4>1, <4>2, ReplayOn
    <3>9. layers \o taken \in Seq(MoveSets) /\ ReplayFrom(call.root, layers) = state
      BY <1>0, <3>4 DEF Carried
    <3>10. Carried(call.root, layers, state)'
      <4>1. layers' \in Seq(MoveSets) /\ ReplayFrom(call.root, layers \o taken) = state'
        BY <3>5, <3>6, <3>8, <3>9
      <4> QED BY <3>5, <3>7, <4>1 DEF Carried
    <3> QED BY <1>0, <3>5, <3>10 DEF TrajectoryInv, RollingOut
  <2> QED BY <2>4, <2>5
<1> QED
  BY <1>1, <1>2

LEMMA MergeKeepsInv ==
    ASSUME TrajectoryInv, Merge
    PROVE  TrajectoryInv'
<1>0. /\ Carried(call.root, layers, state) /\ x \in Nat /\ call \in Trajectories
      /\ IInv /\ PathInv /\ problem = FallbackProblem /\ pc = "done"
      /\ call.root \in Configs /\ layers \in Seq(MoveSets) /\ state \in Configs
      /\ problem.root = state /\ problem.goals = call.fallbackGoals /\ Faithful(problem.cands)
  BY TrajectoryCalls DEF TrajectoryInv, Merge
<1>1. /\ call' = call /\ state' = state /\ layers' = layers /\ x' = x /\ rhStage' = "returned"
      /\ IF goal = None
         THEN rhAnswer' = [status |-> Status, move_layers |-> layers, goal_config |-> Config(1),
                           cost |-> 0, nodes_expanded |-> total + expanded]
         ELSE rhAnswer' = [status |-> "Solved", move_layers |-> layers \o ReconstructPath(goal),
                           goal_config |-> Config(goal),
                           cost |-> Len(layers \o ReconstructPath(goal)),
                           nodes_expanded |-> total + expanded]
  BY DEF Merge, Return, stageVars
<1>2. Arena /\ goal \in NodeIds \cup {None} /\ (goal # None => IsGoal(goal)) /\ Config(1) = problem.root
  BY <1>0, LoopArena DEF IInv, TypeOK, LoopInv, ControlOK, RootIsFirst
<1>3. TrajectoryEnd'
  <2>1. CASE goal = None
    <3>1. Status # "Solved" /\ Config(1) = state
      BY <1>0, <1>2, <2>1 DEF Status
    <3> QED BY <1>0, <1>1, <2>1, <3>1 DEF TrajectoryEnd
  <2>2. CASE goal # None
    <3>1. PICK path : path = ReconstructPath(goal)
      OBVIOUS
    <3>2. /\ path \in Seq(MoveSets) /\ Config(goal) \in Configs
          /\ ReplayFrom(state, path) = Config(goal)
      BY <1>0, <1>2, <2>2, <3>1, NodesReplay
    <3>3. ReplayFrom(call.root, layers \o path) = ReplayFrom(ReplayFrom(call.root, layers), path)
      <4>1. PICK from \in Configs : from = call.root
        BY <1>0
      <4>2. PICK before \in Seq(MoveSets) : before = layers
        BY <1>0
      <4> QED BY <3>2, <4>1, <4>2, ReplayOn
    <3>4. ReplayFrom(call.root, layers) = state
      BY <1>0 DEF Carried
    <3>5. layers \o path \in Seq(MoveSets) /\ Len(layers \o path) \in Nat
      BY <1>0, <3>2
    <3>6. Config(goal) \in call.fallbackGoals
      BY <1>0, <1>2, <2>2 DEF IsGoal
    <3>7. Carried(call.root, layers \o path, Config(goal))
      BY <3>2, <3>3, <3>4, <3>5 DEF Carried
    <3>8. /\ rhAnswer'.status = "Solved" /\ rhAnswer'.move_layers = layers \o path
          /\ rhAnswer'.goal_config = Config(goal) /\ rhAnswer'.cost = Len(layers \o path)
      BY <1>1, <2>2, <3>1
    <3>9. call'.root = call.root /\ call'.goals = call.goals /\ call'.fallbackGoals = call.fallbackGoals
      BY <1>1
    <3> QED BY <3>5, <3>6, <3>7, <3>8, <3>9 DEF TrajectoryEnd, Carried
  <2> QED BY <2>1, <2>2
<1> QED
  BY <1>0, <1>1, <1>3 DEF TrajectoryInv, RollingOut

LEMMA TrajectoryStepsKeepInv ==
    ASSUME TrajectoryInv, TNext
    PROVE  TrajectoryInv'
  BY PlanKeepsInv, StartRolloutKeepsInv, BeamStepsKeepInv, SearchOnKeepsInv, ClassifyKeepsInv,
     PickKeepsInv, MergeKeepsInv DEF TNext

----------------------------------------------------------------------------
(***************************************************************************)
(* The placements: what they ask for, and what is true where it is found.  *)
(***************************************************************************)
\* A target that is searched from somewhere else, with another budget.
LEMMA TowardIsSolve ==
    ASSUME NEW target, IsTargetSolve(placement, target),
           NEW from \in Configs, NEW budget \in Nat \cup {NoLimit}
    PROVE  /\ IsSolve(SolveToward(target, from, budget))
           /\ SolveToward(target, from, budget).root = from
           /\ SolveToward(target, from, budget).goals = AtTarget(target)
           /\ SolveToward(target, from, budget).maxExpansions = budget
<1>1. PICK r : r = Toward(placement, target)
  OBVIOUS
<1>2. PICK s : s = [r EXCEPT !.root = from, !.maxExpansions = budget]
  OBVIOUS
<1>3. SolveToward(target, from, budget) = s
  BY <1>1, <1>2 DEF SolveToward
<1>4. IsSolve(r) /\ r.goals = AtTarget(target) /\ IsRequest(r) /\ RequestFields \subseteq DOMAIN r
  BY <1>1 DEF IsTargetSolve, IsSolve
<1>5. /\ DOMAIN s = DOMAIN r /\ s.root = from /\ s.maxExpansions = budget
      /\ s.goals = r.goals /\ s.strategy = r.strategy /\ s.inner = r.inner /\ s.restarts = r.restarts
      /\ s.baseSeed = r.baseSeed /\ s.configured = r.configured /\ s.blockers = r.blockers
      /\ s.hMax = r.hMax /\ s.hSum = r.hSum /\ s.weight = r.weight
  BY <1>2, <1>4 DEF RequestFields
<1>6. Runs(s) = Runs(r)
  BY <1>5 DEF Runs
<1>7. ASSUME NEW i \in 0..(Runs(r) - 1)
      PROVE  RunProblem(s, i) \in Calls /\ Faithful(RunProblem(s, i).cands)
  <2>1. RunProblem(r, i) \in Calls /\ Faithful(RunProblem(r, i).cands)
    BY <1>4, <1>7 DEF IsRequest, IsSolve
  <2>2. PICK p \in Calls : p = RunProblem(r, i)
    BY <2>1
  <2>3. Policy(s) = Policy(r) /\ Seed(s, i) = Seed(r, i)
    BY <1>5 DEF Policy, Seed
  <2>4. RunProblem(s, i) = [root |-> from, goals |-> p.goals, policy |-> p.policy, weight |-> p.weight,
                            cands |-> p.cands, h |-> p.h, maxExpansions |-> budget, maxDepth |-> p.maxDepth]
    BY <1>5, <2>2, <2>3 DEF RunProblem
  <2>5. RunProblem(s, i) \in Calls
    BY <2>4 DEF Calls
  <2>6. RunProblem(s, i).cands = p.cands
    BY <2>4
  <2> QED BY <2>1, <2>2, <2>5, <2>6
<1>8. ASSUME s.strategy = "cascade" PROVE RefineProblem(s, 0) \in Calls /\ Faithful(s.blockers[0])
  <2>1. RefineProblem(r, 0) \in Calls /\ Faithful(r.blockers[0])
    BY <1>4, <1>5, <1>8 DEF IsRequest, IsSolve
  <2>2. PICK p \in Calls : p = RefineProblem(r, 0)
    BY <2>1
  <2>3. RefineProblem(s, 0) =
          [root |-> from, goals |-> p.goals, policy |-> p.policy, weight |-> p.weight,
           cands |-> p.cands, h |-> p.h, maxExpansions |-> budget, maxDepth |-> p.maxDepth]
    BY <1>5, <2>2 DEF RefineProblem
  <2> QED BY <1>5, <2>1, <2>3 DEF Calls
<1>9. IsRequest(s)
  BY <1>4, <1>5, <1>6, <1>7, <1>8 DEF IsRequest
<1>10. IsSolve(s)
  BY <1>4, <1>5, <1>6, <1>7, <1>8, <1>9 DEF IsSolve
<1> QED
  BY <1>3, <1>4, <1>5, <1>10

\* The target of the second phase: of a pair that can be joined one atom goes to
\* the partner of the other, and the pairs passed over stay where they are.
StagedWell(from, c) ==
    \A i \in DOMAIN pairs :
        IF Stageable(from, pairs[i]) THEN Joined(c, pairs[i])
        ELSE \A q \in {pairs[i][1], pairs[i][2]} : c[q] = from[q]

LEMMA StagingBringsTogether ==
    ASSUME placement \in Placements, NEW from \in Configs
    PROVE  /\ StagedTarget(from) \in [Qubits -> DOMAIN PartnerOf]
           /\ \A c \in AtTarget(StagedTarget(from)) : StagedWell(from, c)
<1> DEFINE I == DOMAIN pairs
           J == {i \in I : Stageable(from, pairs[i])}
           target == StagedTarget(from)
<1>0. /\ from \in [Qubits -> DOMAIN PartnerOf] /\ DOMAIN from = Qubits
      /\ \A i \in I : /\ pairs[i][1] \in Qubits /\ pairs[i][2] \in Qubits /\ pairs[i][1] # pairs[i][2]
      /\ \A i, j \in I : i # j => {pairs[i][1], pairs[i][2]} \cap {pairs[j][1], pairs[j][2]} = {}
  <2>1. IsPlacement(placement)
    BY PlacementsAssumption
  <2>2. pairs \in Seq(Qubits \X Qubits)
    BY <2>1 DEF IsPlacement, pairs
  <2>3. \A i \in I : pairs[i] \in Qubits \X Qubits
    BY <2>2
  <2> QED BY <2>1, <2>3, LocationsAssumption DEF IsPlacement, pairs
<1>1. /\ \A q \in Qubits : from[q] \in DOMAIN PartnerOf
      /\ \A i \in J : \A q \in {pairs[i][1], pairs[i][2]} : PartnerOf[from[q]] \in DOMAIN PartnerOf
  <2>1. ASSUME NEW i \in J, NEW q \in {pairs[i][1], pairs[i][2]}
        PROVE  PartnerOf[from[q]] \in DOMAIN PartnerOf
    <3>1. q \in Qubits /\ PartnerOf[from[q]] # Nowhere
      BY <1>0 DEF Stageable
    <3> QED BY <1>0, <3>1, PartnersAssumption
  <2> QED BY <1>0, <2>1
<1> DEFINE mover(i) == Mover(from, pairs[i])
           other(i) == IF mover(i) = pairs[i][1] THEN pairs[i][2] ELSE pairs[i][1]
           movers == {mover(i) : i \in J}
<1>2. /\ \A i \in I : /\ mover(i) \in {pairs[i][1], pairs[i][2]} /\ mover(i) \in Qubits
                      /\ other(i) \in {pairs[i][1], pairs[i][2]} /\ other(i) \in Qubits /\ other(i) # mover(i)
      /\ J \subseteq I
  <2>1. ASSUME NEW i \in I
        PROVE  /\ mover(i) \in {pairs[i][1], pairs[i][2]} /\ mover(i) \in Qubits
               /\ other(i) \in {pairs[i][1], pairs[i][2]} /\ other(i) \in Qubits /\ other(i) # mover(i)
    <3>1. mover(i) \in {pairs[i][1], pairs[i][2]}
      BY DEF Mover
    <3> HIDE DEF mover, I
    <3> QED BY <1>0, <3>1
  <2>2. J \subseteq I
    OBVIOUS
  <2> HIDE DEF mover, other, I, J
  <2> QED BY <2>1, <2>2
<1>3. \A i, j \in I : mover(i) \in {pairs[j][1], pairs[j][2]} \/ other(i) \in {pairs[j][1], pairs[j][2]} => i = j
  <2> HIDE DEF mover, other, I, J
  <2> QED BY <1>0, <1>2
<1> DEFINE chosen == [q \in movers |-> LET i == CHOOSE i \in J : mover(i) = q IN Joins(from, pairs[i], q)]
<1>4. target = [q \in Qubits |-> IF q \in DOMAIN chosen THEN chosen[q] ELSE from[q]]
  <2>1. target = [q \in DOMAIN from |-> IF q \in DOMAIN chosen THEN chosen[q] ELSE from[q]]
    BY DEF StagedTarget
  <2> HIDE DEF chosen, target
  <2> QED BY <1>0, <2>1
<1>5. \A i \in J : chosen[mover(i)] = PartnerOf[from[other(i)]] /\ mover(i) \in movers
  <2> SUFFICES ASSUME NEW i \in J
               PROVE  chosen[mover(i)] = PartnerOf[from[other(i)]] /\ mover(i) \in movers
    OBVIOUS
  <2>1. mover(i) \in movers
    OBVIOUS
  <2>2. (CHOOSE j \in J : mover(j) = mover(i)) = i
    <3> HIDE DEF mover, I, J
    <3> QED BY <1>2, <1>3
  <2>3. chosen[mover(i)] = Joins(from, pairs[i], mover(i))
    <3> HIDE DEF mover, I, J
    <3> QED BY <2>1, <2>2
  <2>4. Joins(from, pairs[i], mover(i)) = PartnerOf[from[other(i)]]
    BY DEF Joins
  <2> QED BY <2>1, <2>3, <2>4
<1>6. /\ \A i \in J : other(i) \notin movers
      /\ \A i \in I \ J : mover(i) \notin movers /\ other(i) \notin movers
  <2>1. \A q \in movers : \E j \in J : q = mover(j)
    OBVIOUS
  <2> HIDE DEF mover, other, I, J, movers
  <2> QED BY <1>2, <1>3, <2>1
<1>7. DOMAIN chosen = movers
  OBVIOUS
<1>8. /\ \A i \in J : target[mover(i)] = PartnerOf[from[other(i)]] /\ target[other(i)] = from[other(i)]
      /\ \A q \in Qubits \ movers : target[q] = from[q]
  <2> HIDE DEF mover, other, I, J, chosen, movers, target
  <2> QED BY <1>2, <1>4, <1>5, <1>6, <1>7
<1>9. target \in [Qubits -> DOMAIN PartnerOf]
  <2>1. \A q \in movers : \E i \in J : q = mover(i)
    OBVIOUS
  <2>2. ASSUME NEW q \in Qubits PROVE target[q] \in DOMAIN PartnerOf
    <3> HIDE DEF mover, other, I, J, chosen, movers, target
    <3>1. CASE q \in movers
      <4>1. PICK i \in J : q = mover(i)
        BY <2>1, <3>1
      <4> QED BY <1>1, <1>2, <1>8, <4>1
    <3>2. CASE q \notin movers
      BY <1>1, <1>8, <3>2
    <3> QED BY <3>1, <3>2
  <2>3. target = [q \in Qubits |-> target[q]]
    <3> HIDE DEF chosen
    <3> QED BY <1>4
  <2> HIDE DEF target
  <2> QED BY <2>2, <2>3
<1>10. ASSUME NEW c \in AtTarget(target), NEW i \in I
       PROVE  IF i \in J THEN Joined(c, pairs[i])
              ELSE \A q \in {pairs[i][1], pairs[i][2]} : c[q] = from[q]
  <2>1. \A q \in Qubits : c[q] = target[q]
    <3>1. DOMAIN target = Qubits
      <4> HIDE DEF target
      <4> QED BY <1>9
    <3> HIDE DEF target
    <3> QED BY <3>1 DEF AtTarget
  <2>2. mover(i) \in {pairs[i][1], pairs[i][2]}
    BY <1>2
  <2>3. {pairs[i][1], pairs[i][2]} = {mover(i), other(i)}
    <3>1. CASE mover(i) = pairs[i][1]
      <4>1. other(i) = pairs[i][2]
        BY <3>1
      <4> HIDE DEF mover, other, I, J
      <4> QED BY <3>1, <4>1
    <3>2. CASE mover(i) # pairs[i][1]
      <4>1. other(i) = pairs[i][1] /\ mover(i) = pairs[i][2]
        BY <2>2, <3>2
      <4> HIDE DEF mover, other, I, J
      <4> QED BY <4>1
    <3> QED BY <3>1, <3>2
  <2>4. ASSUME i \in J PROVE Joined(c, pairs[i])
    <3>1. c[mover(i)] = PartnerOf[c[other(i)]]
      <4> HIDE DEF mover, other, I, J, target
      <4> QED BY <1>2, <1>8, <2>1, <2>4
    <3>2. CASE mover(i) = pairs[i][1]
      <4>1. other(i) = pairs[i][2]
        BY <3>2
      <4> HIDE DEF mover, other, I, J
      <4> QED BY <3>1, <3>2, <4>1 DEF Joined
    <3>3. CASE mover(i) # pairs[i][1]
      <4>1. other(i) = pairs[i][1] /\ mover(i) = pairs[i][2]
        BY <2>2, <3>3
      <4> HIDE DEF mover, other, I, J
      <4> QED BY <3>1, <4>1 DEF Joined
    <3> QED BY <3>2, <3>3
  <2>5. ASSUME i \notin J PROVE \A q \in {pairs[i][1], pairs[i][2]} : c[q] = from[q]
    <3> HIDE DEF mover, other, I, J, target, movers
    <3> QED BY <1>2, <1>6, <1>8, <2>1, <2>3, <2>5
  <2> HIDE DEF J
  <2> QED BY <2>4, <2>5
<1>11. ASSUME NEW c \in AtTarget(target) PROVE StagedWell(from, c)
  <2>1. \A i \in I : i \in J <=> Stageable(from, pairs[i])
    OBVIOUS
  <2> HIDE DEF J, target
  <2> QED BY <1>10, <1>11, <2>1 DEF StagedWell
<1> QED
  BY <1>9, <1>11

----------------------------------------------------------------------------
(***************************************************************************)
(* The invariant of a placement: what is under way is sound, and what the  *)
(* attempts returned can be carried out.                                   *)
(***************************************************************************)
Executable(res) ==
    /\ res.cost \in Nat
    /\ Carried(root, res.move_layers, res.goal_config)
    /\ res.status = "Solved" => res.cost = Len(res.move_layers)
    /\ res.status # "Solved" =>
          /\ res.cost = 0
          /\ placement.kind # "horizon" => res.move_layers = << >> /\ res.goal_config = root

\* What an attempt is to reach: with nohome, its layout, whatever that is.
Wanted(c) == placement.kind # "nohome" => Entangled(c)

IsAttempt(res) == Executable(res) /\ (res.status = "Solved" => Wanted(res.goal_config))
AreAttempts(rs) == IsResults(rs) /\ \A i \in 1..Len(rs) : IsAttempt(rs[i])

EndsWell(res) == Executable(res) /\ (res.status = "Solved" => BroughtTogether(res.goal_config))

Staging ==
    /\ placement.kind = "nohome" /\ SolveSound
    /\ \A c \in request.goals : StagedWell(StagedFrom, c)
    /\ request.root = StagedFrom
    /\ attempts # << >> => Home # {}

PlacementInv ==
    /\ placement \in Placements
    /\ step \in {"next", "solving", "staging", "horizon", "done"}
    /\ position \in Nat \ {0} /\ remaining \in Nat \cup {NoLimit}
    /\ AreAttempts(attempts)
    /\ placement.kind = "nohome" /\ ~ Returning => attempts = << >>
    /\ step = "solving" => /\ SolveSound /\ request.root = root /\ \A c \in request.goals : Wanted(c)
                           /\ placement.kind = "nohome" => Returning
    /\ step = "staging" => Staging
    /\ step = "horizon" =>
          placement.kind = "horizon" /\ TrajectoryInv /\ call = placement.trajectory
    /\ Done => EndsWell(outcome)

\* What everything below starts from.
LEMMA PlacementTypes ==
    ASSUME PlacementInv
    PROVE  /\ IsPlacement(placement) /\ root \in Configs /\ placement.budget \in Nat \cup {NoLimit}
           /\ IsResults(attempts) /\ Len(attempts) \in Nat
           /\ \A i \in 1..Len(attempts) : IsAttempt(attempts[i])
           /\ Carried(root, << >>, root)
<1>1. IsPlacement(placement)
  BY PlacementsAssumption DEF PlacementInv
<1>2. root \in Configs /\ placement.budget \in Nat \cup {NoLimit}
  BY <1>1 DEF IsPlacement, root
<1>3. Carried(root, << >>, root)
  <2>1. PICK c \in Configs : c = root
    BY <1>2
  <2> QED BY <2>1, NoMoves
<1> QED
  BY <1>1, <1>2, <1>3 DEF PlacementInv, AreAttempts, IsResults

LEMMA BestReturnIsHome ==
    ASSUME PlacementInv, Home # {}
    PROVE  /\ BestReturn.status = "Solved"
           /\ \E i \in 1..Len(attempts) : BestReturn = attempts[i]
<1>0. Len(attempts) \in Nat /\ DOMAIN attempts = 1..Len(attempts)
      /\ \A i \in 1..Len(attempts) : Len(attempts[i].move_layers) \in Nat
  <2>1. Len(attempts) \in Nat /\ \A i \in 1..Len(attempts) : IsAttempt(attempts[i])
    BY PlacementTypes
  <2>2. \A i \in 1..Len(attempts) : attempts[i].move_layers \in Seq(MoveSets)
    BY <2>1 DEF IsAttempt, Executable, Carried
  <2>3. \A i \in 1..Len(attempts) : Len(attempts[i].move_layers) \in Nat
    BY <2>2
  <2>4. \E S : attempts \in Seq(S)
    BY DEF PlacementInv, AreAttempts, IsResults
  <2> QED BY <2>1, <2>3, <2>4
<1> DEFINE moves(i) == Len(attempts[i].move_layers)
           best(i) == \A j \in Home : moves(i) < moves(j) \/ (moves(i) = moves(j) /\ i <= j)
           f == [i \in Home |-> moves(i)]
<1>1. Home \subseteq 1..Len(attempts) /\ \A i \in Home : attempts[i].status = "Solved"
  BY <1>0 DEF Home
<1>2. PICK i \in Home : \A j \in Home \ {i} :
              f[i] < f[j] \/ (f[i] = f[j] /\ (f[i] < f[j] \/ (f[i] = f[j] /\ i < j)))
  <2>1. Home \in SUBSET Nat
    BY <1>0, <1>1
  <2>2. IsFiniteSet(Home)
    <3>1. IsFiniteSet(1..Len(attempts))
      BY <1>0, FS_Interval
    <3> QED BY <1>1, <3>1, FS_Subset
  <2>3. f \in [Home -> Int]
    BY <1>0, <1>1
  <2> HIDE DEF f
  <2> QED BY <2>1, <2>2, <2>3, LexicographicFirst
<1>3. best(i)
  <2>1. ASSUME NEW j \in Home PROVE moves(i) < moves(j) \/ (moves(i) = moves(j) /\ i <= j)
    <3>1. i \in Nat /\ j \in Nat /\ moves(i) \in Nat /\ moves(j) \in Nat
      BY <1>0, <1>1
    <3>2. j # i => f[i] < f[j] \/ (f[i] = f[j] /\ i < j)
      BY <1>2
    <3>3. f[i] = moves(i) /\ f[j] = moves(j)
      OBVIOUS
    <3> HIDE DEF f, moves
    <3> QED BY <3>1, <3>2, <3>3
  <2> QED BY <2>1
<1> DEFINE b == CHOOSE k \in Home : best(k)
<1>4. b \in Home
  <2> HIDE DEF best
  <2> QED BY <1>3
<1>5. BestReturn = attempts[b]
  BY DEF BestReturn
<1> HIDE DEF b
<1> QED
  BY <1>1, <1>4, <1>5

\* An attempt that is added is one of the attempts.
LEMMA AddedAttempt ==
    ASSUME NEW rs, AreAttempts(rs), NEW res, IsAttempt(res)
    PROVE  AreAttempts(Append(rs, res))
<1>1. PICK S : rs \in Seq(S)
  BY DEF AreAttempts, IsResults
<1> DEFINE more == Append(rs, res)
<1>2. /\ more \in Seq(S \cup {res}) /\ Len(more) = Len(rs) + 1 /\ Len(rs) \in Nat
      /\ \A i \in 1..Len(rs) : more[i] = rs[i]
      /\ more[Len(rs) + 1] = res
  BY <1>1
<1> HIDE DEF more
<1>3. ASSUME NEW i \in 1..Len(more) PROVE IsAttempt(more[i])
  <2>1. i \in 1..Len(rs) \/ i = Len(rs) + 1
    BY <1>2
  <2> QED BY <1>2, <2>1 DEF AreAttempts
<1>4. \A i \in 1..Len(more) : more[i].cost \in Nat
  BY <1>3 DEF IsAttempt, Executable
<1> QED
  BY <1>2, <1>3, <1>4 DEF AreAttempts, IsResults, more

\* What a solve call from the root returns is an attempt.
LEMMA AnswersAreAttempts ==
    ASSUME PlacementInv, step = "solving", Returned
    PROVE  IsAttempt(answer) /\ answer.nodes_expanded \in Nat
<1>1. /\ SolveSound /\ request.root = root /\ \A c \in request.goals : Wanted(c)
  BY DEF PlacementInv
<1>2. Sound(request, answer) /\ Honest(request, answer)
  BY <1>1 DEF SolveSound, AnswerTold
<1> QED
  BY <1>1, <1>2 DEF Sound, Honest, IsAttempt, Executable

\* What is said of attempts depends on the placement alone; what is said of the
\* outcome of nohome depends on its attempts as well.
LEMMA PlacementStays ==
    ASSUME placement' = placement
    PROVE  /\ AreAttempts(attempts') => AreAttempts(attempts)'
           /\ Returning' = Returning
           /\ \A c : Wanted(c)' = Wanted(c) /\ Entangled(c)' = Entangled(c)
           /\ attempts' = attempts => /\ StagedFrom' = StagedFrom /\ Home' = Home
                                      /\ BestReturn' = BestReturn
<1>1. root' = root /\ pairs' = pairs
  BY DEF root, pairs
<1>2. \A c : Wanted(c)' = Wanted(c) /\ Entangled(c)' = Entangled(c)
  BY <1>1 DEF Wanted, Entangled, Together
<1>3. ASSUME AreAttempts(attempts') PROVE AreAttempts(attempts)'
  <2>1. IsResults(attempts)'
    BY <1>3 DEF AreAttempts, IsResults
  <2>2. ASSUME NEW i \in 1..Len(attempts') PROVE IsAttempt(attempts[i])'
    <3>1. IsAttempt(attempts'[i])
      BY <1>3, <2>2 DEF AreAttempts
    <3> QED BY <1>1, <1>2, <3>1 DEF IsAttempt, Executable, Carried
  <2> QED BY <2>1, <2>2 DEF AreAttempts
<1>4. Returning' = Returning
  BY <1>1 DEF Returning, IsHome
<1>5. ASSUME attempts' = attempts
      PROVE  StagedFrom' = StagedFrom /\ Home' = Home /\ BestReturn' = BestReturn
  <2>1. Home' = Home
    BY <1>5 DEF Home
  <2>2. BestReturn' = BestReturn
    BY <1>5, <2>1 DEF BestReturn
  <2> QED BY <1>1, <1>5, <2>1, <2>2 DEF StagedFrom
<1> QED
  BY <1>2, <1>3, <1>4, <1>5

LEMMA OutcomeStays ==
    ASSUME placement' = placement, placement.kind = "nohome" => attempts' = attempts,
           EndsWell(outcome')
    PROVE  EndsWell(outcome)'
<1>1. /\ root' = root /\ pairs' = pairs
      /\ placement.kind = "nohome" => StagedFrom' = StagedFrom
  BY PlacementStays DEF root, pairs
<1>2. Executable(outcome)' /\ outcome'.status = outcome'.status
  BY <1>1 DEF EndsWell, Executable, Carried
<1>3. ASSUME outcome'.status = "Solved" PROVE BroughtTogether(outcome.goal_config)'
  BY <1>1, <1>3 DEF EndsWell, BroughtTogether, Stageable, Joined, PassedOver, Entangled, Together
<1> QED
  BY <1>2, <1>3 DEF EndsWell

----------------------------------------------------------------------------
\* A search begins, in the way it began for the call.
LEMMA StartSolvingInv ==
    ASSUME PlacementInv, NEW r, IsSolve(r), StartSolve(r), r.root = root,
           \A c \in r.goals : Wanted(c), placement.kind = "nohome" => Returning,
           placement' = placement, step' = "solving",
           attempts' = attempts, position' = position, remaining' = remaining
    PROVE  PlacementInv'
<1>1. SolveSound' /\ request' = r
  BY StartSolveSound
<1>2. AreAttempts(attempts)' /\ root' = root /\ \A c \in request'.goals : Wanted(c)'
  BY <1>1, PlacementStays DEF PlacementInv, root
<1>3. \A c \in request'.goals : Wanted(c)' = Wanted(c)
  BY PlacementStays
<1>4. (\A c \in request.goals : Wanted(c))'
  BY <1>2
<1>5. Returning' = Returning
  BY PlacementStays
<1> QED
  BY <1>1, <1>2, <1>4, <1>5 DEF PlacementInv, Done

LEMMA StartStagingInv ==
    ASSUME PlacementInv, placement.kind = "nohome", NEW from \in Configs,
           StartStaging(from), from = StagedFrom, attempts # << >> => Home # {}
    PROVE  PlacementInv'
<1>0. /\ StartSolve(SolveToward(StagedTarget(from), from, placement.budget)) /\ step' = "staging"
      /\ placement' = placement /\ position' = position /\ attempts' = attempts /\ remaining' = remaining
  BY DEF StartStaging
<1>1. /\ IsTargetSolve(placement, StagedTarget(from))
      /\ \A c \in AtTarget(StagedTarget(from)) : StagedWell(from, c)
  <2>1. PICK target : target = StagedTarget(from)
    OBVIOUS
  <2>2. target \in [Qubits -> DOMAIN PartnerOf] /\ \A c \in AtTarget(target) : StagedWell(from, c)
    BY <2>1, StagingBringsTogether DEF PlacementInv
  <2>3. IsTargetSolve(placement, target)
    BY <2>2, PlacementTypes DEF IsPlacement
  <2> QED BY <2>1, <2>2, <2>3
<1>2. PICK r : r = SolveToward(StagedTarget(from), from, placement.budget)
  OBVIOUS
<1>3. IsSolve(r) /\ r.root = from /\ r.goals = AtTarget(StagedTarget(from))
  <2>1. PICK target : target = StagedTarget(from)
    OBVIOUS
  <2>2. PICK budget \in Nat \cup {NoLimit} : budget = placement.budget
    BY PlacementTypes
  <2>3. IsTargetSolve(placement, target) /\ r = SolveToward(target, from, budget)
    BY <1>1, <1>2, <2>1, <2>2
  <2>4. IsSolve(r) /\ r.root = from /\ r.goals = AtTarget(target)
    BY <2>3, TowardIsSolve
  <2> QED BY <2>1, <2>4
<1>4. SolveSound' /\ request' = r
  BY <1>0, <1>2, <1>3, StartSolveSound
<1>5. AreAttempts(attempts)' /\ Returning' = Returning /\ root' = root
  BY <1>0, PlacementStays DEF PlacementInv, root
<1>6. Home' = Home /\ StagedFrom' = StagedFrom
  BY <1>0, PlacementStays
<1>7. (\A c \in request.goals : StagedWell(StagedFrom, c))'
  <2>1. \A c : StagedWell(StagedFrom, c)' = StagedWell(StagedFrom, c)
    BY <1>0, <1>6 DEF StagedWell, Stageable, Joined, pairs
  <2> QED BY <1>1, <1>3, <1>4, <2>1
<1>8. Staging'
  BY <1>0, <1>3, <1>4, <1>5, <1>6, <1>7 DEF Staging
<1> QED
  BY <1>0, <1>5, <1>8 DEF PlacementInv, Done

LEMMA StartsKeepInv ==
    ASSUME PlacementInv, SolveLoose \/ TryCandidate \/ RouteLayout
    PROVE  PlacementInv'
<1>1. CASE SolveLoose
  <2>1. PICK r : r = placement.request
    OBVIOUS
  <2>2. IsSolve(r) /\ r.root = root /\ \A c \in r.goals : Wanted(c)
    BY <1>1, <2>1, PlacementTypes DEF SolveLoose, IsPlacement, root, pairs, Wanted, Entangled
  <2>3. StartSolve(r)
    BY <1>1, <2>1 DEF SolveLoose
  <2>4. placement.kind # "nohome"
    BY <1>1 DEF SolveLoose
  <2> QED BY <1>1, <2>2, <2>3, <2>4, StartSolvingInv DEF SolveLoose
<1>2. CASE TryCandidate
  <2>1. PICK target : target = TargetList[position]
    OBVIOUS
  <2>2. IsTargetSolve(placement, target)
    <3>1. position \in 1..Len(placement.candidates)
      BY <1>2, PlacementTypes DEF PlacementInv, TryCandidate, TargetList, IsPlacement
    <3> QED BY <1>2, <2>1, <3>1, PlacementTypes DEF TryCandidate, IsPlacement, TargetList
  <2>3. \A c \in AtTarget(target) : Wanted(c)
    <3>1. Valid(target) /\ placement.kind = "single"
      BY <1>2, <2>1 DEF TryCandidate
    <3>2. \A c \in AtTarget(target) : \A i \in DOMAIN pairs : PartnerOf[c[pairs[i][2]]] = c[pairs[i][1]]
      BY <3>1 DEF Valid, AtTarget
    <3> QED BY <3>1, <3>2 DEF Wanted, Entangled, Together
  <2>4. PICK from \in Configs : from = root
    BY PlacementTypes
  <2>5. PICK budget \in Nat \cup {NoLimit} : budget = remaining
    BY DEF PlacementInv
  <2>6. PICK r : r = SolveToward(target, from, budget)
    OBVIOUS
  <2>7. IsSolve(r) /\ r.root = from /\ r.goals = AtTarget(target)
    BY <2>2, <2>6, TowardIsSolve
  <2>8. StartSolve(r)
    BY <1>2, <2>1, <2>4, <2>5, <2>6 DEF TryCandidate
  <2>9. placement.kind # "nohome"
    BY <1>2 DEF TryCandidate
  <2> QED BY <1>2, <2>3, <2>4, <2>7, <2>8, <2>9, StartSolvingInv DEF TryCandidate
<1>3. CASE RouteLayout
  <2>1. PICK target : target = placement.layouts[position]
    OBVIOUS
  <2>2. IsTargetSolve(placement, target)
    <3>1. position \in 1..Len(placement.layouts)
      BY <1>3, PlacementTypes DEF PlacementInv, RouteLayout, IsPlacement
    <3> QED BY <1>3, <2>1, <3>1, PlacementTypes DEF RouteLayout, IsPlacement
  <2>3. \A c \in AtTarget(target) : Wanted(c)
    BY <1>3 DEF RouteLayout, Wanted
  <2>4. PICK from \in Configs : from = root
    BY PlacementTypes
  <2>5. PICK budget \in Nat \cup {NoLimit} : budget = placement.budget
    BY PlacementTypes
  <2>6. PICK r : r = SolveToward(target, from, budget)
    OBVIOUS
  <2>7. IsSolve(r) /\ r.root = from /\ r.goals = AtTarget(target)
    BY <2>2, <2>6, TowardIsSolve
  <2>8. StartSolve(r)
    BY <1>3, <2>1, <2>4, <2>5, <2>6 DEF RouteLayout
  <2> QED BY <1>3, <2>3, <2>4, <2>7, <2>8, StartSolvingInv DEF RouteLayout
<1> QED
  BY <1>1, <1>2, <1>3

LEMMA StagesKeepInv ==
    ASSUME PlacementInv, StageAtOnce \/ Stage
    PROVE  PlacementInv'
<1>1. CASE StageAtOnce
  <2>1. PICK from \in Configs : from = root
    BY PlacementTypes
  <2>2. placement.kind = "nohome" /\ attempts = << >> /\ StartStaging(from)
    BY <1>1, <2>1 DEF StageAtOnce, PlacementInv
  <2>3. from = StagedFrom
    BY <2>1, <2>2 DEF StagedFrom
  <2> QED BY <2>2, <2>3, StartStagingInv
<1>2. CASE Stage
  <2>1. placement.kind = "nohome" /\ Home # {} /\ StartStaging(BestReturn.goal_config)
    BY <1>2 DEF Stage, AllRouted
  <2>2. PICK i \in 1..Len(attempts) : BestReturn = attempts[i] /\ BestReturn.status = "Solved"
    BY <2>1, BestReturnIsHome
  <2>3. IsAttempt(BestReturn)
    <3>1. IsAttempt(attempts[i])
      BY PlacementTypes
    <3> QED BY <2>2, <3>1
  <2>4. BestReturn.goal_config \in Configs
    BY <2>3 DEF IsAttempt, Executable, Carried
  <2>5. PICK from \in Configs : from = BestReturn.goal_config
    BY <2>4
  <2>6. attempts # << >>
    BY <2>2
  <2>7. from = StagedFrom
    BY <2>5, <2>6 DEF StagedFrom
  <2> QED BY <2>1, <2>5, <2>7, StartStagingInv
<1> QED
  BY <1>1, <1>2

----------------------------------------------------------------------------
\* What a placement ends with is what was proved of it.
LEMMA FinishKeepsInv ==
    ASSUME PlacementInv, step' = "done", EndsWell(outcome'), placement' = placement,
           AreAttempts(attempts'), placement.kind = "nohome" => attempts' = attempts,
           position' \in Nat \ {0}, remaining' \in Nat \cup {NoLimit}
    PROVE  PlacementInv'
<1>1. AreAttempts(attempts)' /\ Returning' = Returning
  BY PlacementStays
<1>2. EndsWell(outcome)'
  BY OutcomeStays
<1> QED
  BY <1>1, <1>2 DEF PlacementInv, Done

LEMMA NextAttemptKeepsInv ==
    ASSUME PlacementInv, step' = "next", placement' = placement,
           AreAttempts(attempts'),
           placement.kind = "nohome" /\ ~ Returning => attempts' = << >>,
           position' \in Nat \ {0}, remaining' \in Nat \cup {NoLimit}
    PROVE  PlacementInv'
<1>1. AreAttempts(attempts)' /\ Returning' = Returning
  BY PlacementStays
<1> QED
  BY <1>1 DEF PlacementInv, Done

LEMMA UnsolvedEndsWell ==
    ASSUME PlacementInv, NEW status, status # "Solved", NEW spent
    PROVE  EndsWell(Unsolved(status, spent))
  BY PlacementTypes DEF EndsWell, Executable, Unsolved

LEMMA ChargedTypes ==
    ASSUME PlacementInv, NEW spent \in Nat
    PROVE  Charged(spent) \in Nat \cup {NoLimit}
  BY DEF PlacementInv, Charged, NoLimit

LEMMA AnswersKeepInv ==
    ASSUME PlacementInv, LooseSolved \/ CandidateTried \/ LayoutRouted
    PROVE  PlacementInv'
<1>0. /\ IsAttempt(answer) /\ answer.nodes_expanded \in Nat /\ placement' = placement
      /\ AreAttempts(attempts) /\ position \in Nat \ {0} /\ remaining \in Nat \cup {NoLimit}
  BY AnswersAreAttempts DEF PlacementInv, LooseSolved, CandidateTried, LayoutRouted
<1>1. AreAttempts(Append(attempts, answer))
  <2>1. PICK rs : rs = attempts
    OBVIOUS
  <2>2. PICK res : res = answer
    OBVIOUS
  <2> QED BY <1>0, <2>1, <2>2, AddedAttempt
<1>2. placement.kind # "nohome" => EndsWell(answer)
  BY <1>0 DEF IsAttempt, EndsWell, Wanted, BroughtTogether
<1>3. CASE LooseSolved
  BY <1>0, <1>2, <1>3, FinishKeepsInv DEF LooseSolved, Finish
<1>4. CASE CandidateTried
  <2>1. /\ placement.kind = "single" /\ attempts' = Append(attempts, answer)
        /\ IF answer.status = "Solved" THEN Finish(answer) /\ UNCHANGED <<position, remaining>>
           ELSE /\ remaining' = Charged(answer.nodes_expanded)
                /\ IF remaining' = 0 THEN Finish(answer) /\ UNCHANGED position
                   ELSE step' = "next" /\ position' = position + 1
    BY <1>4 DEF CandidateTried
  <2>2. Charged(answer.nodes_expanded) \in Nat \cup {NoLimit}
    BY <1>0, ChargedTypes
  <2>3. AreAttempts(attempts') /\ position' \in Nat \ {0} /\ remaining' \in Nat \cup {NoLimit}
    BY <1>0, <1>1, <2>1, <2>2
  <2>4. CASE step' = "next"
    BY <1>0, <2>1, <2>3, <2>4, NextAttemptKeepsInv
  <2>5. CASE Finish(answer)
    BY <1>0, <1>2, <2>1, <2>3, <2>5, FinishKeepsInv DEF Finish
  <2> QED BY <2>1, <2>4, <2>5
<1>5. CASE LayoutRouted
  <2>1. /\ placement.kind = "nohome" /\ attempts' = Append(attempts, answer) /\ step' = "next"
        /\ position' = position + 1 /\ remaining' = remaining
    BY <1>5 DEF LayoutRouted
  <2>2. Returning
    BY <1>0, <1>5 DEF PlacementInv, LayoutRouted
  <2> QED BY <1>0, <1>1, <2>1, <2>2, NextAttemptKeepsInv
<1> QED
  BY <1>3, <1>4, <1>5

LEMMA StagedKeepsInv ==
    ASSUME PlacementInv, Staged
    PROVE  PlacementInv'
<1>0. /\ placement.kind = "nohome" /\ Staging /\ Returned /\ placement' = placement
      /\ step' = "done" /\ attempts' = attempts /\ position' = position /\ remaining' = remaining
      /\ outcome' = IF attempts = << >> THEN answer
                    ELSE IF answer.status # "Solved"
                         THEN Unsolved(answer.status, SpentOn(attempts) + answer.nodes_expanded)
                    ELSE [answer EXCEPT !.move_layers = BestReturn.move_layers \o @,
                                        !.cost = BestReturn.cost + @,
                                        !.nodes_expanded = SpentOn(attempts) + answer.nodes_expanded]
  BY DEF PlacementInv, Staged, Finish
<1>1. /\ Sound(request, answer) /\ request.root = StagedFrom
      /\ \A c \in request.goals : BroughtTogether(c)
  <2>1. \A c : StagedWell(StagedFrom, c) => BroughtTogether(c)
    BY <1>0 DEF StagedWell, BroughtTogether, PassedOver
  <2> QED BY <1>0, <2>1 DEF Staging, SolveSound, AnswerTold
<1>2. EndsWell(outcome')
  <2>1. CASE attempts = << >>
    BY <1>0, <1>1, <2>1 DEF StagedFrom, Sound, EndsWell, Executable
  <2>2. CASE attempts # << >> /\ answer.status # "Solved"
    <3>1. PICK spent : spent = SpentOn(attempts) + answer.nodes_expanded
      OBVIOUS
    <3>2. PICK status : status = answer.status
      OBVIOUS
    <3>3. EndsWell(Unsolved(status, spent))
      BY <2>2, <3>2, UnsolvedEndsWell
    <3> QED BY <1>0, <2>2, <3>1, <3>2, <3>3
  <2>3. CASE attempts # << >> /\ answer.status = "Solved"
    <3>1. PICK way : way = BestReturn
      OBVIOUS
    <3>2. PICK spent : spent = SpentOn(attempts) + answer.nodes_expanded
      OBVIOUS
    <3>3. PICK end : end = outcome'
      OBVIOUS
    <3>4. /\ Home # {} /\ request.root = way.goal_config
      BY <1>0, <1>1, <2>3, <3>1 DEF Staging, StagedFrom
    <3>5. IsAttempt(way) /\ way.status = "Solved"
      BY <3>1, <3>4, BestReturnIsHome, PlacementTypes
    <3>6. /\ way.cost = Len(way.move_layers) /\ way.move_layers \in Seq(MoveSets)
          /\ way.goal_config = ReplayFrom(root, way.move_layers)
      BY <3>5 DEF IsAttempt, Executable, Carried
    <3>7. /\ ResultFields \subseteq DOMAIN answer
          /\ answer.cost = Len(answer.move_layers) /\ answer.move_layers \in Seq(MoveSets)
          /\ answer.goal_config = ReplayFrom(way.goal_config, answer.move_layers)
          /\ answer.goal_config \in Configs /\ BroughtTogether(answer.goal_config)
      BY <1>1, <2>3, <3>4 DEF Sound, Carried
    <3>8. end = [answer EXCEPT !.move_layers = way.move_layers \o @, !.cost = way.cost + @,
                               !.nodes_expanded = spent]
      BY <1>0, <2>3, <3>1, <3>2, <3>3
    <3>9. /\ end.move_layers = way.move_layers \o answer.move_layers
          /\ end.cost = way.cost + answer.cost /\ end.status = "Solved"
          /\ end.goal_config = answer.goal_config
      BY <2>3, <3>7, <3>8 DEF ResultFields
    <3>10. /\ end.move_layers \in Seq(MoveSets) /\ end.cost \in Nat
           /\ Len(end.move_layers) = end.cost
      <4>1. PICK first \in Seq(MoveSets) : first = way.move_layers
        BY <3>6
      <4>2. PICK then \in Seq(MoveSets) : then = answer.move_layers
        BY <3>7
      <4>3. first \o then \in Seq(MoveSets) /\ Len(first \o then) = Len(first) + Len(then)
            /\ Len(first) \in Nat /\ Len(then) \in Nat
        OBVIOUS
      <4>4. end.move_layers = first \o then
        BY <3>9, <4>1, <4>2
      <4>5. end.cost = Len(first) + Len(then)
        BY <3>6, <3>7, <3>9, <4>1, <4>2
      <4>6. PICK whole : whole = first \o then
        OBVIOUS
      <4> QED BY <4>3, <4>4, <4>5, <4>6
    <3>11. ReplayFrom(root, end.move_layers) = end.goal_config
      <4>1. PICK from : from = root
        OBVIOUS
      <4>2. PICK first \in Seq(MoveSets) : first = way.move_layers
        BY <3>6
      <4>3. PICK then \in Seq(MoveSets) : then = answer.move_layers
        BY <3>7
      <4>4. ReplayFrom(from, first \o then) = ReplayFrom(ReplayFrom(from, first), then)
        BY ReplayOn
      <4> QED BY <3>6, <3>7, <3>9, <4>1, <4>2, <4>3, <4>4
    <3>12. EndsWell(end)
      BY <3>7, <3>9, <3>10, <3>11 DEF EndsWell, Executable, Carried
    <3> QED BY <3>3, <3>12
  <2> QED BY <2>1, <2>2, <2>3
<1>3. AreAttempts(attempts') /\ position' \in Nat \ {0} /\ remaining' \in Nat \cup {NoLimit}
  BY <1>0 DEF PlacementInv
<1> QED
  BY <1>0, <1>2, <1>3, FinishKeepsInv

LEMMA GivingUpKeepsInv ==
    ASSUME PlacementInv, SkipCandidate \/ NoCandidateLeft \/ NoWayHome
    PROVE  PlacementInv'
<1>0. /\ placement' = placement /\ attempts' = attempts /\ remaining' = remaining
      /\ position' \in Nat \ {0} /\ remaining \in Nat \cup {NoLimit} /\ AreAttempts(attempts)
      /\ placement.kind = "nohome" /\ ~ Returning => attempts = << >>
  BY DEF PlacementInv, SkipCandidate, NoCandidateLeft, NoWayHome
<1>1. CASE SkipCandidate
  <2>1. step' = "next"
    BY <1>1 DEF SkipCandidate
  <2> QED BY <1>0, <2>1, NextAttemptKeepsInv
<1>2. CASE NoCandidateLeft
  <2>1. /\ step' = "done" /\ placement.kind = "single"
        /\ outcome' = IF attempts = << >> THEN Unsolved("Unsolvable", 0) ELSE attempts[Len(attempts)]
    BY <1>2 DEF NoCandidateLeft, Finish
  <2>2. EndsWell(outcome')
    <3>1. CASE attempts = << >>
      BY <2>1, <3>1, UnsolvedEndsWell
    <3>2. CASE attempts # << >>
      <4>1. Len(attempts) \in 1..Len(attempts)
        BY <1>0, <3>2 DEF AreAttempts, IsResults
      <4>2. IsAttempt(attempts[Len(attempts)])
        BY <1>0, <4>1 DEF AreAttempts
      <4> QED BY <2>1, <3>2, <4>2 DEF IsAttempt, EndsWell, Wanted, BroughtTogether
    <3> QED BY <3>1, <3>2
  <2> QED BY <1>0, <2>1, <2>2, FinishKeepsInv
<1>3. CASE NoWayHome
  <2>1. PICK status, spent : /\ status # "Solved" /\ step' = "done"
                             /\ outcome' = Unsolved(status, spent)
    BY <1>3 DEF NoWayHome, Finish
  <2>2. EndsWell(outcome')
    BY <2>1, UnsolvedEndsWell
  <2> QED BY <1>0, <2>1, <2>2, FinishKeepsInv
<1> QED
  BY <1>1, <1>2, <1>3

LEMMA HorizonKeepsInv ==
    ASSUME PlacementInv, NextTrajectory \/ Advance \/ TrajectoryDone \/ BestTrajectory
    PROVE  PlacementInv'
<1>0. /\ placement' = placement /\ AreAttempts(attempts) /\ placement \in Placements
      /\ position' = position /\ remaining' = remaining
      /\ position \in Nat \ {0} /\ remaining \in Nat \cup {NoLimit}
      /\ placement.kind = "horizon"
  BY DEF PlacementInv, NextTrajectory, Advance, TrajectoryDone, BestTrajectory, placementVars
<1>1. /\ placement.restarts \in Nat /\ placement.trajectory \in Trajectories
      /\ placement.trajectory.root = root
      /\ \A c \in placement.trajectory.goals \cup placement.trajectory.fallbackGoals : Entangled(c)
  BY <1>0, PlacementTypes DEF IsPlacement, Entangled, root, pairs
<1>2. AreAttempts(attempts') => AreAttempts(attempts)'
  BY <1>0, PlacementStays
<1>3. CASE NextTrajectory
  <2>1. StartTrajectory(placement.trajectory) /\ step' = "horizon" /\ attempts' = attempts
    BY <1>3 DEF NextTrajectory
  <2>2. TrajectoryInv' /\ call' = placement.trajectory
    <3>1. PICK t \in Trajectories : t = placement.trajectory
      BY <1>1
    <3> QED BY <2>1, <3>1, StartTrajectoryInv
  <2> QED BY <1>0, <1>2, <2>1, <2>2 DEF PlacementInv, Done
<1>4. CASE Advance
  <2>1. TrajectoryInv /\ call = placement.trajectory /\ TNext /\ step = "horizon"
        /\ step' = step /\ attempts' = attempts
    BY <1>4 DEF PlacementInv, Advance, placementVars
  <2>2. TrajectoryInv' /\ call' = call
    BY <2>1, TrajectoryStepsKeepInv DEF TNext, Arrived, OutOfStages, Propose, StartBeam, StartIds, Round,
       Apply, EndBeam, FallBackToIds, SearchOn, Classify, AllDropped, Commit, Merge, rhVars, stageVars
  <2> QED BY <1>0, <1>2, <2>1, <2>2 DEF PlacementInv, Done
<1>5. CASE TrajectoryDone
  <2>1. /\ TrajectoryInv /\ call = placement.trajectory /\ rhStage = "returned"
        /\ step' = "next" /\ attempts' = Append(attempts, rhAnswer)
    BY <1>5 DEF PlacementInv, TrajectoryDone
  <2>2. TrajectoryEnd
    BY <2>1 DEF TrajectoryInv
  <2>3. IsAttempt(rhAnswer)
    BY <1>0, <1>1, <2>1, <2>2 DEF TrajectoryEnd, IsAttempt, Executable, Wanted
  <2>4. AreAttempts(Append(attempts, rhAnswer))
    <3>1. PICK rs : rs = attempts
      OBVIOUS
    <3>2. PICK res : res = rhAnswer
      OBVIOUS
    <3> QED BY <1>0, <2>3, <3>1, <3>2, AddedAttempt
  <2> QED BY <1>0, <2>1, <2>4, NextAttemptKeepsInv
<1>6. CASE BestTrajectory
  <2>1. /\ step' = "done" /\ outcome' = PickBest(attempts) /\ attempts' = attempts
        /\ Len(attempts) = MaxOf(placement.restarts, 1)
    BY <1>6 DEF BestTrajectory, Finish
  <2>2. Len(attempts) >= 1
    BY <1>1, <2>1 DEF MaxOf
  <2>3. PICK rs : rs = attempts
    OBVIOUS
  <2>4. PICK i \in 1..Len(rs) : PickBest(rs) = rs[i]
    BY <1>0, <2>2, <2>3, PickBestIsBest DEF AreAttempts
  <2>5. IsAttempt(outcome')
    BY <1>0, <2>1, <2>3, <2>4 DEF AreAttempts
  <2>6. EndsWell(outcome')
    BY <1>0, <2>5 DEF IsAttempt, EndsWell, Wanted, BroughtTogether
  <2> QED BY <1>0, <2>1, <2>6, FinishKeepsInv
<1> QED
  BY <1>3, <1>4, <1>5, <1>6

LEMMA SolvingKeepsInv ==
    ASSUME PlacementInv, Solving
    PROVE  PlacementInv'
<1>0. /\ SolveSound /\ SolveNext /\ placementVars' = placementVars /\ step \in {"solving", "staging"}
      /\ placement' = placement /\ step' = step /\ attempts' = attempts
      /\ position' = position /\ remaining' = remaining
  BY DEF PlacementInv, Staging, Solving, placementVars
<1>1. SolveSound' /\ request' = request
  <2>1. SolveSound'
    BY <1>0, SolveStepsKeepSound
  <2>2. request' = request
    BY <1>0 DEF SolveNext, Search, NextRun, ReturnBest, Refine, ReturnRefined, solveVars
  <2> QED BY <2>1, <2>2
<1>2. AreAttempts(attempts)' /\ Returning' = Returning /\ root' = root
      /\ \A c : Wanted(c)' = Wanted(c) /\ Entangled(c)' = Entangled(c)
  BY <1>0, PlacementStays DEF PlacementInv, root
<1>3. Home' = Home /\ StagedFrom' = StagedFrom /\ \A c : StagedWell(StagedFrom, c)' = StagedWell(StagedFrom, c)
  <2>1. Home' = Home /\ StagedFrom' = StagedFrom
    BY <1>0, PlacementStays
  <2> QED BY <1>0, <2>1 DEF StagedWell, Stageable, Joined, pairs
<1>4. CASE step = "solving"
  BY <1>0, <1>1, <1>2, <1>4 DEF PlacementInv, Done
<1>5. CASE step = "staging"
  <2>1. Staging'
    BY <1>0, <1>1, <1>2, <1>3, <1>5 DEF PlacementInv, Staging
  <2> QED BY <1>0, <1>2, <1>5, <2>1 DEF PlacementInv, Done
<1> QED
  BY <1>0, <1>4, <1>5

----------------------------------------------------------------------------
LEMMA TrajectoryStutters ==
    ASSUME TrajectoryInv, UNCHANGED allVars
    PROVE  TrajectoryInv'
<1>0. /\ UNCHANGED vars /\ UNCHANGED rhVars
  BY DEF allVars
<1>1. /\ call' = call /\ rhStage' = rhStage /\ state' = state /\ layers' = layers /\ x' = x
      /\ assigned' = assigned /\ branches' = branches /\ rhAnswer' = rhAnswer
      /\ beam' = beam /\ pool' = pool /\ nextBeam' = nextBeam
  BY <1>0 DEF rhVars, stageVars, beamVars
<1>2. problem' = problem /\ nodes' = nodes /\ seen' = seen /\ goal' = goal
  BY <1>0 DEF vars, loopVars
<1>3. IInv /\ PathInv => IInv' /\ PathInv'
  BY <1>0, StepsKeepInv, StepsKeepPathInv
<1>4. AreBranches(branches) => AreBranches(branches)'
  BY <1>1, BranchesStay
<1>5. TrajectoryEnd => TrajectoryEnd'
  BY <1>1 DEF TrajectoryEnd, Carried
<1>6. BeamInv => BeamInv'
  <2>1. Arena => Arena'
    BY <1>2 DEF Arena, GraphInv, GraphTypeOK, TreeGrowsForward, TableIsCheapest, Faithful,
         RootIsFirst, NodesAreCandidates, MadeBy, CandidatesOf, NodeIds, Config, GScore, Depth, Parent
  <2>2. GoalFound => GoalFound'
    BY <1>2 DEF GoalFound, IsGoal, Config, NodeIds
  <2>3. (\A k \in 1..Len(pool) : IsOption(pool[k])) => (\A k \in 1..Len(pool) : IsOption(pool[k]))'
    BY <1>1, <1>2 DEF IsOption, CandidatesOf, Config, NodeIds
  <2> QED
    BY <1>1, <1>2, <2>1, <2>2, <2>3 DEF BeamInv, NodeIds
<1>7. /\ (Carried(call.root, layers, state) => Carried(call.root, layers, state)')
      /\ RolloutProblem(Head(assigned))' = RolloutProblem(Head(assigned))
      /\ FallbackProblem' = FallbackProblem /\ RollingOut' = RollingOut
  BY <1>1 DEF Carried, RolloutProblem, FallbackProblem, RollingOut
<1> QED
  BY <1>1, <1>2, <1>3, <1>4, <1>5, <1>6, <1>7 DEF TrajectoryInv

LEMMA PlacementStutters ==
    ASSUME PlacementInv, UNCHANGED allVars
    PROVE  PlacementInv'
<1>1. /\ placement' = placement /\ step' = step /\ position' = position /\ attempts' = attempts
      /\ remaining' = remaining /\ outcome' = outcome /\ request' = request /\ call' = call
  BY DEF allVars, placementVars, solveVars, rhVars, stageVars
<1>2. SolveSound => SolveSound'
  <2>1. UNCHANGED <<vars, solveVars>>
    BY DEF allVars
  <2> QED BY <2>1, SolveStepsKeepSound
<1>3. TrajectoryInv => TrajectoryInv'
  BY TrajectoryStutters
<1>4. /\ AreAttempts(attempts) => AreAttempts(attempts)'
      /\ EndsWell(outcome) => EndsWell(outcome)'
      /\ Returning' = Returning /\ root' = root
      /\ \A c : Wanted(c)' = Wanted(c) /\ Entangled(c)' = Entangled(c)
      /\ Home' = Home /\ StagedFrom' = StagedFrom
  <2>1. EndsWell(outcome) => EndsWell(outcome')
    BY <1>1
  <2> QED BY <1>1, <2>1, PlacementStays, OutcomeStays DEF root
<1>5. Staging => Staging'
  <2>1. \A c : StagedWell(StagedFrom, c)' = StagedWell(StagedFrom, c)
    BY <1>1, <1>4 DEF StagedWell, Stageable, Joined, pairs
  <2> QED BY <1>1, <1>2, <1>4, <2>1 DEF Staging
<1>6. /\ (\A c \in request.goals : Wanted(c)) => (\A c \in request'.goals : Wanted(c)')
  BY <1>1, <1>4
<1> QED
  BY <1>1, <1>2, <1>3, <1>4, <1>5, <1>6 DEF PlacementInv, Done

LEMMA PlacementStepsKeepInv ==
    ASSUME PlacementInv, [PlacementNext]_allVars
    PROVE  PlacementInv'
  BY SolvingKeepsInv, StartsKeepInv, StagesKeepInv, AnswersKeepInv, StagedKeepsInv, GivingUpKeepsInv,
     HorizonKeepsInv, PlacementStutters DEF PlacementNext

LEMMA PlacementInitInv == PlacementInit => PlacementInv
<1>1. ASSUME PlacementInit PROVE PlacementInv
  <2>1. IsPlacement(placement) /\ placement \in Placements
    BY <1>1, PlacementsAssumption DEF PlacementInit
  <2>2. AreAttempts(attempts)
    <3>1. attempts = << >>
      BY <1>1 DEF PlacementInit
    <3>2. << >> \in Seq({}) /\ Len(<< >>) = 0
      OBVIOUS
    <3> QED BY <3>1, <3>2 DEF AreAttempts, IsResults
  <2> QED
    BY <1>1, <2>1, <2>2 DEF PlacementInit, PlacementInv, IsPlacement, Done
<1> QED
  BY <1>1

\* Whatever a placement is made of - the calls of the searches, the rollouts of a
\* trajectory and what it commits, the attempts of cz_placement.rs - the layers on
\* record lead to where the atoms are taken to be.
THEOREM PlacementInvariant == PlacementSpec => []PlacementInv
<1>1. PlacementInv /\ [PlacementNext]_allVars => PlacementInv'
  BY PlacementStepsKeepInv
<1> QED
  BY PlacementInitInv, <1>1, PTL DEF PlacementSpec

\* What any of the placements returns can be carried out from where the atoms
\* were and leads where it says; what it calls solved costs its layers and brings
\* every pair together, but for the pairs nohome passes over, which stay where
\* they were; and what is not solved has no moves, but for a trajectory's
\* (cz_placement.rs, result.rs, nohome.rs:519-524, receding_horizon.rs:858).
THEOREM OutcomeTheorem == PlacementSpec => []OutcomeExecutable
<1>1. PlacementInv => OutcomeExecutable
  BY DEF PlacementInv, EndsWell, Executable, Carried, OutcomeExecutable
<1> QED
  BY <1>1, PlacementInvariant, PTL

----------------------------------------------------------------------------
(***************************************************************************)
(* The status of a placement.  StatusInv keeps what each solve of it has   *)
(* been told, and what the solves have spent of the budget.                *)
(***************************************************************************)
\* What is spent grows by what the last attempt reports.
LEMMA SpentIs ==
    ASSUME NEW M, NEW rs \in Seq(M), NEW res \in M
    PROVE  /\ SpentOn(<< >>) = 0
           /\ SpentOn(Append(rs, res)) = SpentOn(rs) + res.nodes_expanded
<1> DEFINE Charge(spent, r) == spent + r.nodes_expanded
           Spends(f, s, m) == f = [k \in 0..m |-> IF k = 0 THEN 0 ELSE Charge(f[k - 1], s[k])]
           R(s) == CHOOSE f : Spends(f, s, Len(s))
<1>0. \A s : SpentOn(s) = R(s)[Len(s)]
  BY DEF SpentOn
<1> HIDE DEF Charge
<1>1. ASSUME NEW s PROVE \A m \in Nat : \E f : Spends(f, s, m)
  <2> DEFINE S == {m \in Nat : \E f : Spends(f, s, m)}
  <2>1. 0 \in S
    <3>1. Spends([k \in 0..0 |-> 0], s, 0)
      OBVIOUS
    <3> QED BY <3>1
  <2>2. ASSUME NEW m \in Nat, m \in S PROVE m + 1 \in S
    <3>1. PICK f : Spends(f, s, m)
      BY <2>2
    <3> DEFINE g == [k \in 0..(m + 1) |-> IF k = m + 1 THEN Charge(f[m], s[k]) ELSE f[k]]
    <3>2. ASSUME NEW k \in 0..(m + 1)
          PROVE  g[k] = IF k = 0 THEN 0 ELSE Charge(g[k - 1], s[k])
      <4>1. CASE k = m + 1
        <5>1. k - 1 = m /\ m # m + 1 /\ k # 0 /\ m \in 0..(m + 1)
          BY <4>1
        <5>2. g[k] = Charge(f[m], s[k]) /\ g[m] = f[m]
          BY <5>1, <4>1
        <5> HIDE DEF g
        <5> QED BY <5>1, <5>2
      <4>2. CASE k \in 0..m /\ k # 0
        <5>1. k - 1 \in 0..m /\ k # m + 1 /\ k - 1 # m + 1 /\ k - 1 \in 0..(m + 1)
          BY <4>2
        <5>2. g[k] = f[k] /\ g[k - 1] = f[k - 1]
          BY <5>1, <4>2
        <5>3. f[k] = Charge(f[k - 1], s[k])
          BY <3>1, <4>2
        <5> HIDE DEF g
        <5> QED BY <5>1, <5>2, <5>3, <4>2
      <4>3. CASE k = 0
        <5>1. f[0] = 0 /\ 0 # m + 1
          BY <3>1
        <5> QED BY <5>1, <4>3
      <4> QED BY <4>1, <4>2, <4>3
    <3>3. Spends(g, s, m + 1)
      BY <3>2
    <3> HIDE DEF g
    <3> QED BY <3>3
  <2> HIDE DEF S
  <2>3. Nat \subseteq S
    BY <2>1, <2>2, Induction
  <2> QED BY <2>3 DEF S
<1>2. ASSUME NEW N, NEW s \in Seq(N) PROVE Spends(R(s), s, Len(s))
  <2>0. Len(s) \in Nat
    BY <1>2
  <2>1. PICK f : Spends(f, s, Len(s))
    <3> HIDE DEF Spends
    <3> QED BY <1>1, <2>0
  <2> HIDE DEF Spends
  <2> QED BY <2>1
<1> HIDE DEF R
<1>4. SpentOn(<< >>) = 0
  <2>1. << >> \in Seq(M) /\ Len(<< >>) = 0
    OBVIOUS
  <2>2. Spends(R(<< >>), << >>, 0)
    BY <1>2, <2>1
  <2> QED BY <1>0, <2>1, <2>2
<1> DEFINE longer == Append(rs, res)
           n == Len(rs)
<1>5. /\ longer \in Seq(M) /\ Len(longer) = n + 1 /\ n \in Nat /\ longer[n + 1] = res
      /\ \A k \in 1..n : longer[k] = rs[k]
  OBVIOUS
<1>6. Spends(R(rs), rs, n) /\ Spends(R(longer), longer, n + 1)
  <2> HIDE DEF longer, Spends
  <2> QED BY <1>2, <1>5
<1> HIDE DEF longer, n
<1>7. \A k \in 0..n : R(rs)[k] = R(longer)[k]
  <2> DEFINE S == {k \in Nat : k <= n => R(rs)[k] = R(longer)[k]}
  <2>1. 0 \in S
    BY <1>5, <1>6
  <2>2. ASSUME NEW k \in Nat, k \in S PROVE k + 1 \in S
    <3>1. ASSUME k + 1 <= n PROVE R(rs)[k + 1] = R(longer)[k + 1]
      <4>1. k + 1 \in 0..n /\ k + 1 \in 0..(n + 1) /\ k + 1 # 0 /\ (k + 1) - 1 = k /\ k <= n /\ k + 1 \in 1..n
        BY <1>5, <3>1
      <4>2. R(rs)[k + 1] = Charge(R(rs)[k], rs[k + 1])
            /\ R(longer)[k + 1] = Charge(R(longer)[k], longer[k + 1])
        BY <1>6, <4>1
      <4> QED BY <4>1, <4>2, <2>2, <1>5
    <3> QED BY <3>1
  <2> HIDE DEF S
  <2>3. Nat \subseteq S
    BY <2>1, <2>2, Induction
  <2> QED BY <2>3, <1>5 DEF S
<1>8. SpentOn(longer) = Charge(SpentOn(rs), res)
  <2>1. R(longer)[n + 1] = Charge(R(longer)[n], res)
    <3>1. n + 1 \in 0..(n + 1) /\ n + 1 # 0 /\ (n + 1) - 1 = n
      BY <1>5
    <3>2. R(longer)[n + 1] = Charge(R(longer)[n], longer[n + 1])
      BY <1>6, <3>1
    <3> QED BY <1>5, <3>2
  <2>2. R(longer)[n] = R(rs)[n]
    BY <1>5, <1>7
  <2> QED BY <1>0, <1>5, <2>1, <2>2 DEF n
<1> QED
  BY <1>4, <1>8 DEF longer, Charge

----------------------------------------------------------------------------
\* Whether a generator leads nowhere does not depend on the budget.
LEMMA NoWayAtAnyBudget ==
    ASSUME NEW target, IsTargetSolve(placement, target), NEW from \in Configs,
           NEW budget, NEW other, NoWay(SolveToward(target, from, budget))
    PROVE  NoWay(SolveToward(target, from, other))
<1>1. PICK t : t = Toward(placement, target) /\ IsSolve(t)
  BY DEF IsTargetSolve
<1>2. PICK r : r = [t EXCEPT !.root = from, !.maxExpansions = budget]
  OBVIOUS
<1>3. PICK s : s = [t EXCEPT !.root = from, !.maxExpansions = other]
  OBVIOUS
<1>4. r = SolveToward(target, from, budget) /\ s = SolveToward(target, from, other)
  BY <1>1, <1>2, <1>3 DEF SolveToward
<1>5. RequestFields \subseteq DOMAIN t
  BY <1>1 DEF IsSolve
<1>6. /\ r.restarts = s.restarts /\ r.baseSeed = s.baseSeed /\ r.strategy = s.strategy /\ r.inner = s.inner
      /\ r.configured = s.configured /\ r.blockers = s.blockers /\ r.goals = s.goals
      /\ r.root = from /\ s.root = from
  BY <1>2, <1>3, <1>5 DEF RequestFields
<1>7. Runs(r) = Runs(s)
  BY <1>6 DEF Runs
<1>8. \A i : RunProblem(r, i).cands = RunProblem(s, i).cands /\ RunProblem(r, i).goals = RunProblem(s, i).goals
  BY <1>6 DEF RunProblem, Policy, Seed
<1>9. PICK i \in 0..(Runs(r) - 1) : GoalCosts(RunProblem(r, i), from, Longest) = {}
  BY <1>4, <1>6 DEF NoWay
<1>10. PICK p, q : p = RunProblem(r, i) /\ q = RunProblem(s, i)
  OBVIOUS
<1>11. Walks(p, from, Longest) = Walks(q, from, Longest)
  <2>1. Longest \in Nat
    BY LongestType
  <2> QED BY <1>8, <1>10, <2>1, WalksByCandidates
<1>12. GoalCosts(q, from, Longest) = {}
  BY <1>8, <1>9, <1>10, <1>11 DEF GoalCosts
<1> QED
  BY <1>4, <1>6, <1>7, <1>10, <1>12 DEF NoWay

(***************************************************************************)
(* What was searched in vain, and what is being searched.                  *)
(***************************************************************************)
Vain(target) == NoWay(SolveToward(target, root, placement.budget))
Statuses == {"Solved", "Unsolvable", "BudgetExceeded"}

TargetsTried ==
    /\ step \in {"next", "solving", "done"}
    /\ ~ Done => /\ \A i \in 1..Len(TargetList) : i < position /\ Valid(TargetList[i]) => Vain(TargetList[i])
                 /\ \A i \in 1..Len(attempts) : attempts[i].status = "Unsolvable"
                 /\ placement.budget = NoLimit <=> remaining = NoLimit
                 /\ SpentOn(attempts) \in Nat
                 /\ placement.budget # NoLimit => SpentOn(attempts) + remaining = placement.budget
    /\ step = "solving" => /\ position <= Len(TargetList) /\ Valid(TargetList[position])
                           /\ request = SolveToward(TargetList[position], root, remaining)

Layouts ==
    /\ step \in {"next", "solving", "staging", "done"}
    /\ step \in {"next", "solving"} /\ Returning =>
          /\ Len(attempts) = position - 1 /\ position - 1 <= Len(placement.layouts)
          /\ \A i \in 1..Len(attempts) :
                /\ attempts[i].status \in Statuses
                /\ attempts[i].status = "Unsolvable" => Vain(placement.layouts[i])
    /\ step = "solving" => /\ position <= Len(placement.layouts)
                           /\ request = SolveToward(placement.layouts[position], root, placement.budget)
    /\ step = "staging" => (Returning => Home # {})

StatusInv ==
    /\ StatusIsTrue
    /\ placement.kind = "loose" => step \in {"next", "solving", "done"}
                                   /\ (step = "solving" => request = placement.request)
    /\ placement.kind = "single" => TargetsTried
    /\ placement.kind = "nohome" => Layouts
    /\ placement.kind = "horizon" => step \in {"next", "horizon", "done"}

----------------------------------------------------------------------------
LEMMA StatusReads ==
    ASSUME placement' = placement
    PROVE  /\ root' = root /\ TargetList' = TargetList /\ Returning' = Returning
           /\ \A c : Valid(c)' = Valid(c) /\ Vain(c)' = Vain(c)
  BY DEF root, TargetList, Returning, Valid, pairs, Vain, SolveToward

\* What a solve call has answered is true of what was asked.
LEMMA AnswerIsTold ==
    ASSUME SolveSound, Returned
    PROVE  /\ answer.status \in Statuses /\ answer.nodes_expanded \in Nat
           /\ answer.status = "Unsolvable" => NoWay(request)
           /\ Honest(request, answer)
  BY DEF SolveSound, AnswerTold, Honest, Statuses

\* While a placement goes on, nothing is said but of its records.
LEMMA StatusStays ==
    ASSUME StatusInv, ~ Done, placement' = placement, step' = step, position' = position,
           attempts' = attempts, remaining' = remaining, request' = request
    PROVE  StatusInv'
<1>0. ~ Done' /\ Done' = Done
  BY DEF Done
<1>1. StatusIsTrue'
  BY <1>0 DEF StatusIsTrue
<1>2. TargetsTried => TargetsTried'
  BY <1>0, StatusReads DEF TargetsTried, SolveToward
<1>3. Layouts => Layouts'
  BY <1>0, StatusReads DEF Layouts, SolveToward, Home
<1> QED
  BY <1>0, <1>1, <1>2, <1>3 DEF StatusInv

LEMMA LooseKeepsStatus ==
    ASSUME PlacementInv, StatusInv, SolveLoose \/ LooseSolved
    PROVE  StatusInv'
<1>1. CASE SolveLoose
  <2>1. request' = placement.request /\ placement' = placement /\ step' = "solving" /\ placement.kind = "loose"
    BY <1>1 DEF SolveLoose, StartSolve
  <2> QED BY <2>1 DEF StatusInv, StatusIsTrue, Done
<1>2. CASE LooseSolved
  <2>1. /\ request = placement.request /\ placement' = placement /\ step' = "done" /\ outcome' = answer
        /\ placement.kind = "loose" /\ SolveSound /\ Returned
    BY <1>2 DEF LooseSolved, Finish, StatusInv, PlacementInv
  <2>2. answer.status = "Unsolvable" => NoWay(placement.request)
    BY <2>1, AnswerIsTold
  <2> QED BY <2>1, <2>2 DEF StatusInv, StatusIsTrue, Backed, Done
<1> QED
  BY <1>1, <1>2

LEMMA HorizonKeepsStatus ==
    ASSUME PlacementInv, StatusInv, NextTrajectory \/ TrajectoryDone \/ BestTrajectory
    PROVE  StatusInv'
<1>1. /\ placement' = placement /\ placement.kind = "horizon" /\ step' \in {"next", "horizon", "done"}
  BY DEF PlacementInv, NextTrajectory, TrajectoryDone, BestTrajectory, Finish
<1> QED
  BY <1>1 DEF StatusInv, StatusIsTrue, Backed, Done

----------------------------------------------------------------------------
\* A candidate's solve and what is left for the others.
LEMMA CandidatesKeepStatus ==
    ASSUME PlacementInv, StatusInv, SkipCandidate \/ TryCandidate \/ CandidateTried \/ NoCandidateLeft
    PROVE  StatusInv'
<1>0. /\ placement' = placement /\ placement.kind = "single" /\ TargetsTried /\ ~ Done
      /\ IsPlacement(placement) /\ placement.budget \in Nat \cup {NoLimit}
      /\ remaining \in Nat \cup {NoLimit} /\ position \in Nat \ {0}
      /\ Len(attempts) \in Nat /\ IsResults(attempts)
  BY PlacementTypes DEF SkipCandidate, TryCandidate, CandidateTried, NoCandidateLeft, StatusInv, PlacementInv, Done
<1>1. /\ \A i \in 1..Len(TargetList) : i < position /\ Valid(TargetList[i]) => Vain(TargetList[i])
      /\ \A i \in 1..Len(attempts) : attempts[i].status = "Unsolvable"
      /\ placement.budget = NoLimit <=> remaining = NoLimit
      /\ SpentOn(attempts) \in Nat
      /\ placement.budget # NoLimit => SpentOn(attempts) + remaining = placement.budget
  BY <1>0 DEF TargetsTried
<1>2. /\ root' = root /\ TargetList' = TargetList /\ \A c : Valid(c)' = Valid(c) /\ Vain(c)' = Vain(c)
      /\ Len(TargetList) \in Nat /\ DOMAIN TargetList = 1..Len(TargetList)
  BY <1>0, StatusReads DEF IsPlacement, TargetList
<1>3. CASE SkipCandidate
  <2>1. /\ step' = "next" /\ position' = position + 1 /\ attempts' = attempts /\ remaining' = remaining
        /\ ~ Valid(TargetList[position])
    BY <1>3 DEF SkipCandidate
  <2>2. \A i \in 1..Len(TargetList) : i < position + 1 /\ Valid(TargetList[i]) => Vain(TargetList[i])
    <3>1. \A i \in 1..Len(TargetList) : i < position + 1 => i < position \/ i = position
      BY <1>0
    <3> QED BY <1>1, <2>1, <3>1
  <2>3. TargetsTried'
    BY <1>0, <1>1, <1>2, <2>1, <2>2 DEF TargetsTried, Done
  <2> QED BY <1>0, <2>1, <2>3 DEF StatusInv, StatusIsTrue, Done
<1>4. CASE TryCandidate
  <2>1. /\ step' = "solving" /\ position' = position /\ attempts' = attempts /\ remaining' = remaining
        /\ Valid(TargetList[position]) /\ position <= Len(TargetList)
        /\ request' = SolveToward(TargetList[position], root, remaining)
    BY <1>4 DEF TryCandidate, StartSolve
  <2>2. TargetsTried'
    BY <1>0, <1>1, <1>2, <2>1 DEF TargetsTried, Done, SolveToward
  <2> QED BY <1>0, <2>1, <2>2 DEF StatusInv, StatusIsTrue, Done
<1>5. CASE CandidateTried
  <2>1. /\ step = "solving" /\ Returned /\ SolveSound /\ attempts' = Append(attempts, answer)
        /\ IF answer.status = "Solved"
           THEN step' = "done" /\ outcome' = answer
           ELSE /\ remaining' = Charged(answer.nodes_expanded)
                /\ IF remaining' = 0 THEN step' = "done" /\ outcome' = answer
                   ELSE step' = "next" /\ position' = position + 1
    BY <1>5 DEF CandidateTried, PlacementInv, Finish
  <2>2. /\ position \in 1..Len(TargetList) /\ Valid(TargetList[position])
        /\ request = SolveToward(TargetList[position], root, remaining)
    BY <1>0, <1>2, <2>1 DEF TargetsTried
  <2>3. PICK target : target = TargetList[position]
    OBVIOUS
  <2>4. IsTargetSolve(placement, target)
    BY <1>0, <1>2, <2>2, <2>3 DEF IsPlacement, TargetList
  <2>5. PICK from \in Configs : from = root
    BY PlacementTypes
  <2>6. request.maxExpansions = remaining
    <3>1. PICK budget \in Nat \cup {NoLimit} : budget = remaining
      BY <1>0
    <3> QED BY <2>2, <2>3, <2>4, <2>5, <3>1, TowardIsSolve
  <2>7. /\ answer.status \in Statuses /\ answer.nodes_expanded \in Nat
        /\ answer.status = "Unsolvable" => NoWay(request)
        /\ remaining # NoLimit => answer.nodes_expanded <= remaining
        /\ answer.status # "Solved" =>
              (answer.status = "BudgetExceeded" <=> remaining # NoLimit /\ answer.nodes_expanded = remaining)
    BY <2>1, <2>6, AnswerIsTold DEF Honest
  <2>8. answer.status = "Unsolvable" => Vain(target)
    BY <2>2, <2>3, <2>4, <2>5, <2>7, NoWayAtAnyBudget DEF Vain
  <2>9. SpentOn(attempts') = SpentOn(attempts) + answer.nodes_expanded
    <3>1. PICK S : attempts \in Seq(S)
      BY <1>0 DEF IsResults
    <3>2. PICK rs \in Seq(S \cup {answer}) : rs = attempts
      BY <3>1
    <3>3. PICK res \in S \cup {answer} : res = answer
      OBVIOUS
    <3> QED BY <2>1, <3>2, <3>3, SpentIs
  <2>10. remaining' = 0 /\ answer.status # "Solved" <=> answer.status = "BudgetExceeded"
    <3>1. ASSUME answer.status # "Solved"
          PROVE  remaining' = IF remaining = NoLimit THEN NoLimit
                              ELSE IF answer.nodes_expanded >= remaining THEN 0 ELSE remaining - answer.nodes_expanded
      BY <2>1, <3>1 DEF Charged
    <3>2. ASSUME answer.status # "Solved"
          PROVE  remaining' = 0 <=> remaining # NoLimit /\ answer.nodes_expanded = remaining
      BY <1>0, <2>7, <3>1, <3>2 DEF NoLimit
    <3> QED BY <2>7, <3>2
  <2>11. placement.budget # NoLimit =>
            /\ SpentOn(attempts) \in Int /\ remaining \in Nat /\ placement.budget \in Nat
            /\ SpentOn(attempts') <= placement.budget
            /\ answer.nodes_expanded = remaining => SpentOn(attempts') = placement.budget
            /\ SpentOn(attempts') + (remaining - answer.nodes_expanded) = placement.budget
    <3>1. ASSUME placement.budget # NoLimit
          PROVE  remaining \in Nat /\ placement.budget \in Nat /\ answer.nodes_expanded <= remaining
      BY <1>0, <1>1, <2>7, <3>1
    <3>2. PICK spent \in Nat : spent = SpentOn(attempts)
      BY <1>1
    <3> QED BY <1>1, <2>7, <2>9, <3>1, <3>2
  <2>12. CASE step' = "done"
    <3>1. outcome' = answer
      BY <2>1, <2>12
    <3>2. answer.status # "Unsolvable"
      BY <2>1, <2>10, <2>12
    <3>3. TargetsTried'
      BY <2>12 DEF TargetsTried, Done
    <3> QED BY <1>0, <2>7, <2>11, <2>12, <3>1, <3>2, <3>3 DEF StatusInv, StatusIsTrue, Done
  <2>13. CASE step' = "next"
    <3>1. /\ answer.status = "Unsolvable" /\ position' = position + 1
          /\ remaining' = Charged(answer.nodes_expanded)
      BY <2>1, <2>7, <2>10, <2>13 DEF Statuses
    <3>2. \A i \in 1..Len(TargetList) : i < position + 1 /\ Valid(TargetList[i]) => Vain(TargetList[i])
      <4>1. \A i \in 1..Len(TargetList) : i < position + 1 => i < position \/ i = position
        BY <1>0
      <4>2. Vain(TargetList[position])
        BY <2>3, <2>8, <3>1
      <4> QED BY <1>1, <4>1, <4>2
    <3>3. \A i \in 1..Len(attempts') : attempts'[i].status = "Unsolvable"
      <4>1. PICK S : attempts \in Seq(S)
        BY <1>0 DEF IsResults
      <4>2. /\ Len(attempts') = Len(attempts) + 1 /\ attempts'[Len(attempts) + 1] = answer
            /\ \A i \in 1..Len(attempts) : attempts'[i] = attempts[i]
        BY <2>1, <4>1
      <4> QED BY <1>0, <1>1, <3>1, <4>2
    <3>4. /\ placement.budget = NoLimit <=> remaining' = NoLimit
          /\ placement.budget # NoLimit => remaining' = remaining - answer.nodes_expanded
      BY <1>0, <1>1, <2>7, <3>1 DEF Charged, NoLimit
    <3>5. /\ placement.budget # NoLimit => SpentOn(attempts') + remaining' = placement.budget
          /\ SpentOn(attempts') \in Nat
      BY <1>1, <2>7, <2>9, <2>11, <3>4
    <3>6. TargetsTried'
      BY <1>0, <1>2, <2>13, <3>1, <3>2, <3>3, <3>4, <3>5 DEF TargetsTried, Done
    <3> QED BY <1>0, <2>13, <3>6 DEF StatusInv, StatusIsTrue, Done
  <2> QED BY <2>1, <2>12, <2>13
<1>6. CASE NoCandidateLeft
  <2>1. /\ step' = "done" /\ attempts' = attempts /\ position > Len(TargetList)
        /\ outcome' = IF attempts = << >> THEN Unsolved("Unsolvable", 0) ELSE attempts[Len(attempts)]
    BY <1>6 DEF NoCandidateLeft, Finish
  <2>2. outcome'.status = "Unsolvable"
    <3>1. attempts # << >> => Len(attempts) \in 1..Len(attempts)
      BY <1>0 DEF IsResults
    <3> QED BY <1>1, <2>1, <3>1 DEF Unsolved
  <2>3. \A i \in DOMAIN TargetList : Valid(TargetList[i]) => Vain(TargetList[i])
    BY <1>0, <1>1, <1>2, <2>1
  <2>4. Backed'
    <3>1. Backed' <=> \A i \in DOMAIN TargetList : Valid(TargetList[i]) => Vain(TargetList[i])
      BY <1>0, <1>2 DEF Backed, Vain
    <3> QED BY <2>3, <3>1
  <2>5. placement.budget # NoLimit => SpentOn(attempts) <= placement.budget
    <3>1. PICK spent \in Nat : spent = SpentOn(attempts)
      BY <1>1
    <3> QED BY <1>0, <1>1, <3>1
  <2>6. TargetsTried'
    BY <2>1 DEF TargetsTried, Done
  <2> QED BY <1>0, <2>1, <2>2, <2>4, <2>5, <2>6 DEF StatusInv, StatusIsTrue, Done
<1> QED
  BY <1>3, <1>4, <1>5, <1>6

----------------------------------------------------------------------------
\* The layouts, and the way from the best of them to the pairs.
LEMMA LayoutsKeepStatus ==
    ASSUME PlacementInv, StatusInv,
           StageAtOnce \/ RouteLayout \/ LayoutRouted \/ NoWayHome \/ Stage \/ Staged
    PROVE  StatusInv'
<1>0. /\ placement' = placement /\ placement.kind = "nohome" /\ Layouts /\ ~ Done
      /\ IsPlacement(placement) /\ position \in Nat \ {0}
      /\ Len(attempts) \in Nat /\ IsResults(attempts)
  BY PlacementTypes DEF StageAtOnce, RouteLayout, LayoutRouted, NoWayHome, Stage, Staged, AllRouted, StartStaging,
     StatusInv, PlacementInv, Done
<1>1. /\ root' = root /\ Returning' = Returning /\ \A c : Vain(c)' = Vain(c)
      /\ Len(placement.layouts) \in Nat /\ DOMAIN placement.layouts = 1..Len(placement.layouts)
  BY <1>0, StatusReads DEF IsPlacement
<1>2. CASE StageAtOnce \/ Stage
  <2>1. /\ step' = "staging" /\ attempts' = attempts /\ (Returning => Home # {})
    BY <1>2 DEF StageAtOnce, Stage, StartStaging
  <2>2. Layouts'
    BY <1>0, <1>1, <2>1 DEF Layouts, Home
  <2> QED BY <1>0, <2>1, <2>2 DEF StatusInv, StatusIsTrue, Done
<1>3. CASE RouteLayout
  <2>1. /\ step = "next" /\ step' = "solving" /\ attempts' = attempts /\ position' = position /\ Returning
        /\ position <= Len(placement.layouts)
        /\ request' = SolveToward(placement.layouts[position], root, placement.budget)
    BY <1>3 DEF RouteLayout, StartSolve
  <2>2. Layouts'
    BY <1>0, <1>1, <2>1 DEF Layouts, SolveToward
  <2> QED BY <1>0, <2>1, <2>2 DEF StatusInv, StatusIsTrue, Done
<1>4. CASE LayoutRouted
  <2>1. /\ step = "solving" /\ Returned /\ SolveSound /\ attempts' = Append(attempts, answer)
        /\ step' = "next" /\ position' = position + 1 /\ Returning
    BY <1>0, <1>4 DEF LayoutRouted, PlacementInv
  <2>2. /\ Len(attempts) = position - 1 /\ position <= Len(placement.layouts)
        /\ \A i \in 1..Len(attempts) :
              /\ attempts[i].status \in Statuses
              /\ attempts[i].status = "Unsolvable" => Vain(placement.layouts[i])
        /\ request = SolveToward(placement.layouts[position], root, placement.budget)
    BY <1>0, <2>1 DEF Layouts
  <2>3. answer.status \in Statuses /\ (answer.status = "Unsolvable" => Vain(placement.layouts[position]))
    BY <2>1, <2>2, AnswerIsTold DEF Vain
  <2>4. PICK S : attempts \in Seq(S)
    BY <1>0 DEF IsResults
  <2>5. /\ Len(attempts') = Len(attempts) + 1 /\ attempts'[Len(attempts) + 1] = answer
        /\ \A i \in 1..Len(attempts) : attempts'[i] = attempts[i]
    BY <2>1, <2>4
  <2>6. \A i \in 1..Len(attempts') :
           /\ attempts'[i].status \in Statuses
           /\ attempts'[i].status = "Unsolvable" => Vain(placement.layouts[i])
    <3>1. ASSUME NEW i \in 1..Len(attempts') PROVE i \in 1..Len(attempts) \/ (i = Len(attempts) + 1 /\ i = position)
      BY <1>0, <2>2, <2>5
    <3> QED BY <2>2, <2>3, <2>5, <3>1
  <2>7. Layouts'
    BY <1>0, <1>1, <2>1, <2>2, <2>5, <2>6 DEF Layouts
  <2> QED BY <1>0, <2>1, <2>7 DEF StatusInv, StatusIsTrue, Done
<1>5. CASE NoWayHome
  <2>1. /\ step = "next" /\ Returning /\ position > Len(placement.layouts) /\ Home = {} /\ step' = "done"
        /\ outcome'.status = IF \E i \in DOMAIN attempts : attempts[i].status = "BudgetExceeded"
                             THEN "BudgetExceeded" ELSE "Unsolvable"
    BY <1>5 DEF NoWayHome, AllRouted, Finish, Unsolved
  <2>2. /\ Len(attempts) = Len(placement.layouts)
        /\ \A i \in 1..Len(attempts) :
              /\ attempts[i].status \in Statuses
              /\ attempts[i].status = "Unsolvable" => Vain(placement.layouts[i])
    BY <1>0, <1>1, <2>1 DEF Layouts
  <2>3. DOMAIN attempts = 1..Len(attempts)
    BY <1>0 DEF IsResults
  <2>4. outcome'.status = "Unsolvable" => \A i \in DOMAIN placement.layouts : Vain(placement.layouts[i])
    <3>1. \A i \in DOMAIN attempts : attempts[i].status # "Solved"
      BY <2>1 DEF Home
    <3> QED BY <1>1, <2>1, <2>2, <2>3, <3>1 DEF Statuses
  <2>5. outcome'.status = "Unsolvable" => Backed'
    <3>1. (\A i \in DOMAIN placement.layouts : Vain(placement.layouts[i])) => Backed'
      BY <1>0, <1>1, <2>1 DEF Backed, Vain
    <3> QED BY <2>4, <3>1
  <2>6. Layouts'
    BY <2>1 DEF Layouts
  <2> QED BY <1>0, <2>1, <2>5, <2>6 DEF StatusInv, StatusIsTrue, Done
<1>6. CASE Staged
  <2>1. /\ step = "staging" /\ Staging /\ Returned /\ step' = "done"
        /\ attempts' = attempts /\ request' = request /\ stage' = stage
        /\ outcome' = IF attempts = << >> THEN answer
                      ELSE IF answer.status # "Solved"
                           THEN Unsolved(answer.status, SpentOn(attempts) + answer.nodes_expanded)
                      ELSE [answer EXCEPT !.move_layers = BestReturn.move_layers \o @,
                                          !.cost = BestReturn.cost + @,
                                          !.nodes_expanded = SpentOn(attempts) + answer.nodes_expanded]
    BY <1>6 DEF Staged, Finish, PlacementInv, solveVars
  <2>2. SolveSound /\ (Returning => Home # {})
    BY <1>0, <2>1 DEF Staging, Layouts
  <2>3. answer.status = "Unsolvable" => NoWay(request)
    BY <2>1, <2>2, AnswerIsTold
  <2>4. outcome'.status = answer.status
    <3>1. CASE attempts # << >> /\ answer.status = "Solved"
      <4>1. ResultFields \subseteq DOMAIN answer
        BY <2>1, <2>2 DEF SolveSound, AnswerTold, Sound
      <4> QED BY <2>1, <3>1, <4>1 DEF ResultFields
    <3> QED BY <2>1, <3>1 DEF Unsolved
  <2>5. outcome'.status = "Unsolvable" => Backed'
    BY <1>0, <1>1, <2>1, <2>2, <2>3, <2>4 DEF Backed, Returned, Home
  <2>6. Layouts'
    BY <2>1 DEF Layouts
  <2> QED BY <1>0, <2>1, <2>5, <2>6 DEF StatusInv, StatusIsTrue, Done
<1> QED
  BY <1>2, <1>3, <1>4, <1>5, <1>6

LEMMA StatusStepsKeepInv ==
    ASSUME PlacementInv, StatusInv, [PlacementNext]_allVars
    PROVE  StatusInv'
<1>1. CASE Solving \/ Advance
  <2>1. /\ ~ Done /\ placement' = placement /\ step' = step /\ position' = position
        /\ attempts' = attempts /\ remaining' = remaining
    BY <1>1 DEF Solving, Advance, placementVars, Done
  <2>2. request' = request
    BY <1>1 DEF Solving, Advance, SolveNext, Search, NextRun, ReturnBest, Refine, ReturnRefined, solveVars
  <2> QED BY <2>1, <2>2, StatusStays
<1>2. CASE UNCHANGED allVars
  <2>1. /\ placement' = placement /\ step' = step /\ position' = position /\ attempts' = attempts
        /\ remaining' = remaining /\ outcome' = outcome /\ request' = request /\ stage' = stage
    BY <1>2 DEF allVars, placementVars, solveVars
  <2>2. CASE ~ Done
    BY <2>1, <2>2, StatusStays
  <2>3. CASE Done
    <3>1. StatusIsTrue'
      BY <2>1 DEF StatusInv, StatusIsTrue, Backed, Done, TargetList, Valid, pairs, root, SolveToward, Returning, Home
    <3> QED BY <2>1, <2>3, <3>1 DEF StatusInv, TargetsTried, Layouts, Done
  <2> QED BY <2>2, <2>3
<1> QED
  BY <1>1, <1>2, LooseKeepsStatus, HorizonKeepsStatus, CandidatesKeepStatus, LayoutsKeepStatus DEF PlacementNext

LEMMA StatusInitInv == PlacementInit => StatusInv
<1>1. ASSUME PlacementInit PROVE StatusInv
  <2>1. /\ step = "next" /\ position = 1 /\ attempts = << >> /\ remaining = placement.budget
        /\ placement.budget \in Nat \cup {NoLimit} /\ IsPlacement(placement)
    BY <1>1, PlacementsAssumption DEF PlacementInit, IsPlacement
  <2>2. Len(<< >>) = 0 /\ SpentOn(<< >>) = 0
    <3>1. << >> \in Seq({0}) /\ 0 \in {0}
      OBVIOUS
    <3> QED BY <3>1, SpentIs
  <2>3. TargetsTried
    BY <2>1, <2>2 DEF TargetsTried, Done, NoLimit
  <2>4. placement.kind = "nohome" => Layouts
    <3>1. placement.kind = "nohome" => Len(placement.layouts) \in Nat
      BY <2>1 DEF IsPlacement
    <3> QED BY <2>1, <2>2, <3>1 DEF Layouts
  <2> QED BY <2>1, <2>3, <2>4 DEF StatusInv, StatusIsTrue, Done
<1> QED
  BY <1>1

\* The status a placement returns says what happened: "Unsolvable" (result.rs)
\* only where everything it may have done was searched in vain, and the budget
\* the candidates share is kept, and used up before it is said to be exceeded.
THEOREM StatusTheorem == PlacementSpec => []StatusIsTrue
<1>1. PlacementInit => PlacementInv /\ StatusInv
  BY PlacementInitInv, StatusInitInv
<1>2. PlacementInv /\ StatusInv /\ [PlacementNext]_allVars => (PlacementInv /\ StatusInv)'
  BY PlacementStepsKeepInv, StatusStepsKeepInv
<1>3. StatusInv => StatusIsTrue
  BY DEF StatusInv
<1> QED
  BY <1>1, <1>2, <1>3, PTL DEF PlacementSpec
=============================================================================
