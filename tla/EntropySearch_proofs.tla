------------------------ MODULE EntropySearch_proofs ------------------------
(***************************************************************************)
(* The entropy-guided driver keeps its promises for every set of atoms,    *)
(* locations, lanes, moves and calls: the properties that TLC checks of    *)
(* EntropySearch on a few calls are here consequences of one inductive     *)
(* invariant, IInv.  What makes it inductive is what the loop relies on    *)
(* without saying it: a goal is never expanded, so the walk never stands   *)
(* on one and no goal is in the resume buffer; every entry of the buffer   *)
(* has the depth of its node; the walk stays above the best goal; and the  *)
(* rest of a fallback's route is free of the other atoms.  Induction over  *)
(* the steps of a reversion and over sets is done with least elements      *)
(* (OrderLemmas).                                                          *)
(***************************************************************************)
EXTENDS EntropySearch, SearchGraph_proofs, OrderLemmas

EntropyState == [entropy : Nat, cursor : Nat, cache : Seq(MoveSets), tried : SUBSET MoveSets]

----------------------------------------------------------------------------
(***************************************************************************)
(* The operators.                                                          *)
(***************************************************************************)

\* A move leads from a configuration to a configuration (Config::with_moves).
LEMMA MovedType ==
    ASSUME NEW config \in Configs, NEW move \in MoveSets
    PROVE  Moved(config, move) \in Configs
<1>1. ASSUME NEW q \in Qubits, \E l \in LanesOf[move] : l[1] = config[q]
      PROVE  (CHOOSE l \in LanesOf[move] : l[1] = config[q])[2] \in Locations
  <2>1. PICK l \in LanesOf[move] : l = (CHOOSE m \in LanesOf[move] : m[1] = config[q])
    BY <1>1
  <2>2. LanesOf[move] \subseteq Locations \X Locations
    BY EntropyAssumption
  <2> QED BY <2>1, <2>2
<1>2. \A q \in Qubits : config[q] \in Locations
  BY EntropyAssumption
<1> QED BY <1>1, <1>2, EntropyAssumption DEF Moved

\* A single lane is a move set of its own (MoveSet::new).
LEMMA SingleType ==
    ASSUME NEW lane \in Lanes
    PROVE  Single(lane) \in MoveSets /\ LanesOf[Single(lane)] = {lane}
  BY EntropyAssumption DEF Single

\* The least position of a set of positions, which the cursor is moved to.
LEMMA LeastIsIn ==
    ASSUME NEW S \in SUBSET Nat, S # {}
    PROVE  (CHOOSE i \in S : \A j \in S : i <= j) \in S
  BY LeastNumber

\* The cursor stops at a position of the cache whose move was not tried.
LEMMA NextUntriedType ==
    ASSUME NEW cache \in Seq(MoveSets), NEW cursor \in Nat, NEW tried
    PROVE  LET at == NextUntried(cache, cursor, tried)
           IN  at = None \/ (at \in 1..Len(cache) /\ cache[at] \notin tried)
<1> DEFINE open == {i \in (cursor + 1)..Len(cache) : cache[i] \notin tried}
<1>1. CASE open = {}
  BY <1>1 DEF NextUntried
<1>2. CASE open # {}
  <2>1. open \in SUBSET Nat
    OBVIOUS
  <2>2. (CHOOSE i \in open : \A j \in open : i <= j) \in open
    <3> HIDE DEF open
    <3> QED BY <1>2, <2>1, LeastIsIn
  <2>3. NextUntried(cache, cursor, tried) \in open
    BY <1>2, <2>2 DEF NextUntried
  <2> QED BY <2>3
<1> QED BY <1>1, <1>2

\* What get_next_candidate returns: a cache of moves and a position in it.
LEMMA SelectionType ==
    ASSUME NEW es \in EntropyState, NEW ranking \in Seq(MoveSets)
    PROVE  LET choice == Selection(es, ranking)
           IN  /\ choice.cache \in Seq(MoveSets)
               /\ choice.cache = es.cache \/ choice.cache = ranking
               /\ choice.at = None \/ (choice.at \in 1..Len(choice.cache) /\ choice.cache[choice.at] \in MoveSets)
               /\ Len(choice.cache) \in Nat
<1> DEFINE stale == es.cursor >= problem.maxCandidates \/ es.cache = << >>
           cache == IF stale THEN ranking ELSE es.cache
           start == IF stale THEN 0 ELSE es.cursor
           at == NextUntried(cache, start, es.tried)
           second == NextUntried(ranking, 0, es.tried)
<1>1. es.cache \in Seq(MoveSets) /\ es.cursor \in Nat
  BY DEF EntropyState
<1>2. cache \in Seq(MoveSets) /\ (cache = es.cache \/ cache = ranking) /\ start \in Nat
  BY <1>1
<1>3. at = None \/ at \in 1..Len(cache)
  <2> HIDE DEF cache, start
  <2> QED BY <1>2, NextUntriedType
<1>4. second = None \/ second \in 1..Len(ranking)
  BY NextUntriedType
<1>5. Selection(es, ranking) = IF at # None THEN [cache |-> cache, at |-> at]
                               ELSE [cache |-> ranking, at |-> second]
  BY DEF Selection
<1> HIDE DEF stale, cache, start, at, second
<1>6. CASE at # None
  <2>1. Selection(es, ranking) = [cache |-> cache, at |-> at]
    BY <1>5, <1>6
  <2> QED BY <2>1, <1>2, <1>3, <1>6
<1>7. CASE at = None
  <2>1. Selection(es, ranking) = [cache |-> ranking, at |-> second]
    BY <1>5, <1>7
  <2> QED BY <2>1, <1>4
<1> QED BY <1>6, <1>7

\* The best of the scores that are open is one of them.
LEMMA BestOfType ==
    ASSUME NEW S \in SUBSET Int, IsFiniteSet(S), S # {}
    PROVE  BestOf(S) \in Int
  BY GreatestNumber DEF BestOf

\* The scores of the moves that were not tried: a finite set of integers.
LEMMA OpenScoresType ==
    ASSUME NEW config \in Configs, NEW cache \in Seq(MoveSets), NEW es, es.cache = cache,
           problem \in Problems
    PROVE  LET scores == OpenScores(config, es)
           IN  scores \in SUBSET Int /\ IsFiniteSet(scores)
<1> DEFINE f == [j \in 1..Len(cache) |-> problem.score[config][Moved(config, cache[j])]]
           all == {f[j] : j \in 1..Len(cache)}
<1>1. problem.score \in [Configs -> [Configs -> Int]]
  BY EntropyAssumption DEF Calls
<1>2. \A j \in 1..Len(cache) : Moved(config, cache[j]) \in Configs
  BY MovedType
<1>3. all \in SUBSET Int
  BY <1>1, <1>2
<1>4. IsFiniteSet(all)
  <2>1. IsFiniteSet(1..Len(cache))
    BY FS_Interval
  <2>2. f \in Surjection(1..Len(cache), all)
    BY DEF Surjection
  <2> HIDE DEF f, all
  <2> QED BY <2>1, <2>2, FS_Surjection
<1>5. OpenScores(config, es) \subseteq all
  BY DEF OpenScores
<1> QED BY <1>3, <1>4, <1>5, FS_Subset

\* A reversion never leaves a set that holds the parents of its nodes: it walks
\* up a path and stops at the root.
LEMMA BackStays ==
    ASSUME NEW T, NEW id \in T, NEW steps \in Nat,
           \A n \in T : Parent(n) # None => Parent(n) \in T
    PROVE  Back(id, steps) \in T
<1> DEFINE Up(n) == IF Parent(n) = None THEN n ELSE Parent(n)
           Walk(f, k) == f = [n \in 0..k |-> IF n = 0 THEN id ELSE Up(f[n - 1])]
           Stuck == {k \in Nat : ~ \E f : Walk(f, k)}
<1>1. Stuck = {}
  <2>1. SUFFICES ASSUME Stuck # {} PROVE FALSE
    OBVIOUS
  <2>2. PICK k \in Stuck : \A j \in Stuck : k <= j
    <3> HIDE DEF Walk
    <3> QED BY <2>1, LeastNumber
  <2>3. Walk([n \in 0..0 |-> id], 0)
    OBVIOUS
  <2>4. k \in Nat /\ k # 0 /\ ~ \E f : Walk(f, k)
    <3> HIDE DEF Walk
    <3> QED BY <2>2, <2>3
  <2>5. PICK f : Walk(f, k - 1)
    <3> HIDE DEF Walk
    <3> QED BY <2>2, <2>4
  <2>6. Walk([n \in 0..k |-> IF n = k THEN Up(f[k - 1]) ELSE f[n]], k)
    <3> DEFINE g == [n \in 0..k |-> IF n = k THEN Up(f[k - 1]) ELSE f[n]]
    <3> HIDE DEF Up
    <3>1. \A n \in 0..k : n # k => n \in 0..(k - 1) /\ (n # 0 => n - 1 \in 0..k /\ n - 1 # k)
      BY <2>4
    <3>2. \A n \in 0..(k - 1) : f[n] = IF n = 0 THEN id ELSE Up(f[n - 1])
      BY <2>5
    <3>3. g[k - 1] = f[k - 1]
      BY <2>4
    <3>4. \A n \in 0..k : g[n] = IF n = 0 THEN id ELSE Up(g[n - 1])
      BY <3>1, <3>2, <3>3, <2>4
    <3> QED BY <3>4
  <2> QED BY <2>4, <2>6
<1> DEFINE up == CHOOSE f : Walk(f, steps)
<1>2. Walk(up, steps)
  <2>1. \E f : Walk(f, steps)
    <3> HIDE DEF Walk
    <3> QED BY <1>1
  <2> HIDE DEF Walk
  <2> QED BY <2>1
<1>3. Back(id, steps) = up[steps]
  BY DEF Back
<1> HIDE DEF up
<1>4. \A n \in 0..steps : up[n] = IF n = 0 THEN id ELSE Up(up[n - 1])
  BY <1>2
<1> DEFINE Outside == {n \in 0..steps : up[n] \notin T}
<1>5. Outside = {}
  <2>1. SUFFICES ASSUME Outside # {} PROVE FALSE
    OBVIOUS
  <2>2. PICK n \in Outside : \A m \in Outside : n <= m
    <3>1. Outside \in SUBSET Nat
      OBVIOUS
    <3> HIDE DEF Outside
    <3> QED BY <2>1, <3>1, LeastNumber
  <2>3. n # 0
    BY <1>4, <2>2
  <2>4. n - 1 \in 0..steps /\ n - 1 \notin Outside
    BY <2>2, <2>3
  <2>5. up[n - 1] \in T
    BY <2>4
  <2>6. up[n] = Up(up[n - 1])
    BY <1>4, <2>2, <2>3
  <2> QED BY <2>2, <2>5, <2>6
<1>6. steps \in 0..steps
  OBVIOUS
<1> QED BY <1>3, <1>5, <1>6
----------------------------------------------------------------------------
(***************************************************************************)
(* The resume buffer.                                                      *)
(***************************************************************************)

\* The entries are those of different nodes of the arena, none of which is a
\* goal and each of which has been expanded.
Sound(entries, bound, arena, call) ==
    /\ entries \in SUBSET Entry /\ IsFiniteSet(entries)
    /\ \A e, f \in entries : e # f => e.node # f.node /\ e.order # f.order
    /\ \A e \in entries :
         /\ e.node \in 1..Len(arena) /\ e.depth = arena[e.node].depth /\ e.order < bound
         /\ arena[e.node].config \notin call.goals
         /\ \E child \in 1..Len(arena) : arena[child].parent = e.node

\* What is left of a sound buffer is sound.
LEMMA SubsetSound ==
    ASSUME NEW entries, NEW bound, NEW arena, NEW call, Sound(entries, bound, arena, call),
           NEW S \in SUBSET entries
    PROVE  Sound(S, bound, arena, call) /\ Cardinality(S) <= Cardinality(entries)
  BY FS_Subset DEF Sound

\* Insertion orders make Before a strict total order.
LEMMA BeforeOrders ==
    ASSUME NEW entries \in SUBSET Entry,
           \A e, f \in entries : e # f => e.order # f.order
    PROVE  /\ \A e \in entries : ~ Before(e, e)
           /\ \A e, f, h \in entries : Before(e, f) /\ Before(f, h) => Before(e, h)
           /\ \A e, f \in entries : e # f => Before(e, f) \/ Before(f, e)
<1>1. \A e \in entries : e.score \in Int /\ e.depth \in Nat /\ e.order \in Nat
  BY DEF Entry
<1> QED BY <1>1 DEF Before

\* The best and the worst entry of a buffer are in it (cmp_resume_states).
LEMMA RankedIsIn ==
    ASSUME NEW S \in SUBSET Entry, IsFiniteSet(S), S # {},
           \A e, f \in S : e # f => e.order # f.order
    PROVE  /\ FirstRanked(S) \in S
           /\ LastRanked(S) \in S
<1> DEFINE Up == {p \in S \X S : Before(p[1], p[2])}
           Down == {p \in S \X S : Before(p[2], p[1])}
<1>1. \A e, f \in S : (<<e, f>> \in Up <=> Before(e, f)) /\ (<<e, f>> \in Down <=> Before(f, e))
  OBVIOUS
<1>2. /\ \A e \in S : ~ Before(e, e)
      /\ \A e, f, h \in S : Before(e, f) /\ Before(f, h) => Before(e, h)
      /\ \A e, f \in S : e # f => Before(e, f) \/ Before(f, e)
  BY BeforeOrders
<1> HIDE DEF Up, Down
<1>3. PICK e \in S : \A f \in S : <<f, e>> \notin Up
  <2>1. /\ \A x \in S : <<x, x>> \notin Up
        /\ \A x, y, z \in S : <<x, y>> \in Up /\ <<y, z>> \in Up => <<x, z>> \in Up
    BY <1>1, <1>2, Zenon
  <2> QED BY <2>1, FirstExists
<1>4. PICK l \in S : \A f \in S : <<f, l>> \notin Down
  <2>1. /\ \A x \in S : <<x, x>> \notin Down
        /\ \A x, y, z \in S : <<x, y>> \in Down /\ <<y, z>> \in Down => <<x, z>> \in Down
    BY <1>1, <1>2, Zenon
  <2> QED BY <2>1, FirstExists
<1>5. (\A f \in S \ {e} : Before(e, f)) /\ (\A f \in S \ {l} : Before(f, l))
  BY <1>1, <1>2, <1>3, <1>4, Zenon
<1> QED BY <1>5, Zenon DEF FirstRanked, LastRanked

\* resume_buffer_insert keeps the buffer sound and within its capacity.
LEMMA KeptSound ==
    ASSUME NEW entries, NEW bound \in Nat, NEW arena, problem \in Problems,
           Sound(entries, bound, arena, problem), Cardinality(entries) <= Capacity,
           NEW e \in Entry, e.order = bound,
           e.node \in 1..Len(arena), e.depth = arena[e.node].depth,
           arena[e.node].config \notin problem.goals,
           \E child \in 1..Len(arena) : arena[child].parent = e.node
    PROVE  /\ Sound(Kept(entries, e), IF Capacity = 0 THEN bound ELSE bound + 1, arena, problem)
           /\ Cardinality(Kept(entries, e)) <= Capacity
<1> DEFINE others == Discard(entries, e.node)
           last == LastRanked(others)
<1>1. Capacity \in Nat
  BY EntropyAssumption DEF Capacity, Calls
<1>2. others \in SUBSET entries /\ \A f \in others : f.node # e.node
  BY DEF Discard
<1> HIDE DEF others
<1>3. Sound(others, bound, arena, problem) /\ Cardinality(others) <= Capacity
      /\ Cardinality(others) \in Nat /\ Cardinality(entries) \in Nat
  <2>1. Sound(others, bound, arena, problem) /\ Cardinality(others) <= Cardinality(entries)
    BY <1>2, SubsetSound, Zenon
  <2>2. IsFiniteSet(others) /\ IsFiniteSet(entries)
    BY <2>1 DEF Sound
  <2>3. Cardinality(others) \in Nat /\ Cardinality(entries) \in Nat
    BY <2>2, FS_CardinalityType
  <2> QED BY <2>1, <2>3, <1>1
<1>4. ASSUME NEW S \in SUBSET others, Cardinality(S) < Capacity
      PROVE  Sound(S \cup {e}, bound + 1, arena, problem) /\ Cardinality(S \cup {e}) <= Capacity
  <2>1. Sound(S, bound, arena, problem) /\ IsFiniteSet(S) /\ Cardinality(S) \in Nat
    <3>1. Sound(S, bound, arena, problem)
      BY <1>3, SubsetSound, Zenon
    <3> QED BY <3>1, FS_CardinalityType DEF Sound
  <2>2. IsFiniteSet(S \cup {e}) /\ Cardinality(S \cup {e}) <= Capacity
    <3>1. /\ IsFiniteSet(S \cup {e})
          /\ Cardinality(S \cup {e}) = IF e \in S THEN Cardinality(S) ELSE Cardinality(S) + 1
      BY <2>1, FS_AddElement, Zenon
    <3> QED BY <3>1, <2>1, <1>1, <1>4
  <2>3. \A f \in S : f \in Entry /\ f.order < bound /\ f.order < bound + 1 /\ f.node # e.node
    BY <2>1, <1>2 DEF Sound, Entry
  <2>4. \A f, h \in S \cup {e} : f # h => f.node # h.node /\ f.order # h.order
    <3>1. \A f \in S : f.order # e.order
      BY <2>3 DEF Entry
    <3>2. \A f, h \in S : f # h => f.node # h.node /\ f.order # h.order
      BY <2>1 DEF Sound
    <3> QED BY <2>3, <3>1, <3>2
  <2>5. e.order < bound + 1
    OBVIOUS
  <2>6. \A f \in S :
            /\ f.node \in 1..Len(arena) /\ f.depth = arena[f.node].depth
            /\ arena[f.node].config \notin problem.goals
            /\ \E child \in 1..Len(arena) : arena[child].parent = f.node
    BY <2>1 DEF Sound
  <2>7. \A f \in S \cup {e} :
            /\ f.node \in 1..Len(arena) /\ f.depth = arena[f.node].depth /\ f.order < bound + 1
            /\ arena[f.node].config \notin problem.goals
            /\ \E child \in 1..Len(arena) : arena[child].parent = f.node
    BY <2>3, <2>5, <2>6
  <2>8. S \cup {e} \in SUBSET Entry
    BY <2>3
  <2> QED BY <2>2, <2>4, <2>7, <2>8 DEF Sound
<1>5. Kept(entries, e) = IF Capacity = 0 THEN entries
        ELSE IF Cardinality(others) < Capacity THEN others \cup {e}
        ELSE IF Before(e, last) THEN (others \ {last}) \cup {e} ELSE others
  BY DEF Kept, others
<1>6. CASE Capacity = 0
  BY <1>5, <1>6
<1>7. CASE Capacity # 0 /\ Cardinality(others) < Capacity
  BY <1>4, <1>5, <1>7
<1>8. CASE Capacity # 0 /\ ~ (Cardinality(others) < Capacity)
  <2>1. others # {} /\ IsFiniteSet(others) /\ others \in SUBSET Entry
        /\ \A f, h \in others : f # h => f.order # h.order
    BY <1>1, <1>3, <1>8, FS_EmptySet DEF Sound
  <2>2. last \in others
    BY <2>1, RankedIsIn
  <2> HIDE DEF last
  <2>3. Cardinality(others \ {last}) < Capacity
    <3>1. Cardinality(others \ {last}) = Cardinality(others) - 1
      BY <2>1, <2>2, FS_RemoveElement
    <3> QED BY <3>1, <1>1, <1>3
  <2>4. Sound((others \ {last}) \cup {e}, bound + 1, arena, problem)
        /\ Cardinality((others \ {last}) \cup {e}) <= Capacity
    BY <2>3, <1>4
  <2>5. Sound(others, bound + 1, arena, problem)
    <3>1. \A f \in others : f.order < bound /\ f \in Entry
      BY <1>3 DEF Sound
    <3>2. \A f \in others : f.order < bound + 1
      BY <3>1 DEF Entry
    <3> QED BY <1>3, <3>2 DEF Sound
  <2> QED BY <2>4, <2>5, <1>3, <1>5, <1>8
<1> QED BY <1>1, <1>6, <1>7, <1>8

\* What resume_buffer_pop_best comes to: the walk goes on at the root, or at a
\* node of the buffer above the limit, and what it keeps is sound.
LEMMA ResumeSoundly ==
    ASSUME NEW entries, NEW limit, NEW bound, NEW arena, NEW call,
           Sound(entries, bound, arena, call), ResumeFrom(entries, limit)
    PROVE  /\ current' = Root \/ \E e \in entries : current' = e.node /\ ~ Reached(e.depth, limit)
           /\ buffer' \in SUBSET entries
           /\ Sound(buffer', bound, arena, call)
           /\ Cardinality(buffer') <= Cardinality(entries)
<1> DEFINE open == Resumable(entries, limit)
<1>1. CASE open = {}
  <2>1. current' = Root /\ buffer' = {}
    BY <1>1 DEF ResumeFrom
  <2> QED BY <2>1, SubsetSound
<1>2. CASE open # {}
  <2>1. open \in SUBSET entries /\ \A e \in open : ~ Reached(e.depth, limit)
    BY DEF Resumable
  <2>2. FirstRanked(open) \in open
    <3> HIDE DEF open
    <3>1. open \in SUBSET Entry /\ IsFiniteSet(open)
          /\ \A e, f \in open : e # f => e.order # f.order
      BY <2>1, FS_Subset DEF Sound
    <3> QED BY <1>2, <3>1, RankedIsIn
  <2>3. current' = FirstRanked(open).node /\ buffer' \in SUBSET entries
    BY <1>2 DEF ResumeFrom
  <2> HIDE DEF open
  <2> QED BY <2>1, <2>2, <2>3, SubsetSound
<1> QED BY <1>1, <1>2
----------------------------------------------------------------------------
(***************************************************************************)
(* The invariant.                                                          *)
(***************************************************************************)
Types ==
    /\ GraphInv
    /\ problem \in Problems
    /\ pc \in {"search", "fallback", "done"}
    /\ states \in Seq(EntropyState) /\ Len(states) = Len(nodes)
    /\ \A id \in NodeIds : states[id].cursor <= Len(states[id].cache)
    /\ current \in NodeIds
    /\ expanded \in Nat /\ iterations \in Nat /\ deepest \in Nat /\ inserts \in Nat
    /\ found \in Seq(Nat) /\ Found \subseteq NodeIds
    /\ best \in Nat \cup {NoLimit}
    /\ result \in NodeIds \cup {None}
    /\ route \in Seq(Lanes)

BufferInv == Sound(buffer, inserts, nodes, problem) /\ Cardinality(buffer) <= Capacity

\* The walk: it never stands on a goal, nor on a node as deep as the best one.
WalkInv ==
    pc = "search" =>
        /\ ~ IsGoal(Root) /\ ~ IsGoal(current)
        /\ \A id \in NodeIds \ {Root} : ~ IsGoal(Parent(id))
        /\ ~ Reached(Depth(current), best) /\ best # 0
        /\ iterations < 2 * HardLimit \/ iterations = 0
        /\ route = << >>

BudgetInv ==
    pc = "search" \/ best # NoLimit =>
        /\ Len(nodes) = expanded + 1
        /\ expanded <= HardLimit
        /\ iterations <= MaxOf(1, 2 * HardLimit)
        /\ \A id \in NodeIds :
             /\ Depth(id) <= deepest
             /\ problem.maxDepth # NoLimit => Depth(id) <= MaxOf(1, problem.maxDepth)

GoalInv ==
    /\ pc = "search" \/ best # NoLimit =>
         /\ Found = GoalNodes
         /\ \A id \in GoalNodes : best # NoLimit /\ best <= Depth(id)
         /\ best # NoLimit => \E id \in GoalNodes : Depth(id) = best
    /\ pc = "fallback" => best = NoLimit
    /\ pc = "done" /\ best # NoLimit => result # None /\ IsGoal(result) /\ Depth(result) = best

\* The rest of the route: it is connected, and none of the other atoms is on it.
RouteFree ==
    route # << >> =>
        /\ \A k \in 1..Len(route) : k # 1 => route[k][1] = route[k - 1][2]
        /\ \A k \in 1..Len(route), q \in Qubits :
              Config(current)[q] # route[1][1] => Config(current)[q] # route[k][2]

ReplayInv ==
    /\ \A id \in NodeIds \ {Root} : Config(id) = Moved(Config(Parent(id)), nodes[id].move)
    /\ \A id \in NodeIds : OneAtomEach(Config(id))
    /\ \A id \in NodeIds : \A i \in 1..Len(states[id].cache) :
          OneAtomEach(Moved(Config(id), states[id].cache[i]))
    /\ result # None => IsGoal(result)
    /\ RouteFree

IInv == Types /\ BufferInv /\ WalkInv /\ BudgetInv /\ GoalInv /\ ReplayInv

----------------------------------------------------------------------------
\* The arguments of a call.
LEMMA CallTypes ==
    ASSUME problem \in Problems
    PROVE  /\ problem.root \in Configs
           /\ HardLimit \in Nat /\ Capacity \in Nat /\ problem.eMax \in Nat
           /\ problem.maxDepth \in Nat \cup {NoLimit} /\ problem.reversionSteps \in Nat
           /\ \A config \in Configs : problem.rankings[config] \subseteq Seq(MoveSets)
<1>1. problem \in Calls
  BY EntropyAssumption
<1>2. 10 * Cardinality(Locations) \in Nat
  BY EntropyAssumption, FS_CardinalityType
<1> QED BY <1>1, <1>2 DEF Calls, HardLimit, Capacity

\* A call that changes neither arena nor table keeps what they say.
LEMMA SameGraph ==
    ASSUME GraphInv, UNCHANGED <<nodes, seen>>
    PROVE  GraphInv' /\ NodeIds' = NodeIds
  BY DEF GraphInv, GraphTypeOK, TreeGrowsForward, TableIsCheapest, NodeIds, Config, GScore,
         Depth, Parent

\* One insert of the driver, whose moves all cost 1.
LEMMA Inserted ==
    ASSUME GraphInv, NEW parent \in NodeIds, NEW move \in MoveSets, NEW config \in Configs,
           Insert(parent, move, config, GScore(parent) + 1)
    PROVE  /\ GraphInv'
           /\ Len(nodes) \in Nat /\ NewId = Len(nodes) + 1 /\ Len(nodes') = NewId
           /\ NodeIds' = NodeIds \cup {NewId} /\ NewId \notin NodeIds
           /\ NewId # Root /\ Root \in NodeIds
           /\ \A id \in NodeIds : nodes'[id] = nodes[id]
           /\ nodes'[NewId].config = config /\ nodes'[NewId].parent = parent
           /\ nodes'[NewId].move = move /\ nodes'[NewId].depth = Depth(parent) + 1
<1>1. 1 \in Costs
  BY EntropyAssumption
<1>2. GraphInv'
  BY <1>1, InsertKeepsGraphInv
<1>3. GScore(parent) + 1 \in Nat
  BY NodeTypes DEF GraphInv
<1>4. /\ Len(nodes') = Len(nodes) + 1
      /\ \A id \in NodeIds : nodes'[id] = nodes[id]
      /\ nodes'[NewId] = NodeFor(parent, move, config, GScore(parent) + 1)
      /\ NodeIds' = NodeIds \cup {NewId}
      /\ NewId \notin NodeIds /\ NewId \in Nat \ {0} /\ Len(nodes) \in Nat
  BY <1>3, InsertedNode DEF GraphInv
<1>5. Root \in NodeIds
  BY DEF GraphInv, GraphTypeOK, NodeIds, Root
<1> QED BY <1>2, <1>4, <1>5 DEF NodeFor, NewId

\* What the loop chose to do at the current node.
LEMMA ChoiceType ==
    ASSUME Types, NEW choice \in Selections(current)
    PROVE  /\ choice.cache \in Seq(MoveSets) /\ Len(choice.cache) \in Nat
           /\ choice.at # None => /\ choice.at \in 1..Len(choice.cache)
                                  /\ choice.cache[choice.at] \in MoveSets
                                  /\ NextConfig(choice) \in Configs
<1>1. states[current] \in EntropyState /\ Config(current) \in Configs
  BY NodeTypes DEF Types, GraphInv, NodeIds
<1>2. PICK ranking \in problem.rankings[Config(current)] : choice = Selection(states[current], ranking)
  BY DEF Selections
<1>3. ranking \in Seq(MoveSets)
  BY <1>1, <1>2, CallTypes DEF Types
<1>4. /\ choice.cache \in Seq(MoveSets)
      /\ choice.at = None \/ (choice.at \in 1..Len(choice.cache) /\ choice.cache[choice.at] \in MoveSets)
      /\ Len(choice.cache) \in Nat
  BY <1>1, <1>2, <1>3, SelectionType
<1>5. choice.cache[choice.at] \in MoveSets => NextConfig(choice) \in Configs
  BY <1>1, MovedType DEF NextConfig
<1> QED BY <1>4, <1>5

\* None of the moves chosen from brings two atoms together.
LEMMA ChoiceApart ==
    ASSUME Types, ReplayInv, NEW choice \in Selections(current)
    PROVE  \A i \in 1..Len(choice.cache) : OneAtomEach(Moved(Config(current), choice.cache[i]))
<1>1. states[current] \in EntropyState /\ Config(current) \in Configs
  BY NodeTypes DEF Types, GraphInv, NodeIds
<1>2. PICK ranking \in problem.rankings[Config(current)] : choice = Selection(states[current], ranking)
  BY DEF Selections
<1>3. ranking \in Seq(MoveSets)
  BY <1>1, <1>2, CallTypes DEF Types
<1>4. choice.cache = states[current].cache \/ choice.cache = ranking
  BY <1>1, <1>2, <1>3, SelectionType
<1>5. OneAtomEach(Config(current)) /\ current \in NodeIds /\ problem \in Problems
  BY DEF Types, ReplayInv
<1>6. \A i \in 1..Len(ranking) : OneAtomEach(Moved(Config(current), ranking[i]))
  BY <1>1, <1>2, <1>5, CandidatesApart
<1>7. \A i \in 1..Len(states[current].cache) :
          OneAtomEach(Moved(Config(current), states[current].cache[i]))
  BY <1>5 DEF ReplayInv
<1> QED BY <1>4, <1>6, <1>7

\* The entropy of a node is a number.
LEMMA EntropyType ==
    ASSUME Types, NEW id \in NodeIds
    PROVE  states[id] \in EntropyState /\ Entropy(id) \in Nat
<1>1. states[id] \in EntropyState
  BY DEF Types, NodeIds
<1> QED BY <1>1, CallTypes DEF Entropy, EntropyState, Types

\* Changing the entropy of a node changes nothing else.
LEMMA EntropySet ==
    ASSUME NEW ss \in Seq(EntropyState), NEW id \in 1..Len(ss), NEW e \in Nat
    PROVE  LET new == [ss EXCEPT ![id].entropy = e]
           IN  /\ new \in Seq(EntropyState) /\ Len(new) = Len(ss)
               /\ \A n \in 1..Len(ss) : new[n].cursor = ss[n].cursor /\ new[n].cache = ss[n].cache
<1> DEFINE es == [ss[id] EXCEPT !.entropy = e]
<1>1. ss[id] \in EntropyState
  OBVIOUS
<1>2. es \in EntropyState /\ es.cursor = ss[id].cursor /\ es.cache = ss[id].cache
  BY <1>1 DEF EntropyState
<1>3. [ss EXCEPT ![id].entropy = e] = [ss EXCEPT ![id] = es]
  OBVIOUS
<1> HIDE DEF es
<1> QED BY <1>2, <1>3

\* The state of a node stays one: when it cools down and when a move is marked.
LEMMA MarkedType ==
    ASSUME Types, NEW choice \in Selections(current)
    PROVE  /\ Entropy(current) \in Nat
           /\ Heated(choice) \in EntropyState /\ Heated(choice).cache = choice.cache
           /\ choice.at # None => /\ Marked(choice) \in EntropyState
                                  /\ Marked(choice).cache = choice.cache
                                  /\ Marked(choice).cursor <= Len(choice.cache)
<1>1. states[current] \in EntropyState /\ current \in NodeIds
  BY EntropyType DEF Types
<1>2. Entropy(current) \in Nat
  BY <1>1, EntropyType
<1>3. /\ choice.cache \in Seq(MoveSets) /\ Len(choice.cache) \in Nat
      /\ choice.at # None => choice.at \in 1..Len(choice.cache) /\ choice.cache[choice.at] \in MoveSets
  BY ChoiceType
<1>4. Heated(choice) \in EntropyState /\ Heated(choice).cache = choice.cache
  BY <1>1, <1>2, <1>3 DEF Heated, EntropyState
<1>5. ASSUME choice.at # None
      PROVE  /\ Marked(choice) \in EntropyState /\ Marked(choice).cache = choice.cache
             /\ Marked(choice).cursor <= Len(choice.cache)
  <2>1. choice.at \in Nat /\ choice.at <= Len(choice.cache) /\ choice.cache[choice.at] \in MoveSets
    BY <1>3, <1>5
  <2> QED BY <1>4, <2>1 DEF Marked, EntropyState
<1> QED BY <1>2, <1>4, <1>5
----------------------------------------------------------------------------
(***************************************************************************)
(* The actions that leave the graph alone.                                 *)
(***************************************************************************)

\* The first state.
LEMMA InitInv == Init => IInv
<1> SUFFICES ASSUME Init PROVE IInv
  OBVIOUS
<1>1. /\ problem \in Problems /\ problem.root \in Configs /\ HardLimit \in Nat /\ Capacity \in Nat
      /\ problem.maxDepth \in Nat \cup {NoLimit}
  BY CallTypes DEF Init
<1>2. GraphInv
  BY <1>1, NewGraphInv DEF Init
<1>3. /\ nodes = RootArena(problem.root) /\ NodeIds = {1} /\ Len(nodes) = 1
      /\ Config(Root) = problem.root /\ Depth(Root) = 0
  BY DEF Init, NewGraph, RootArena, NodeIds, Config, Depth, Root
<1>4. NewState \in EntropyState /\ NewState.cursor = 0 /\ NewState.cache = << >>
  BY DEF NewState, EntropyState
<1>5. Types
  BY <1>1, <1>2, <1>3, <1>4 DEF Init, Types, Root, None, Found, NoLimit
<1>6. BufferInv
  <2>1. Sound({}, 0, nodes, problem)
    BY FS_EmptySet DEF Sound
  <2> QED BY <1>1, <2>1, FS_EmptySet DEF Init, BufferInv
<1>7. WalkInv
  BY <1>3 DEF Init, WalkInv, IsGoal, Root, Reached, NoLimit
<1>8. BudgetInv
  BY <1>1, <1>3 DEF Init, BudgetInv, MaxOf, NoLimit, Root
<1>9. GoalInv
  BY <1>3 DEF Init, GoalInv, GoalNodes, Found, IsGoal, NoLimit, Root
<1>10. ReplayInv
  <2>1. OneAtomEach(problem.root)
    BY <1>1, CandidatesApart
  <2>2. result # None => IsGoal(result)
    BY <1>3 DEF Init, IsGoal, Root, None
  <2> QED BY <1>3, <1>4, <2>1, <2>2 DEF Init, ReplayInv, RouteFree, Root
<1> QED BY <1>5, <1>6, <1>7, <1>8, <1>9, <1>10 DEF IInv

\* The loop runs out of budget.
LEMMA StopKeepsInv ==
    ASSUME IInv, pc = "search", StopAtBudget
    PROVE  IInv'
<1> USE DEF IInv
<1>1. GraphInv' /\ NodeIds' = NodeIds /\ Root \in NodeIds
  BY SameGraph DEF StopAtBudget, Types, GraphInv, GraphTypeOK, NodeIds, Root
<1>2. HardLimit \in Nat /\ HardLimit' = HardLimit
  BY CallTypes DEF Types, HardLimit, StopAtBudget
<1>3. \/ /\ found # << >> /\ pc' = "done" /\ result' \in Shallowest(Found, nodes) /\ current' = current
      \/ /\ found = << >> /\ pc' = "fallback" /\ current' = Root /\ result' = result
  BY DEF StopAtBudget
<1>4. Found' = Found /\ GoalNodes' = GoalNodes
  BY <1>1 DEF StopAtBudget, Found, GoalNodes, IsGoal, Config
<1>5. result' \in NodeIds \cup {None}
  BY <1>3 DEF Types, Shallowest
<1>6. Types'
  BY <1>1, <1>3, <1>4, <1>5 DEF StopAtBudget, Types
<1>7. BufferInv'
  BY DEF StopAtBudget, BufferInv, Capacity
<1>8. WalkInv'
  BY <1>3 DEF WalkInv
<1>9. /\ Found = GoalNodes /\ \A id \in GoalNodes : best # NoLimit /\ best <= Depth(id)
      /\ best # NoLimit => \E id \in GoalNodes : Depth(id) = best
  BY DEF GoalInv
<1>10. CASE found = << >>
  <2>1. GoalNodes = {}
    BY <1>9, <1>10 DEF Found
  <2>2. best = NoLimit /\ best' = NoLimit /\ pc' = "fallback" /\ current' = Root /\ result' = result
    BY <2>1, <1>3, <1>9, <1>10 DEF StopAtBudget
  <2>3. BudgetInv' /\ GoalInv'
    BY <2>2 DEF BudgetInv, GoalInv
  <2>4. ReplayInv'
    <3>1. route' = << >>
      BY DEF StopAtBudget, WalkInv
    <3>2. \A id \in NodeIds : Parent(id)' = Parent(id) /\ Config(id)' = Config(id)
      BY DEF StopAtBudget, Parent, Config
    <3> QED BY <1>1, <2>2, <3>1 DEF StopAtBudget, ReplayInv, RouteFree, Config, Parent, IsGoal
  <2> QED BY <2>3, <2>4, <1>6, <1>7, <1>8
<1>11. CASE found # << >>
  <2>1. pc' = "done" /\ result' \in Shallowest(Found, nodes) /\ current' = current /\ Found # {}
    BY <1>3, <1>11 DEF Found, Types
  <2>2. result' \in GoalNodes /\ \A id \in GoalNodes : Depth(result') <= Depth(id)
    BY <2>1, <1>9 DEF Shallowest, Depth
  <2>3. best # NoLimit /\ best' = best
    BY <2>2, <1>9 DEF StopAtBudget
  <2>4. Depth(result') = best
    <3>1. PICK id \in GoalNodes : Depth(id) = best
      BY <1>9, <2>3
    <3>2. Depth(result') <= best /\ best <= Depth(result')
      BY <3>1, <2>2, <1>9
    <3>3. Depth(result') \in Nat /\ best \in Nat
      BY <2>2, <2>3, NodeTypes DEF Types, GraphInv, GoalNodes
    <3> QED BY <3>2, <3>3
  <2>5. IsGoal(result') /\ result' # None
    BY <2>2 DEF GoalNodes, NodeIds, None
  <2>6. GoalInv'
    BY <1>1, <1>4, <1>9, <2>1, <2>3, <2>4, <2>5
       DEF StopAtBudget, GoalInv, GoalNodes, IsGoal, Depth, Config
  <2>7. BudgetInv'
    <3>1. iterations \in Nat /\ (iterations < 2 * HardLimit \/ iterations = 0)
      BY DEF Types, WalkInv
    <3>2. iterations' <= MaxOf(1, 2 * HardLimit)
      BY <3>1, <1>2 DEF StopAtBudget, MaxOf
    <3> QED BY <1>1, <1>2, <2>1, <3>2 DEF StopAtBudget, BudgetInv, Depth
  <2>8. ReplayInv'
    <3>1. route' = << >>
      BY DEF StopAtBudget, WalkInv
    <3> QED BY <1>1, <2>5, <3>1 DEF StopAtBudget, ReplayInv, RouteFree, Config, Parent, IsGoal
  <2> QED BY <2>6, <2>7, <2>8, <1>6, <1>7, <1>8
<1> QED BY <1>10, <1>11

\* Setting the state of the current node.
LEMMA StateSet ==
    ASSUME Types, NEW es \in EntropyState, es.cursor <= Len(es.cache)
    PROVE  LET new == [states EXCEPT ![current] = es]
           IN  /\ new \in Seq(EntropyState) /\ Len(new) = Len(nodes)
               /\ \A id \in NodeIds : new[id].cursor <= Len(new[id].cache)
               /\ new[current] = es /\ \A id \in NodeIds \ {current} : new[id] = states[id]
<1> DEFINE new == [states EXCEPT ![current] = es]
<1>1. states \in Seq(EntropyState) /\ current \in 1..Len(states) /\ NodeIds = 1..Len(states)
  BY DEF Types, NodeIds
<1>2. /\ new \in Seq(EntropyState) /\ Len(new) = Len(states)
      /\ new[current] = es /\ \A id \in NodeIds \ {current} : new[id] = states[id]
  BY <1>1
<1> QED BY <1>2 DEF Types

\* A reversion.
LEMMA RevertKeepsInv ==
    ASSUME IInv, pc = "search", Revert
    PROVE  IInv'
<1> USE DEF IInv
<1> DEFINE ancestor == Back(current, problem.reversionSteps)
           forced == [states EXCEPT ![current].entropy = Entropy(current)]
           Free == {n \in NodeIds : ~ IsGoal(n) /\ ~ Reached(Depth(n), best)}
<1>1. /\ GraphInv' /\ NodeIds' = NodeIds
      /\ UNCHANGED <<nodes, seen, problem, pc, expanded, deepest, found, best, buffer, inserts,
                     result, route>>
  BY SameGraph DEF Revert, Iterate, Types, fallbackVars
<1>2. ancestor \in Free
  <2>1. current \in Free
    BY DEF Types, WalkInv
  <2>2. ASSUME NEW n \in Free, Parent(n) # None PROVE Parent(n) \in Free
    <3>1. n \in NodeIds \ {Root} /\ GraphTypeOK /\ TreeGrowsForward
      BY <2>2 DEF Types, GraphInv, TreeGrowsForward, Root
    <3>2. Parent(n) \in 1..(n - 1) /\ Depth(n) = Depth(Parent(n)) + 1 /\ ~ IsGoal(Parent(n))
      BY <3>1 DEF TreeGrowsForward, Root, WalkInv
    <3>3. Parent(n) \in NodeIds
      BY <3>1, <3>2 DEF NodeIds, GraphTypeOK
    <3>4. Depth(Parent(n)) \in Nat
      BY <3>1, <3>3, NodeTypes
    <3>5. ~ Reached(Depth(Parent(n)), best)
      BY <2>2, <3>2, <3>4 DEF Reached, Types
    <3> QED BY <3>2, <3>3, <3>5
  <2>3. problem.reversionSteps \in Nat
    BY CallTypes DEF Types
  <2> HIDE DEF Free
  <2> QED BY <2>1, <2>2, <2>3, BackStays
<1>3. current' = ancestor /\ states' = [forced EXCEPT ![ancestor].entropy = @ + 1]
  BY DEF Revert
<1> HIDE DEF ancestor
<1>4. /\ states' \in Seq(EntropyState) /\ Len(states') = Len(nodes)
      /\ \A id \in NodeIds : states'[id].cursor = states[id].cursor /\ states'[id].cache = states[id].cache
  <2>1. states \in Seq(EntropyState) /\ Len(states) = Len(nodes) /\ current \in 1..Len(nodes)
        /\ ancestor \in 1..Len(nodes) /\ NodeIds = 1..Len(nodes)
    BY <1>2 DEF Types, NodeIds
  <2>2. Entropy(current) \in Nat
    BY <2>1, EntropyType
  <2>3. /\ forced \in Seq(EntropyState) /\ Len(forced) = Len(nodes)
        /\ \A id \in NodeIds : forced[id].cursor = states[id].cursor /\ forced[id].cache = states[id].cache
    BY <2>1, <2>2, EntropySet
  <2> HIDE DEF forced
  <2>4. forced[ancestor].entropy + 1 \in Nat /\ ancestor \in 1..Len(forced)
    <3>1. forced[ancestor] \in EntropyState
      BY <2>1, <2>3
    <3>2. forced[ancestor].entropy \in Nat
      BY <3>1 DEF EntropyState
    <3> QED BY <2>1, <2>3, <3>2
  <2>5. LET new == [forced EXCEPT ![ancestor].entropy = forced[ancestor].entropy + 1]
        IN  /\ new \in Seq(EntropyState) /\ Len(new) = Len(forced)
            /\ \A n \in 1..Len(forced) : new[n].cursor = forced[n].cursor /\ new[n].cache = forced[n].cache
    BY <2>3, <2>4, EntropySet
  <2> QED BY <1>3, <2>1, <2>3, <2>5
<1>5. iterations' = iterations + 1 /\ iterations + 1 < 2 * HardLimit /\ HardLimit \in Nat
  BY CallTypes DEF Revert, Iterate, Spent, Types
<1>6. Types'
  <2> HIDE DEF forced
  <2>1. current' \in NodeIds'
    BY <1>1, <1>2, <1>3
  <2>2. \A id \in NodeIds : states'[id].cursor <= Len(states'[id].cache)
    BY <1>4 DEF Types
  <2> HIDE DEF Free
  <2> QED BY <1>1, <1>4, <1>5, <2>1, <2>2 DEF Types, Found
<1>7. BufferInv'
  BY <1>1 DEF Revert, BufferInv, Capacity
<1>8. WalkInv'
  BY <1>1, <1>2, <1>3, <1>5 DEF WalkInv, IsGoal, Config, Depth, Parent, HardLimit
<1>9. BudgetInv'
  <2>1. iterations' <= MaxOf(1, 2 * HardLimit)
    BY <1>5 DEF MaxOf, Types
  <2> QED BY <1>1, <2>1 DEF Revert, BudgetInv, Depth, HardLimit
<1>10. GoalInv'
  BY <1>1 DEF GoalInv, Found, GoalNodes, IsGoal, Config, Depth
<1>11. ReplayInv'
  <2>1. route' = << >>
    BY <1>1 DEF WalkInv
  <2> QED BY <1>1, <1>4, <2>1 DEF ReplayInv, RouteFree, IsGoal, Config, Parent
<1> QED BY <1>6, <1>7, <1>8, <1>9, <1>10, <1>11

\* The iterations that leave the graph, the walk and the goals alone: there is
\* nothing left to try, or what was tried is known.
LEMMA StayKeepsInv ==
    ASSUME IInv, pc = "search", NEW choice \in Selections(current), Iterate,
           NEW es \in EntropyState, es.cursor <= Len(es.cache), es.cache = choice.cache,
           states' = [states EXCEPT ![current] = es],
           UNCHANGED <<nodes, seen, pc, current, expanded, deepest, found, best, buffer,
                       inserts, result>>
    PROVE  IInv'
<1> USE DEF IInv
<1>1. GraphInv' /\ NodeIds' = NodeIds /\ UNCHANGED <<problem, route>>
  BY SameGraph DEF Iterate, Types, fallbackVars
<1>2. /\ states' \in Seq(EntropyState) /\ Len(states') = Len(nodes)
      /\ \A id \in NodeIds : states'[id].cursor <= Len(states'[id].cache)
      /\ states'[current] = es /\ \A id \in NodeIds \ {current} : states'[id] = states[id]
  <2> HIDE DEF IInv
  <2>1. Types
    BY DEF IInv
  <2> DEFINE new == [states EXCEPT ![current] = es]
  <2>2. /\ new \in Seq(EntropyState) /\ Len(new) = Len(nodes)
        /\ \A id \in NodeIds : new[id].cursor <= Len(new[id].cache)
        /\ new[current] = es /\ \A id \in NodeIds \ {current} : new[id] = states[id]
    BY <2>1, StateSet
  <2>3. states' = new
    OBVIOUS
  <2> HIDE DEF new
  <2> QED BY <2>2, <2>3
<1>3. iterations' = iterations + 1 /\ iterations + 1 < 2 * HardLimit /\ HardLimit \in Nat
  BY CallTypes DEF Iterate, Spent, Types
<1>4. Types'
  BY <1>1, <1>2, <1>3 DEF Types, Found
<1>5. BufferInv'
  BY <1>1 DEF BufferInv, Capacity
<1>6. WalkInv'
  BY <1>1, <1>3 DEF WalkInv, IsGoal, Config, Depth, Parent, HardLimit
<1>7. BudgetInv'
  <2>1. iterations' <= MaxOf(1, 2 * HardLimit)
    BY <1>3 DEF MaxOf, Types
  <2> QED BY <1>1, <2>1 DEF BudgetInv, Depth, HardLimit
<1>8. GoalInv'
  BY <1>1 DEF GoalInv, Found, GoalNodes, IsGoal, Config, Depth
<1>9. ReplayInv'
  <2>1. \A i \in 1..Len(es.cache) : OneAtomEach(Moved(Config(current), es.cache[i]))
    BY ChoiceApart
  <2>2. \A id \in NodeIds : \A i \in 1..Len(states'[id].cache) :
            OneAtomEach(Moved(Config(id), states'[id].cache[i]))
    BY <1>2, <2>1 DEF ReplayInv
  <2>3. route' = << >>
    BY <1>1 DEF WalkInv
  <2> QED BY <1>1, <2>2, <2>3 DEF ReplayInv, RouteFree, IsGoal, Config, Parent
<1> QED BY <1>4, <1>5, <1>6, <1>7, <1>8, <1>9

\* Nothing is left to try at the current node.
LEMMA BarrenKeepsInv ==
    ASSUME IInv, pc = "search", NEW choice \in Selections(current), Barren(choice)
    PROVE  IInv'
<1> DEFINE es == [Heated(choice) EXCEPT !.entropy = @ + 1, !.cursor = Len(choice.cache)]
<1>1. /\ Heated(choice) \in EntropyState /\ Heated(choice).cache = choice.cache
      /\ Len(choice.cache) \in Nat
  BY MarkedType, ChoiceType DEF IInv
<1>2. es \in EntropyState /\ es.cursor <= Len(es.cache) /\ es.cache = choice.cache
  <2>1. PICK h \in EntropyState : h = Heated(choice)
    BY <1>1
  <2>2. PICK e \in Nat : e = h.entropy + 1
    BY DEF EntropyState
  <2>3. PICK n \in Nat : n = Len(choice.cache)
    BY <1>1
  <2>4. es = [h EXCEPT !.entropy = e, !.cursor = n]
    BY <2>1, <2>2, <2>3
  <2>5. es \in EntropyState /\ es.cursor = n /\ es.cache = h.cache
    <3> HIDE DEF es
    <3> QED BY <2>4 DEF EntropyState
  <2> HIDE DEF es
  <2> QED BY <1>1, <2>1, <2>3, <2>5
<1>3. /\ states' = [states EXCEPT ![current] = es] /\ Iterate
      /\ UNCHANGED <<nodes, seen, pc, current, expanded, deepest, found, best, buffer,
                     inserts, result>>
  BY DEF Barren
<1> HIDE DEF es
<1> QED BY <1>2, <1>3, StayKeepsInv
----------------------------------------------------------------------------
(***************************************************************************)
(* The iterations that reach a goal or a new node.                         *)
(***************************************************************************)

\* What the arena is to the rest of a step that may have added a node.
Grown ==
    /\ GraphInv' /\ problem' = problem /\ problem \in Problems
    /\ NodeIds \subseteq NodeIds' /\ Root \in NodeIds'
    /\ \A n \in NodeIds : nodes'[n] = nodes[n]
    /\ \A n \in NodeIds' \ {Root} : nodes'[nodes'[n].parent].config \notin problem.goals
    /\ nodes'[Root].config \notin problem.goals

\* What the nodes of the arena after a step are.
LEMMA GrownTypes ==
    ASSUME GraphInv'
    PROVE  \A n \in NodeIds' : nodes'[n].depth \in Nat /\ nodes'[n].config \in Configs
<1>1. nodes' \in Seq(NodeData) /\ NodeIds' = 1..Len(nodes')
  BY DEF GraphInv, GraphTypeOK, NodeIds, NodeData
<1>2. ASSUME NEW n \in NodeIds' PROVE nodes'[n] \in NodeData
  <2> HIDE DEF NodeData
  <2> QED BY <1>1, <1>2
<1> QED BY <1>2 DEF NodeData

\* Where the walk goes on when it resumes.
LEMMA ResumeKeepsWalk ==
    ASSUME Grown, NEW entries, Sound(entries, inserts', nodes', problem),
           Cardinality(entries) <= Capacity, ResumeFrom(entries, best'),
           best' \in Nat \cup {NoLimit}, best' # 0,
           iterations' < 2 * HardLimit, route' = << >>
    PROVE  current' \in NodeIds' /\ BufferInv' /\ WalkInv'
<1>1. /\ current' = Root \/ \E e \in entries : current' = e.node /\ ~ Reached(e.depth, best')
      /\ Sound(buffer', inserts', nodes', problem)
      /\ Cardinality(buffer') <= Cardinality(entries) /\ buffer' \in SUBSET entries
  BY ResumeSoundly, Zenon
<1>2. IsFiniteSet(entries) /\ IsFiniteSet(buffer')
  BY <1>1 DEF Sound
<1>3. Cardinality(buffer') <= Capacity
  <2>1. Cardinality(entries) \in Nat /\ Cardinality(buffer') \in Nat /\ Capacity \in Nat
    BY <1>2, FS_CardinalityType, CallTypes DEF Grown
  <2> QED BY <2>1, <1>1
<1>4. BufferInv'
  BY <1>1, <1>3 DEF BufferInv, Grown, Capacity
<1>5. nodes'[Root].depth = 0
  BY DEF Grown, GraphInv, TreeGrowsForward, Depth, Root
<1>6. /\ current' \in NodeIds' /\ nodes'[current'].config \notin problem.goals
      /\ ~ Reached(nodes'[current'].depth, best')
  <2>1. CASE current' = Root
    BY <2>1, <1>5 DEF Grown, Reached, NoLimit
  <2>2. CASE \E e \in entries : current' = e.node /\ ~ Reached(e.depth, best')
    BY <2>2 DEF Sound, NodeIds
  <2> QED BY <1>1, <2>1, <2>2
<1>7. WalkInv'
  BY <1>6 DEF WalkInv, Grown, IsGoal, Config, Parent, Depth, HardLimit
<1> QED BY <1>4, <1>6, <1>7

\* Recording a goal: the goals recorded are again all there are, with the best
\* depth, and the call ends with the best of them or resumes.
LEMMA RecordKeepsInv ==
    ASSUME IInv, pc = "search", Grown, NEW id \in NodeIds', NEW depth \in Nat \ {0},
           depth = nodes'[id].depth, GoalNodes' = GoalNodes \cup {id},
           NEW entries, Sound(entries, inserts', nodes', problem),
           Cardinality(entries) <= Capacity,
           RecordGoal(id, depth, entries), iterations' < 2 * HardLimit, route' = << >>,
           current \in NodeIds
    PROVE  /\ pc' \in {"search", "done"} /\ best' # NoLimit /\ best' \in Nat
           /\ current' \in NodeIds'
           /\ found' \in Seq(Nat) /\ Found' \subseteq NodeIds'
           /\ result' \in NodeIds' \cup {None}
           /\ BufferInv' /\ WalkInv' /\ GoalInv'
           /\ (result # None => IsGoal(result))'
<1>1. found \in Seq(Nat) /\ best \in Nat \cup {NoLimit} /\ result \in NodeIds \cup {None}
      /\ id \in Nat /\ Found \subseteq NodeIds
  BY DEF IInv, Types, NodeIds
<1>2. found' = Append(found, id) /\ best' = BestDepth(depth)
  BY DEF RecordGoal
<1>3. found' \in Seq(Nat) /\ Found' = Found \cup {id}
  BY <1>1, <1>2 DEF Found
<1>4. /\ Found = GoalNodes
      /\ \A n \in GoalNodes : best # NoLimit /\ best <= Depth(n)
      /\ best # NoLimit => \E n \in GoalNodes : Depth(n) = best
      /\ best # 0 /\ (result # None => IsGoal(result))
  BY DEF IInv, GoalInv, WalkInv, ReplayInv
<1>5. /\ best' \in Nat \ {0} /\ best' # NoLimit /\ best' <= depth
      /\ best # NoLimit => best' <= best
      /\ best' = depth \/ best' = best
  BY <1>1, <1>2, <1>4 DEF BestDepth, NoLimit
<1>6. Found' = GoalNodes'
  BY <1>3, <1>4
<1>7. \A n \in GoalNodes : nodes'[n] = nodes[n] /\ nodes'[n].depth \in Nat /\ nodes'[n].depth = Depth(n)
  <2>1. \A n \in NodeIds' : nodes'[n].depth \in Nat
    BY GrownTypes DEF Grown
  <2> QED BY <2>1 DEF Grown, GoalNodes, Depth
<1>8. \A n \in GoalNodes' : best' <= nodes'[n].depth
  BY <1>1, <1>4, <1>5, <1>7
<1>9. \E n \in GoalNodes' : nodes'[n].depth = best'
  BY <1>4, <1>5, <1>7
<1>10. GoalNodes' \subseteq NodeIds' /\ \A n \in GoalNodes' : nodes'[n].config \in problem.goals
  BY DEF GoalNodes, IsGoal, Config, Grown
<1>11. CASE Len(found) + 1 >= problem.maxGoals
  <2>1. /\ pc' = "done" /\ buffer' = Discard(entries, id) /\ current' = current
        /\ result' \in Shallowest(Found \cup {id}, nodes')
    BY <1>11 DEF RecordGoal
  <2>2. result' \in GoalNodes' /\ \A n \in GoalNodes' : nodes'[result'].depth <= nodes'[n].depth
    BY <2>1, <1>3, <1>6 DEF Shallowest
  <2>3. nodes'[result'].depth = best'
    <3>1. PICK n \in GoalNodes' : nodes'[n].depth = best'
      BY <1>9
    <3>2. nodes'[result'].depth <= best' /\ best' <= nodes'[result'].depth
      BY <3>1, <2>2, <1>8
    <3>3. nodes'[result'].depth \in Nat
      BY <2>2, <1>10, GrownTypes DEF Grown
    <3> QED BY <3>2, <3>3, <1>5
  <2>4. BufferInv'
    <3>1. Discard(entries, id) \in SUBSET entries
      BY DEF Discard
    <3>2. /\ Sound(Discard(entries, id), inserts', nodes', problem)
          /\ Cardinality(Discard(entries, id)) <= Cardinality(entries)
      BY <3>1, SubsetSound, Zenon
    <3>3. Cardinality(entries) \in Nat /\ Cardinality(Discard(entries, id)) \in Nat /\ Capacity \in Nat
      BY <3>2, FS_CardinalityType, CallTypes DEF Sound, Grown
    <3> QED BY <2>1, <3>2, <3>3 DEF BufferInv, Capacity, Grown
  <2>5. WalkInv'
    BY <2>1 DEF WalkInv
  <2>6. result' \in NodeIds' /\ result' # None /\ nodes'[result'].config \in problem.goals
    BY <2>2, <1>10 DEF NodeIds, None
  <2>7. GoalInv'
    <3>1. \A n \in GoalNodes' : Depth(n)' = nodes'[n].depth
      BY DEF Depth
    <3>2. IsGoal(result)' /\ Depth(result)' = best'
      BY <2>3, <2>6 DEF IsGoal, Config, Depth, Grown
    <3> QED BY <1>5, <1>6, <1>8, <1>9, <2>1, <2>6, <3>1, <3>2 DEF GoalInv
  <2>8. (result # None => IsGoal(result))'
    BY <2>6 DEF IsGoal, Config, Grown
  <2>9. current' \in NodeIds'
    BY <2>1 DEF Grown
  <2> QED BY <1>3, <1>5, <1>6, <1>10, <2>1, <2>4, <2>5, <2>6, <2>7, <2>8, <2>9
<1>12. CASE ~ (Len(found) + 1 >= problem.maxGoals)
  <2>1. /\ pc' = "search" /\ result' = result
        /\ ResumeFrom(Discard(entries, id), best')
    BY <1>2, <1>12 DEF RecordGoal
  <2>2. /\ Sound(Discard(entries, id), inserts', nodes', problem)
        /\ Cardinality(Discard(entries, id)) <= Capacity
    <3>1. Discard(entries, id) \in SUBSET entries
      BY DEF Discard
    <3>2. /\ Sound(Discard(entries, id), inserts', nodes', problem)
          /\ Cardinality(Discard(entries, id)) <= Cardinality(entries)
      BY <3>1, SubsetSound, Zenon
    <3>3. Cardinality(entries) \in Nat /\ Cardinality(Discard(entries, id)) \in Nat /\ Capacity \in Nat
      BY <3>2, FS_CardinalityType, CallTypes DEF Sound, Grown
    <3> QED BY <3>2, <3>3
  <2>3. current' \in NodeIds' /\ BufferInv' /\ WalkInv'
    BY <1>5, <2>1, <2>2, ResumeKeepsWalk
  <2>4. GoalInv'
    <3>1. \A n \in GoalNodes' : Depth(n)' = nodes'[n].depth
      BY DEF Depth
    <3> QED BY <1>5, <1>6, <1>8, <1>9, <2>1, <3>1 DEF GoalInv
  <2>5. (result # None => IsGoal(result))' /\ result' \in NodeIds' \cup {None}
    BY <1>1, <1>4, <2>1 DEF IsGoal, Config, Grown
  <2> QED BY <1>3, <1>5, <1>6, <1>10, <2>1, <2>3, <2>4, <2>5
<1> QED BY <1>11, <1>12

\* What an iteration that goes past the checks at the top of the loop keeps.
LEMMA IterateTypes ==
    ASSUME IInv, pc = "search", Iterate
    PROVE  /\ iterations' = iterations + 1 /\ iterations' \in Nat /\ iterations' < 2 * HardLimit
           /\ HardLimit' = HardLimit /\ HardLimit \in Nat /\ expanded < HardLimit
           /\ iterations' <= MaxOf(1, 2 * HardLimit)
           /\ problem' = problem /\ problem \in Problems
           /\ route = << >> /\ route' = << >>
<1>1. HardLimit \in Nat /\ iterations \in Nat /\ expanded \in Nat
  BY CallTypes DEF IInv, Types
<1>2. iterations' = iterations + 1 /\ ~ (expanded >= HardLimit) /\ ~ (iterations + 1 >= 2 * HardLimit)
  BY DEF Iterate, Spent
<1>3. iterations' \in Nat /\ iterations' < 2 * HardLimit /\ expanded < HardLimit
      /\ iterations' <= MaxOf(1, 2 * HardLimit)
  BY <1>1, <1>2 DEF MaxOf
<1>4. problem' = problem /\ route' = route
  BY DEF Iterate, fallbackVars
<1>5. HardLimit' = HardLimit
  BY <1>4 DEF HardLimit
<1> QED BY <1>1, <1>2, <1>3, <1>4, <1>5 DEF IInv, Types, WalkInv

\* The move leads to a node that is known.
LEMMA SeeAgainKeepsInv ==
    ASSUME IInv, pc = "search", NEW choice \in Selections(current), SeeAgain(choice)
    PROVE  IInv'
<1> DEFINE config == NextConfig(choice)
           child == seen[config]
<1>1. /\ choice.at # None /\ Iterate /\ Rediscovered(config, NextG)
      /\ UNCHANGED <<nodes, seen, expanded, deepest, inserts>>
  BY DEF SeeAgain
<1>2. /\ Marked(choice) \in EntropyState /\ Marked(choice).cache = choice.cache
      /\ Marked(choice).cursor <= Len(choice.cache)
      /\ config \in Configs
  BY <1>1, MarkedType, ChoiceType DEF IInv
<1>3. child \in NodeIds /\ Config(child) = config
  BY <1>1, <1>2 DEF IInv, Types, GraphInv, GraphTypeOK, TableIsCheapest, Rediscovered, None, NodeIds
<1> HIDE DEF config
<1>4. CASE ~ IsGoal(child)
  <2> DEFINE es == [Marked(choice) EXCEPT !.entropy = @ + 1]
  <2>1. states' = [states EXCEPT ![current] = es]
        /\ UNCHANGED <<nodes, seen, pc, current, expanded, deepest, found, best, buffer, inserts, result>>
    BY <1>1, <1>4 DEF SeeAgain, config
  <2>2. es \in EntropyState /\ es.cursor <= Len(es.cache) /\ es.cache = choice.cache
    <3>1. PICK m \in EntropyState : m = Marked(choice)
      BY <1>2
    <3>2. PICK e \in Nat : e = m.entropy + 1
      BY DEF EntropyState
    <3>3. es = [m EXCEPT !.entropy = e]
      BY <3>1, <3>2
    <3>4. es \in EntropyState /\ es.cursor = m.cursor /\ es.cache = m.cache
      <4> HIDE DEF es
      <4> QED BY <3>3 DEF EntropyState
    <3> HIDE DEF es
    <3> QED BY <1>2, <3>1, <3>4
  <2> HIDE DEF es
  <2> QED BY <1>1, <2>1, <2>2, StayKeepsInv
<1>5. CASE IsGoal(child)
  <2>1. /\ states' = [states EXCEPT ![current] = Marked(choice)]
        /\ RecordGoal(child, Depth(child), buffer)
    BY <1>1, <1>5 DEF SeeAgain, config
  <2>2. /\ GraphInv' /\ NodeIds' = NodeIds /\ Root \in NodeIds
        /\ \A n \in NodeIds : nodes'[n] = nodes[n]
    BY <1>1, SameGraph DEF IInv, Types, GraphInv, GraphTypeOK, NodeIds, Root
  <2>3. /\ iterations' < 2 * HardLimit /\ iterations' \in Nat
        /\ iterations' <= MaxOf(1, 2 * HardLimit) /\ HardLimit' = HardLimit
        /\ problem' = problem /\ problem \in Problems /\ route' = << >>
    BY <1>1, IterateTypes
  <2>4. /\ ~ IsGoal(Root) /\ \A n \in NodeIds \ {Root} : ~ IsGoal(Parent(n))
    BY DEF IInv, WalkInv
  <2>5. Grown
    BY <2>2, <2>3, <2>4, <1>1 DEF Grown, IsGoal, Config, Parent
  <2>6. Depth(child) \in Nat \ {0} /\ Depth(child) = nodes'[child].depth /\ child \in NodeIds'
    <3>1. child \in NodeIds \ {1}
      BY <1>3, <1>5, <2>4 DEF Root
    <3>2. Depth(child) = Depth(Parent(child)) + 1 /\ Parent(child) \in 1..(child - 1) /\ Len(nodes) \in Nat
      BY <3>1 DEF IInv, Types, GraphInv, TreeGrowsForward, GraphTypeOK
    <3>3. Parent(child) \in NodeIds
      BY <3>1, <3>2 DEF NodeIds
    <3>4. Depth(Parent(child)) \in Nat
      BY <3>3, NodeTypes DEF IInv, Types, GraphInv
    <3> QED BY <3>2, <3>4, <1>1, <1>3, <2>2 DEF Depth
  <2>7. GoalNodes' = GoalNodes \cup {child}
    BY <1>1, <1>3, <1>5, <2>2, <2>3 DEF GoalNodes, IsGoal, Config
  <2>8. Sound(buffer, inserts', nodes', problem) /\ Cardinality(buffer) <= Capacity
    BY <1>1 DEF IInv, BufferInv
  <2>9. current \in NodeIds /\ Types
    BY DEF IInv, Types
  <2>10. /\ pc' \in {"search", "done"} /\ best' # NoLimit /\ best' \in Nat
         /\ current' \in NodeIds'
         /\ found' \in Seq(Nat) /\ Found' \subseteq NodeIds'
         /\ result' \in NodeIds' \cup {None}
         /\ BufferInv' /\ WalkInv' /\ GoalInv'
         /\ (result # None => IsGoal(result))'
    <3> HIDE DEF child
    <3> QED BY <2>1, <2>3, <2>5, <2>6, <2>7, <2>8, <2>9, RecordKeepsInv
  <2>11. /\ states' \in Seq(EntropyState) /\ Len(states') = Len(nodes)
         /\ \A id \in NodeIds : states'[id].cursor <= Len(states'[id].cache)
         /\ states'[current] = Marked(choice) /\ \A id \in NodeIds \ {current} : states'[id] = states[id]
    <3> DEFINE new == [states EXCEPT ![current] = Marked(choice)]
    <3>1. /\ new \in Seq(EntropyState) /\ Len(new) = Len(nodes)
          /\ \A id \in NodeIds : new[id].cursor <= Len(new[id].cache)
          /\ new[current] = Marked(choice) /\ \A id \in NodeIds \ {current} : new[id] = states[id]
      BY <1>2, <2>9, StateSet
    <3>2. states' = new
      BY <2>1
    <3> HIDE DEF new
    <3> QED BY <3>1, <3>2
  <2> HIDE DEF child
  <2>12. Types'
    BY <1>1, <2>2, <2>3, <2>10, <2>11 DEF IInv, Types
  <2>13. BudgetInv'
    BY <1>1, <2>2, <2>3 DEF IInv, BudgetInv, Depth
  <2>14. ReplayInv'
    <3>1. \A i \in 1..Len(choice.cache) : OneAtomEach(Moved(Config(current), choice.cache[i]))
      BY ChoiceApart DEF IInv
    <3>2. \A id \in NodeIds : \A i \in 1..Len(states'[id].cache) :
              OneAtomEach(Moved(Config(id), states'[id].cache[i]))
      BY <1>2, <2>11, <3>1 DEF IInv, ReplayInv
    <3> QED BY <1>1, <2>2, <2>3, <2>10, <3>2 DEF IInv, ReplayInv, RouteFree, Config, Parent
  <2> QED BY <2>10, <2>12, <2>13, <2>14 DEF IInv
<1> QED BY <1>4, <1>5

\* The arena may grow under a sound buffer.
LEMMA SoundGrows ==
    ASSUME NEW entries, NEW bound, NEW arena, NEW call, Sound(entries, bound, arena, call),
           NEW bigger, Len(arena) \in Nat, Len(bigger) \in Nat, Len(arena) <= Len(bigger),
           \A n \in 1..Len(arena) : bigger[n] = arena[n]
    PROVE  Sound(entries, bound, bigger, call)
<1>1. \A n \in 1..Len(arena) : n \in 1..Len(bigger)
  OBVIOUS
<1>2. \A e \in entries :
        /\ e.node \in 1..Len(arena) /\ e.depth = arena[e.node].depth /\ e.order < bound
        /\ arena[e.node].config \notin call.goals
        /\ \E child \in 1..Len(arena) : arena[child].parent = e.node
  BY DEF Sound
<1>3. \A e \in entries :
        /\ e.node \in 1..Len(bigger) /\ e.depth = bigger[e.node].depth /\ e.order < bound
        /\ bigger[e.node].config \notin call.goals
        /\ \E child \in 1..Len(bigger) : bigger[child].parent = e.node
  BY <1>1, <1>2
<1> QED BY <1>3 DEF Sound

\* The current node is put back in the buffer once it has a child.
LEMMA RebufferedSound ==
    ASSUME IInv, pc = "search", NEW choice \in Selections(current), choice.at # None,
           NEW move \in MoveSets, NEW config \in Configs,
           Insert(current, move, config, GScore(current) + 1),
           inserts' = IF OpenScores(Config(current), Marked(choice)) = {} \/ Capacity = 0
                      THEN inserts ELSE inserts + 1
    PROVE  /\ Sound(Rebuffered(Marked(choice)), inserts', nodes', problem)
           /\ Cardinality(Rebuffered(Marked(choice))) <= Capacity
<1> DEFINE es == Marked(choice)
           scores == OpenScores(Config(current), es)
           kept == Discard(buffer, current)
           e == [node |-> current, score |-> BestOf(scores), depth |-> Depth(current),
                 order |-> inserts]
<1>1. Types /\ GraphInv /\ current \in NodeIds /\ problem \in Problems /\ inserts \in Nat
      /\ Capacity \in Nat
  BY CallTypes DEF IInv, Types
<1>2. /\ Len(nodes) \in Nat /\ Len(nodes') = Len(nodes) + 1 /\ NodeIds' = NodeIds \cup {NewId}
      /\ \A n \in NodeIds : nodes'[n] = nodes[n]
      /\ nodes'[NewId].parent = current
      /\ NodeIds = 1..Len(nodes) /\ NodeIds' = 1..Len(nodes')
  BY <1>1, Inserted DEF NodeIds
<1>3. Sound(kept, inserts, nodes, problem) /\ Cardinality(kept) <= Capacity
  <2>1. kept \in SUBSET buffer /\ Sound(buffer, inserts, nodes, problem)
        /\ Cardinality(buffer) <= Capacity
    BY DEF Discard, IInv, BufferInv
  <2>2. Sound(kept, inserts, nodes, problem) /\ Cardinality(kept) <= Cardinality(buffer)
    <3> HIDE DEF kept
    <3> QED BY <2>1, SubsetSound
  <2>3. Cardinality(kept) \in Nat /\ Cardinality(buffer) \in Nat
    BY <2>1, <2>2, FS_CardinalityType DEF Sound
  <2> HIDE DEF kept
  <2> QED BY <2>1, <2>2, <2>3, <1>1
<1> HIDE DEF kept
<1>4. Sound(kept, inserts, nodes', problem)
  BY <1>2, <1>3, SoundGrows
<1>5. CASE scores = {}
  <2>1. Rebuffered(Marked(choice)) = kept /\ inserts' = inserts
    BY <1>5 DEF Rebuffered, kept
  <2> QED BY <2>1, <1>3, <1>4
<1>6. CASE scores # {}
  <2>1. /\ Config(current) \in Configs /\ choice.cache \in Seq(MoveSets)
        /\ Marked(choice).cache = choice.cache
    BY <1>1, NodeTypes, ChoiceType, MarkedType DEF GraphInv
  <2>2. BestOf(scores) \in Int
    <3>1. scores \in SUBSET Int /\ IsFiniteSet(scores)
      BY <1>1, <2>1, OpenScoresType
    <3> HIDE DEF scores
    <3> QED BY <3>1, <1>6, BestOfType
  <2>3. /\ Rebuffered(Marked(choice)) = Kept(kept, e)
        /\ inserts' = IF Capacity = 0 THEN inserts ELSE inserts + 1
    BY <1>6 DEF Rebuffered, kept
  <2> HIDE DEF scores
  <2>4. /\ e \in Entry /\ e.order = inserts /\ e.node = current /\ e.depth = Depth(current)
    BY <1>1, <2>2, NodeTypes DEF Entry, GraphInv
  <2>5. /\ e.node \in 1..Len(nodes') /\ e.depth = nodes'[e.node].depth
        /\ nodes'[e.node].config \notin problem.goals
    BY <1>1, <1>2, <2>4 DEF Depth, IInv, WalkInv, IsGoal, Config
  <2>6. \E child \in 1..Len(nodes') : nodes'[child].parent = e.node
    BY <1>2, <2>4
  <2> HIDE DEF e
  <2>7. /\ Sound(Kept(kept, e), IF Capacity = 0 THEN inserts ELSE inserts + 1, nodes', problem)
        /\ Cardinality(Kept(kept, e)) <= Capacity
    BY <1>1, <1>3, <1>4, <2>4, <2>5, <2>6, KeptSound
  <2> QED BY <2>3, <2>7
<1> QED BY <1>5, <1>6

\* A step down stays within the depth limit: the entropy of a node at the limit
\* is its maximum, and sends the walk back.
LEMMA StepWithinDepth ==
    ASSUME Types, Selecting, problem.maxDepth # NoLimit
    PROVE  Depth(current) + 1 <= MaxOf(1, problem.maxDepth)
<1>1. /\ Depth(current) \in Nat /\ problem.maxDepth \in Nat /\ problem.eMax \in Nat
      /\ Depth(Root) = 0
  BY NodeTypes, CallTypes DEF Types, GraphInv, NoLimit, TreeGrowsForward, Root
<1>2. CASE current = Root
  BY <1>1, <1>2 DEF MaxOf
<1>3. CASE current # Root
  <2>1. ~ Reached(Depth(current), problem.maxDepth)
    BY <1>1, <1>3 DEF Selecting, Overheated, Entropy
  <2>2. Depth(current) < problem.maxDepth
    BY <1>1, <2>1 DEF Reached
  <2> QED BY <1>1, <2>2 DEF MaxOf
<1> QED BY <1>2, <1>3

\* The move makes a new node.
LEMMA DescendKeepsInv ==
    ASSUME IInv, pc = "search", NEW choice \in Selections(current), Descend(choice)
    PROVE  IInv'
<1> DEFINE config == NextConfig(choice)
           move == choice.cache[choice.at]
           depth == Depth(current) + 1
           entries == Rebuffered(Marked(choice))
<1>1. /\ Selecting /\ choice.at # None /\ Insert(current, move, config, GScore(current) + 1)
      /\ Iterate
      /\ states' = Append([states EXCEPT ![current] = Marked(choice)], NewState)
      /\ expanded' = expanded + 1 /\ deepest' = MaxOf(deepest, depth)
      /\ inserts' = IF OpenScores(Config(current), Marked(choice)) = {} \/ Capacity = 0
                    THEN inserts ELSE inserts + 1
  BY DEF Descend, NextG
<1>2. IF config \in problem.goals THEN RecordGoal(NewId, depth, entries)
      ELSE /\ IF Reached(depth, best) THEN ResumeFrom(Discard(entries, NewId), best)
              ELSE current' = NewId /\ buffer' = entries
           /\ UNCHANGED <<pc, found, best, result>>
  BY DEF Descend
<1>3. /\ Marked(choice) \in EntropyState /\ Marked(choice).cache = choice.cache
      /\ Marked(choice).cursor <= Len(choice.cache)
      /\ config \in Configs /\ move \in MoveSets /\ choice.at \in 1..Len(choice.cache)
      /\ config = Moved(Config(current), move)
  BY <1>1, MarkedType, ChoiceType DEF IInv, NextConfig
<1>4. /\ Types /\ GraphInv /\ current \in NodeIds /\ current # NewId
      /\ Depth(current) \in Nat /\ depth \in Nat \ {0}
      /\ inserts \in Nat /\ expanded \in Nat /\ deepest \in Nat /\ Capacity \in Nat
      /\ ~ IsGoal(Root) /\ ~ IsGoal(current) /\ \A n \in NodeIds \ {Root} : ~ IsGoal(Parent(n))
  <2>1. Types /\ GraphInv /\ GraphTypeOK /\ current \in NodeIds
        /\ inserts \in Nat /\ expanded \in Nat /\ deepest \in Nat /\ Capacity \in Nat
    BY CallTypes DEF IInv, Types, GraphInv
  <2>2. ~ IsGoal(Root) /\ ~ IsGoal(current) /\ \A n \in NodeIds \ {Root} : ~ IsGoal(Parent(n))
    BY DEF IInv, WalkInv
  <2>3. Depth(current) \in Nat
    BY <2>1, NodeTypes
  <2>4. current # NewId
    BY <2>1 DEF NodeIds, NewId, GraphTypeOK
  <2> QED BY <2>1, <2>2, <2>3, <2>4
<1> HIDE DEF config, move
<1>5. /\ GraphInv'
      /\ Len(nodes) \in Nat /\ NewId = Len(nodes) + 1 /\ Len(nodes') = NewId
      /\ NodeIds' = NodeIds \cup {NewId} /\ NewId \notin NodeIds
      /\ NewId # Root /\ Root \in NodeIds
      /\ \A n \in NodeIds : nodes'[n] = nodes[n]
      /\ nodes'[NewId].config = config /\ nodes'[NewId].parent = current
      /\ nodes'[NewId].move = move /\ nodes'[NewId].depth = depth
  BY <1>1, <1>3, <1>4, Inserted
<1>6. /\ iterations' < 2 * HardLimit /\ iterations' \in Nat
      /\ iterations' <= MaxOf(1, 2 * HardLimit) /\ HardLimit' = HardLimit /\ HardLimit \in Nat
      /\ expanded < HardLimit
      /\ problem' = problem /\ problem \in Problems /\ route' = << >>
  BY <1>1, IterateTypes
<1>7. \A n \in NodeIds' \ {Root} : nodes'[nodes'[n].parent].config \notin problem.goals
  <2>1. ASSUME NEW n \in NodeIds \ {Root} PROVE nodes'[nodes'[n].parent].config \notin problem.goals
    <3>1. Parent(n) \in 1..(n - 1)
      BY <1>4 DEF GraphInv, TreeGrowsForward, Root
    <3>2. Parent(n) \in NodeIds
      BY <3>1, <1>5 DEF NodeIds
    <3> QED BY <3>2, <1>4, <1>5 DEF IsGoal, Config, Parent
  <2>2. nodes'[nodes'[NewId].parent].config \notin problem.goals
    BY <1>4, <1>5 DEF IsGoal, Config
  <2> QED BY <2>1, <2>2, <1>5
<1>8. Grown
  BY <1>4, <1>5, <1>6, <1>7 DEF Grown, IsGoal, Config
<1>9. Sound(entries, inserts', nodes', problem) /\ Cardinality(entries) <= Capacity
  BY <1>1, <1>3, RebufferedSound
<1>10. GoalNodes' = IF config \in problem.goals THEN GoalNodes \cup {NewId} ELSE GoalNodes
  BY <1>5, <1>6 DEF GoalNodes, IsGoal, Config
<1> HIDE DEF entries, depth
<1>11. /\ pc' \in {"search", "done"} /\ best' \in Nat \cup {NoLimit}
       /\ current' \in NodeIds'
       /\ found' \in Seq(Nat) /\ Found' \subseteq NodeIds'
       /\ result' \in NodeIds' \cup {None}
       /\ BufferInv' /\ WalkInv' /\ GoalInv'
       /\ (result # None => IsGoal(result))'
  <2>1. CASE config \in problem.goals
    <3>1. RecordGoal(NewId, depth, entries) /\ GoalNodes' = GoalNodes \cup {NewId}
      BY <1>2, <1>10, <2>1
    <3>2. NewId \in NodeIds' /\ depth = nodes'[NewId].depth
      BY <1>5
    <3> QED BY <3>1, <3>2, <1>4, <1>6, <1>8, <1>9, RecordKeepsInv
  <2>2. CASE config \notin problem.goals
    <3>1. UNCHANGED <<pc, found, best, result>>
      BY <1>2, <2>2
    <3>2. /\ best' \in Nat \cup {NoLimit} /\ best' # 0 /\ result' \in NodeIds' \cup {None}
          /\ found' \in Seq(Nat) /\ Found' = Found /\ Found' \subseteq NodeIds' /\ pc' = "search"
      BY <3>1, <1>5 DEF IInv, Types, WalkInv, Found
    <3>3. (result # None => IsGoal(result))'
      BY <3>1, <1>5, <1>6 DEF IInv, Types, ReplayInv, IsGoal, Config
    <3>4. GoalInv'
      <4>1. GoalNodes' = GoalNodes /\ \A n \in GoalNodes : Depth(n)' = Depth(n)
        BY <1>5, <1>10, <2>2 DEF GoalNodes, Depth
      <4> QED BY <3>1, <3>2, <4>1 DEF IInv, GoalInv
    <3>5. current' \in NodeIds' /\ BufferInv' /\ WalkInv'
      <4>1. CASE Reached(depth, best)
        <5>1. ResumeFrom(Discard(entries, NewId), best')
          BY <1>2, <2>2, <3>1, <4>1
        <5>2. /\ Sound(Discard(entries, NewId), inserts', nodes', problem)
              /\ Cardinality(Discard(entries, NewId)) <= Capacity
          <6>1. Discard(entries, NewId) \in SUBSET entries
            BY DEF Discard
          <6>2. /\ Sound(Discard(entries, NewId), inserts', nodes', problem)
                /\ Cardinality(Discard(entries, NewId)) <= Cardinality(entries)
            BY <6>1, <1>9, SubsetSound, Zenon
          <6>3. Cardinality(entries) \in Nat /\ Cardinality(Discard(entries, NewId)) \in Nat
            BY <1>9, <6>2, FS_CardinalityType DEF Sound
          <6> QED BY <6>2, <6>3, <1>4, <1>9
        <5> QED BY <5>1, <5>2, <1>6, <1>8, <3>2, ResumeKeepsWalk
      <4>2. CASE ~ Reached(depth, best)
        <5>1. current' = NewId /\ buffer' = entries
          BY <1>2, <2>2, <4>2
        <5>2. BufferInv'
          BY <5>1, <1>6, <1>9 DEF BufferInv, Capacity
        <5>3. WalkInv'
          BY <5>1, <2>2, <3>1, <3>2, <4>2, <1>5, <1>6, <1>8
             DEF WalkInv, Grown, IsGoal, Config, Parent, Depth
        <5> QED BY <5>1, <5>2, <5>3, <1>5
      <4> QED BY <4>1, <4>2
    <3> QED BY <3>1, <3>2, <3>3, <3>4, <3>5
  <2> QED BY <2>1, <2>2
<1>12. /\ states' \in Seq(EntropyState) /\ Len(states') = Len(nodes')
       /\ states'[current] = Marked(choice) /\ states'[NewId] = NewState
       /\ \A n \in NodeIds \ {current} : states'[n] = states[n]
       /\ \A n \in NodeIds' : states'[n].cursor <= Len(states'[n].cache)
  <2> DEFINE new == [states EXCEPT ![current] = Marked(choice)]
  <2>1. /\ new \in Seq(EntropyState) /\ Len(new) = Len(nodes)
        /\ \A id \in NodeIds : new[id].cursor <= Len(new[id].cache)
        /\ new[current] = Marked(choice) /\ \A id \in NodeIds \ {current} : new[id] = states[id]
    BY <1>3, <1>4, StateSet
  <2>2. states' = Append(new, NewState)
    BY <1>1
  <2>3. NewState \in EntropyState /\ NewState.cursor <= Len(NewState.cache)
    BY DEF NewState, EntropyState
  <2> HIDE DEF new
  <2>4. /\ states' \in Seq(EntropyState) /\ Len(states') = Len(nodes) + 1
        /\ states'[NewId] = NewState /\ \A n \in NodeIds : states'[n] = new[n]
    BY <2>1, <2>2, <2>3, <1>5 DEF NodeIds
  <2> QED BY <2>1, <2>3, <2>4, <1>4, <1>5
<1>13. expanded' \in Nat /\ deepest' \in Nat /\ inserts' \in Nat /\ depth <= deepest' /\ deepest <= deepest'
  BY <1>1, <1>4 DEF MaxOf, depth
<1>14. Types'
  BY <1>5, <1>6, <1>11, <1>12, <1>13 DEF Types
<1>15. BudgetInv'
  <2>1. Len(nodes') = expanded' + 1 /\ expanded' <= HardLimit
    BY <1>1, <1>4, <1>5, <1>6 DEF IInv, BudgetInv
  <2>2. problem.maxDepth # NoLimit => depth <= MaxOf(1, problem.maxDepth)
    BY <1>1, <1>4, StepWithinDepth DEF depth
  <2>3. \A n \in NodeIds : Depth(n) \in Nat /\ Depth(n) <= deepest /\ nodes'[n].depth = Depth(n)
          /\ (problem.maxDepth # NoLimit => Depth(n) <= MaxOf(1, problem.maxDepth))
    BY <1>4, <1>5, NodeTypes DEF IInv, BudgetInv, GraphInv, Depth
  <2>4. \A n \in NodeIds : nodes'[n].depth <= deepest'
    BY <2>3, <1>4, <1>13
  <2>5. \A n \in NodeIds' : nodes'[n].depth <= deepest'
          /\ (problem.maxDepth # NoLimit => nodes'[n].depth <= MaxOf(1, problem.maxDepth))
    BY <2>2, <2>3, <2>4, <1>5, <1>13
  <2> QED BY <2>1, <2>5, <1>6 DEF BudgetInv, Depth
<1>16. ReplayInv'
  <2>1. \A i \in 1..Len(choice.cache) : OneAtomEach(Moved(Config(current), choice.cache[i]))
    BY ChoiceApart DEF IInv
  <2>2. OneAtomEach(config)
    BY <2>1, <1>3 DEF move
  <2>3. \A n \in NodeIds' : \A i \in 1..Len(states'[n].cache) :
            OneAtomEach(Moved(nodes'[n].config, states'[n].cache[i]))
    <3>1. \A n \in NodeIds \ {current} : \A i \in 1..Len(states'[n].cache) :
              OneAtomEach(Moved(nodes'[n].config, states'[n].cache[i]))
      BY <1>5, <1>12 DEF IInv, ReplayInv, Config
    <3>2. \A i \in 1..Len(states'[current].cache) :
              OneAtomEach(Moved(nodes'[current].config, states'[current].cache[i]))
      BY <2>1, <1>3, <1>4, <1>5, <1>12 DEF Config
    <3>3. Len(states'[NewId].cache) = 0
      BY <1>12 DEF NewState
    <3> QED BY <3>1, <3>2, <3>3, <1>5
  <2>4. \A n \in NodeIds' : OneAtomEach(nodes'[n].config)
    BY <2>2, <1>5 DEF IInv, ReplayInv, Config
  <2>5. \A n \in NodeIds' \ {Root} : nodes'[n].config = Moved(nodes'[nodes'[n].parent].config, nodes'[n].move)
    <3>1. ASSUME NEW n \in NodeIds \ {Root}
          PROVE  nodes'[n].config = Moved(nodes'[nodes'[n].parent].config, nodes'[n].move)
      <4>1. Parent(n) \in 1..(n - 1)
        BY <1>4 DEF GraphInv, TreeGrowsForward, Root
      <4>2. Parent(n) \in NodeIds
        BY <4>1, <1>5 DEF NodeIds
      <4>3. Config(n) = Moved(Config(Parent(n)), nodes[n].move)
        BY DEF IInv, ReplayInv
      <4> QED BY <4>2, <4>3, <1>5 DEF Config, Parent
    <3>2. nodes'[NewId].config = Moved(nodes'[nodes'[NewId].parent].config, nodes'[NewId].move)
      BY <1>3, <1>4, <1>5 DEF Config
    <3> QED BY <3>1, <3>2, <1>5
  <2> QED BY <2>3, <2>4, <2>5, <1>6, <1>11 DEF ReplayInv, RouteFree, Config, Parent
<1> QED BY <1>11, <1>14, <1>15, <1>16 DEF IInv

----------------------------------------------------------------------------
(***************************************************************************)
(* The fallback.                                                           *)
(***************************************************************************)

\* A shortest route is a sequence of lanes, connected from where the atom is and
\* with no lane into an occupied location (find_path_occupied).
LEMMA RoutesType ==
    ASSUME NEW from, NEW to, NEW occupied, NEW w \in Routes(from, to, occupied)
    PROVE  /\ w \in Seq(Lanes) /\ w # << >> /\ w[1][1] = from
           /\ \A k \in 1..Len(w) : k # 1 => w[k][1] = w[k - 1][2]
           /\ \A k \in 1..Len(w) : w[k][2] \notin occupied
<1> DEFINE lengths == {n \in 1..Cardinality(Locations) : RoutesOf(from, to, occupied, n) # {}}
           least == CHOOSE n \in lengths : \A m \in lengths : n <= m
<1>1. lengths # {} /\ w \in RoutesOf(from, to, occupied, least)
  <2> HIDE DEF RoutesOf
  <2> QED BY DEF Routes
<1>2. least \in lengths
  <2>1. lengths \in SUBSET Nat
    OBVIOUS
  <2> HIDE DEF lengths
  <2> QED BY <1>1, <2>1, LeastIsIn
<1> HIDE DEF least
<1>3. least \in Nat \ {0}
  <2>1. Cardinality(Locations) \in Nat
    BY EntropyAssumption, FS_CardinalityType
  <2>2. least \in 1..Cardinality(Locations)
    BY <1>2
  <2> QED BY <2>1, <2>2
<1>4. /\ w \in [1..least -> Lanes]
      /\ \A k \in 1..least : w[k][1] = (IF k = 1 THEN from ELSE w[k - 1][2]) /\ w[k][2] \notin occupied
  BY <1>1 DEF RoutesOf, Walks
<1>5. w \in Seq(Lanes) /\ Len(w) = least /\ 1 \in 1..least
  BY <1>3, <1>4
<1> QED BY <1>3, <1>4, <1>5

\* The next atom is routed.
LEMMA RouteKeepsInv ==
    ASSUME IInv, pc = "fallback", RouteNext
    PROVE  IInv'
<1>1. Types /\ BufferInv /\ ReplayInv /\ GraphInv /\ best = NoLimit /\ route = << >>
  BY DEF IInv, Types, GoalInv, RouteNext
<1>2. /\ GraphInv' /\ NodeIds' = NodeIds
      /\ UNCHANGED <<problem, nodes, seen, states, current, iterations, deepest, best, buffer,
                     inserts, expanded, found, result>>
  BY <1>1, SameGraph DEF RouteNext, loopVars
<1>3. pc' \in {"fallback", "done"} /\ route' \in Seq(Lanes) /\ RouteFree'
  <2> DEFINE q == Head(waiting)
             config == Config(current)
             occupied == Occupied(config, q)
             routes == Routes(config[q], problem.target[q], occupied)
  <2>1. \/ pc' = "done" /\ route' = route
        \/ pc' = pc /\ route' \in routes
    BY DEF RouteNext
  <2>2. CASE pc' = "done" /\ route' = route
    BY <2>2, <1>1 DEF RouteFree
  <2>3. CASE pc' = pc /\ route' \in routes
    <3>1. /\ route' \in Seq(Lanes) /\ route' # << >> /\ route'[1][1] = config[q]
          /\ \A k \in 1..Len(route') : k # 1 => route'[k][1] = route'[k - 1][2]
          /\ \A k \in 1..Len(route') : route'[k][2] \notin occupied
      <4> HIDE DEF config, occupied, q
      <4> QED BY <2>3, RoutesType
    <3>2. \A r \in Qubits : config[r] # config[q] => config[r] \in occupied
      BY DEF Occupied
    <3>3. Config(current)' = config
      BY <1>2 DEF Config
    <3> HIDE DEF config, occupied, q
    <3> QED BY <2>3, <3>1, <3>2, <3>3 DEF RouteFree
  <2> QED BY <2>1, <2>2, <2>3
<1>4. Types'
  BY <1>1, <1>2, <1>3 DEF Types, Found
<1>5. BufferInv'
  BY <1>1, <1>2 DEF BufferInv, Capacity
<1>6. WalkInv' /\ BudgetInv' /\ GoalInv'
  BY <1>1, <1>2, <1>3 DEF WalkInv, BudgetInv, GoalInv
<1>7. ReplayInv'
  BY <1>1, <1>2, <1>3 DEF ReplayInv, IsGoal, Config, Parent
<1> QED BY <1>4, <1>5, <1>6, <1>7 DEF IInv

\* What one lane of a free route makes of the placement: the atoms stay apart,
\* and the rest of the route is free.
LEMMA LaneTaken ==
    ASSUME NEW from \in Configs, OneAtomEach(from), NEW w \in Seq(Lanes), w # << >>,
           \A k \in 1..Len(w) : k # 1 => w[k][1] = w[k - 1][2],
           \A k \in 1..Len(w), q \in Qubits : from[q] # w[1][1] => from[q] # w[k][2]
    PROVE  LET to == Moved(from, Single(Head(w)))
           IN  /\ OneAtomEach(to)
               /\ Tail(w) # << >> =>
                    /\ \A k \in 1..Len(Tail(w)) : k # 1 => Tail(w)[k][1] = Tail(w)[k - 1][2]
                    /\ \A k \in 1..Len(Tail(w)), q \in Qubits :
                          to[q] # Tail(w)[1][1] => to[q] # Tail(w)[k][2]
<1> DEFINE lane == Head(w)
           to == Moved(from, Single(lane))
<1>1. lane = w[1] /\ lane \in Lanes /\ 1 \in 1..Len(w) /\ Len(w) \in Nat
  OBVIOUS
<1>2. LanesOf[Single(lane)] = {lane}
  BY <1>1, SingleType
<1> HIDE DEF lane
<1>3. \A q \in Qubits : to[q] = IF lane[1] = from[q] THEN lane[2] ELSE from[q]
  <2>1. \A q \in Qubits : to[q] = IF \E l \in {lane} : l[1] = from[q]
                                  THEN (CHOOSE l \in {lane} : l[1] = from[q])[2] ELSE from[q]
    BY <1>2 DEF Moved
  <2>2. ASSUME NEW q \in Qubits, lane[1] = from[q]
        PROVE  (CHOOSE l \in {lane} : l[1] = from[q]) = lane
    BY <2>2
  <2> QED BY <2>1, <2>2
<1> HIDE DEF to
<1>4. OneAtomEach(to)
  <2>1. ASSUME NEW q \in Qubits, NEW r \in Qubits, q # r PROVE to[q] # to[r]
    <3>1. from[q] # from[r]
      BY <2>1 DEF OneAtomEach
    <3>2. from[q] # lane[1] => from[q] # lane[2]
      BY <1>1
    <3>3. from[r] # lane[1] => from[r] # lane[2]
      BY <1>1
    <3> QED BY <3>1, <3>2, <3>3, <1>3
  <2> QED BY <2>1 DEF OneAtomEach
<1>5. ASSUME Tail(w) # << >>
      PROVE  /\ \A k \in 1..Len(Tail(w)) : k # 1 => Tail(w)[k][1] = Tail(w)[k - 1][2]
             /\ \A k \in 1..Len(Tail(w)), q \in Qubits :
                   to[q] # Tail(w)[1][1] => to[q] # Tail(w)[k][2]
  <2>1. /\ Len(Tail(w)) = Len(w) - 1 /\ Len(Tail(w)) >= 1
        /\ \A k \in 1..Len(Tail(w)) : Tail(w)[k] = w[k + 1] /\ k + 1 \in 1..Len(w) /\ k + 1 # 1
        /\ 1 \in 1..Len(Tail(w))
    BY <1>1, <1>5
  <2>2. Tail(w)[1] = w[2] /\ w[2][1] = w[1][2] /\ 2 \in 1..Len(w)
    <3>1. 2 \in 1..Len(w) /\ 2 # 1 /\ 2 - 1 = 1 /\ 1 + 1 = 2
      BY <2>1, <1>1
    <3>2. w[2][1] = w[2 - 1][2]
      BY <3>1
    <3> QED BY <2>1, <3>1, <3>2
  <2>3. ASSUME NEW k \in 1..Len(Tail(w)), k # 1
        PROVE  Tail(w)[k][1] = Tail(w)[k - 1][2]
    <3>1. k - 1 \in 1..Len(Tail(w)) /\ (k - 1) + 1 = k /\ (k + 1) - 1 = k
      BY <2>1, <2>3, <1>1
    <3>2. Tail(w)[k - 1] = w[k] /\ Tail(w)[k] = w[k + 1] /\ k + 1 \in 1..Len(w)
      BY <2>1, <3>1
    <3>3. w[k + 1][1] = w[(k + 1) - 1][2]
      BY <2>1, <3>2
    <3> QED BY <3>1, <3>2, <3>3
  <2>4. ASSUME NEW k \in 1..Len(Tail(w)), NEW q \in Qubits, to[q] # Tail(w)[1][1]
        PROVE  to[q] # Tail(w)[k][2]
    <3>1. to[q] # lane[2]
      BY <2>2, <2>4, <1>1
    <3>2. from[q] # lane[1] /\ to[q] = from[q]
      BY <3>1, <1>3
    <3>3. from[q] # w[k + 1][2]
      BY <3>2, <2>1, <1>1
    <3> QED BY <3>2, <3>3, <2>1
  <2> QED BY <2>3, <2>4
<1> QED BY <1>4, <1>5 DEF to, lane

\* The atom takes a lane of its route.
LEMMA LaneKeepsInv ==
    ASSUME IInv, pc = "fallback", TakeLane
    PROVE  IInv'
<1> DEFINE move == Single(Head(route))
           config == Moved(Config(current), move)
<1>1. /\ Types /\ BufferInv /\ ReplayInv /\ GraphInv /\ GraphTypeOK /\ best = NoLimit
      /\ route # << >> /\ route \in Seq(Lanes) /\ current \in NodeIds
      /\ problem \in Problems /\ expanded \in Nat
  BY DEF IInv, Types, GoalInv, TakeLane, GraphInv
<1>2. Config(current) \in Configs /\ OneAtomEach(Config(current)) /\ move \in MoveSets /\ config \in Configs
  <2>1. Head(route) \in Lanes
    BY <1>1
  <2>2. Config(current) \in Configs /\ move \in MoveSets
    BY <1>1, <2>1, NodeTypes, SingleType
  <2> QED BY <1>1, <2>2, MovedType DEF ReplayInv
<1>3. /\ OneAtomEach(config) /\ Tail(route) \in Seq(Lanes)
      /\ Tail(route) # << >> =>
           /\ \A k \in 1..Len(Tail(route)) : k # 1 => Tail(route)[k][1] = Tail(route)[k - 1][2]
           /\ \A k \in 1..Len(Tail(route)), q \in Qubits :
                 config[q] # Tail(route)[1][1] => config[q] # Tail(route)[k][2]
  <2>1. /\ \A k \in 1..Len(route) : k # 1 => route[k][1] = route[k - 1][2]
        /\ \A k \in 1..Len(route), q \in Qubits :
              Config(current)[q] # route[1][1] => Config(current)[q] # route[k][2]
    BY <1>1 DEF ReplayInv, RouteFree
  <2> QED BY <2>1, <1>1, <1>2, LaneTaken
<1>4. /\ \/ /\ Rediscovered(config, NextG) /\ current' = seen[config]
            /\ UNCHANGED <<nodes, seen, states>>
         \/ /\ Insert(current, move, config, GScore(current) + 1)
            /\ current' = NewId /\ states' = Append(states, NewState)
      /\ expanded' = expanded + 1 /\ route' = Tail(route)
      /\ UNCHANGED <<problem, pc, iterations, deepest, found, best, buffer, inserts, waiting, result>>
  BY DEF TakeLane, NextG
<1> HIDE DEF config, move
<1>5. nodes'[current'].config = config => RouteFree'
  BY <1>3, <1>4 DEF RouteFree, Config
<1>6. pc' = "fallback" /\ best' = NoLimit /\ problem' = problem
  BY <1>1, <1>4
<1>7. WalkInv' /\ BudgetInv' /\ GoalInv'
  BY <1>6 DEF WalkInv, BudgetInv, GoalInv
<1>8. CASE Rediscovered(config, NextG) /\ current' = seen[config] /\ UNCHANGED <<nodes, seen, states>>
  <2>1. current' \in NodeIds /\ nodes'[current'].config = config
    BY <1>8, <1>1, <1>2 DEF GraphInv, GraphTypeOK, TableIsCheapest, Rediscovered, None, NodeIds, Config
  <2>2. GraphInv' /\ NodeIds' = NodeIds
    BY <1>1, <1>8, SameGraph
  <2>3. expanded' \in Nat /\ route' \in Seq(Lanes)
    BY <1>1, <1>3, <1>4
  <2>4. Types'
    BY <1>1, <1>4, <1>6, <1>8, <2>1, <2>2, <2>3 DEF Types, Found
  <2>5. BufferInv'
    BY <1>1, <1>4, <1>8 DEF BufferInv, Capacity
  <2>6. ReplayInv'
    BY <1>1, <1>4, <1>5, <1>8, <2>1, <2>2 DEF ReplayInv, IsGoal, Config, Parent
  <2> QED BY <1>7, <2>4, <2>5, <2>6 DEF IInv
<1>9. CASE /\ Insert(current, move, config, GScore(current) + 1)
           /\ current' = NewId /\ states' = Append(states, NewState)
  <2>1. /\ GraphInv'
        /\ Len(nodes) \in Nat /\ NewId = Len(nodes) + 1 /\ Len(nodes') = NewId
        /\ NodeIds' = NodeIds \cup {NewId} /\ NewId \notin NodeIds
        /\ NewId # Root /\ Root \in NodeIds
        /\ \A n \in NodeIds : nodes'[n] = nodes[n]
        /\ nodes'[NewId].config = config /\ nodes'[NewId].parent = current
        /\ nodes'[NewId].move = move
    BY <1>1, <1>2, <1>9, Inserted
  <2>2. /\ states' \in Seq(EntropyState) /\ Len(states') = Len(nodes')
        /\ states'[NewId] = NewState /\ \A n \in NodeIds : states'[n] = states[n]
        /\ \A n \in NodeIds' : states'[n].cursor <= Len(states'[n].cache)
    <3>1. NewState \in EntropyState /\ NewState.cursor <= Len(NewState.cache)
      BY DEF NewState, EntropyState
    <3>2. /\ states \in Seq(EntropyState) /\ Len(states) = Len(nodes) /\ NodeIds = 1..Len(nodes)
          /\ \A n \in NodeIds : states[n].cursor <= Len(states[n].cache)
      BY <1>1 DEF Types, NodeIds
    <3>3. /\ states' \in Seq(EntropyState) /\ Len(states') = Len(nodes) + 1
          /\ states'[NewId] = NewState /\ \A n \in NodeIds : states'[n] = states[n]
      BY <3>1, <3>2, <1>9, <2>1
    <3> QED BY <3>1, <3>2, <3>3, <2>1
  <2>3. expanded' \in Nat /\ route' \in Seq(Lanes) /\ current' \in NodeIds'
    BY <1>1, <1>3, <1>4, <1>9, <2>1
  <2>4. Types'
    BY <1>1, <1>4, <1>6, <2>1, <2>2, <2>3 DEF Types, Found
  <2>5. BufferInv'
    <3>1. Sound(buffer, inserts, nodes', problem)
      BY <1>1, <2>1, SoundGrows DEF BufferInv, NodeIds
    <3> QED BY <3>1, <1>1, <1>4 DEF BufferInv, Capacity
  <2>6. \A n \in NodeIds' : OneAtomEach(nodes'[n].config)
    BY <1>1, <1>3, <2>1 DEF ReplayInv, Config
  <2>7. \A n \in NodeIds' : \A i \in 1..Len(states'[n].cache) :
            OneAtomEach(Moved(nodes'[n].config, states'[n].cache[i]))
    <3>1. \A n \in NodeIds : \A i \in 1..Len(states'[n].cache) :
              OneAtomEach(Moved(nodes'[n].config, states'[n].cache[i]))
      BY <1>1, <2>1, <2>2 DEF ReplayInv, Config
    <3>2. Len(states'[NewId].cache) = 0
      BY <2>2 DEF NewState
    <3> QED BY <3>1, <3>2, <2>1
  <2>8. \A n \in NodeIds' \ {Root} : nodes'[n].config = Moved(nodes'[nodes'[n].parent].config, nodes'[n].move)
    <3>1. ASSUME NEW n \in NodeIds \ {Root}
          PROVE  nodes'[n].config = Moved(nodes'[nodes'[n].parent].config, nodes'[n].move)
      <4>1. Parent(n) \in 1..(n - 1)
        BY <1>1 DEF GraphInv, TreeGrowsForward, Root
      <4>2. Parent(n) \in NodeIds
        BY <4>1, <2>1 DEF NodeIds
      <4>3. Config(n) = Moved(Config(Parent(n)), nodes[n].move)
        BY <1>1 DEF ReplayInv
      <4> QED BY <4>2, <4>3, <2>1 DEF Config, Parent
    <3>2. nodes'[NewId].config = Moved(nodes'[nodes'[NewId].parent].config, nodes'[NewId].move)
      BY <1>1, <2>1 DEF config, Config
    <3> QED BY <3>1, <3>2, <2>1
  <2>9. (result # None => IsGoal(result))'
    BY <1>1, <1>4, <2>1 DEF Types, ReplayInv, IsGoal, Config
  <2>10. RouteFree'
    BY <1>5, <1>9, <2>1
  <2>11. ReplayInv'
    BY <2>6, <2>7, <2>8, <2>9, <2>10 DEF ReplayInv, Config, Parent
  <2> QED BY <1>7, <2>4, <2>5, <2>11 DEF IInv
<1> QED BY <1>4, <1>8, <1>9

\* Every atom was routed.
LEMMA EndKeepsInv ==
    ASSUME IInv, pc = "fallback", FallbackEnds
    PROVE  IInv'
<1>1. /\ Types /\ BufferInv /\ ReplayInv /\ GraphInv /\ best = NoLimit /\ route = << >>
      /\ current \in NodeIds
  BY DEF IInv, Types, GoalInv, FallbackEnds
<1>2. /\ GraphInv' /\ NodeIds' = NodeIds
      /\ UNCHANGED <<problem, nodes, seen, states, current, iterations, deepest, best, buffer,
                     inserts, expanded, route>>
  BY <1>1, SameGraph DEF FallbackEnds, loopVars, fallbackVars
<1>3. /\ pc' = "done"
      /\ \/ IsGoal(current) /\ found' = <<current>> /\ result' = current
         \/ UNCHANGED <<found, result>>
  BY DEF FallbackEnds
<1>4. found' \in Seq(Nat) /\ Found' \subseteq NodeIds /\ result' \in NodeIds \cup {None}
      /\ (result' # None => IsGoal(result'))
  <2>1. current \in Nat
    BY <1>1 DEF NodeIds
  <2>2. CASE UNCHANGED <<found, result>>
    BY <2>2, <1>1 DEF Types, ReplayInv, Found
  <2>3. CASE IsGoal(current) /\ found' = <<current>> /\ result' = current
    <3>1. found' \in Seq(Nat) /\ Found' = {current}
      BY <2>1, <2>3 DEF Found
    <3> QED BY <3>1, <2>3, <1>1
  <2> QED BY <1>3, <2>2, <2>3
<1>5. Types'
  BY <1>1, <1>2, <1>3, <1>4 DEF Types
<1>6. BufferInv'
  BY <1>1, <1>2 DEF BufferInv, Capacity
<1>7. WalkInv' /\ BudgetInv' /\ GoalInv'
  BY <1>1, <1>2, <1>3 DEF WalkInv, BudgetInv, GoalInv
<1>8. ReplayInv'
  BY <1>1, <1>2, <1>4 DEF ReplayInv, RouteFree, IsGoal, Config, Parent
<1> QED BY <1>5, <1>6, <1>7, <1>8 DEF IInv

----------------------------------------------------------------------------
(***************************************************************************)
(* The theorems.                                                           *)
(***************************************************************************)

\* Every iteration of the loop and every step of the fallback keeps it.
LEMMA NextKeepsInv ==
    ASSUME IInv, [Next]_vars
    PROVE  IInv'
<1>1. ASSUME UNCHANGED vars PROVE IInv'
  <2>1. GraphInv' /\ NodeIds' = NodeIds
    BY <1>1, SameGraph DEF vars, IInv, Types
  <2>2. Types'
    BY <1>1, <2>1 DEF vars, loopVars, fallbackVars, IInv, Types, Found
  <2>3. BufferInv' /\ WalkInv' /\ BudgetInv'
    BY <1>1, <2>1 DEF vars, loopVars, fallbackVars, IInv, BufferInv, WalkInv, BudgetInv,
                      Capacity, HardLimit, IsGoal, Config, Parent, Depth
  <2>4. GoalInv' /\ ReplayInv'
    BY <1>1, <2>1 DEF vars, loopVars, fallbackVars, IInv, GoalInv, ReplayInv, RouteFree,
                      Found, GoalNodes, IsGoal, Config, Parent, Depth
  <2> QED BY <2>2, <2>3, <2>4 DEF IInv
<1>2. ASSUME Search PROVE IInv'
  BY <1>2, StopKeepsInv, RevertKeepsInv, BarrenKeepsInv, SeeAgainKeepsInv, DescendKeepsInv DEF Search
<1>3. ASSUME Fallback PROVE IInv'
  BY <1>3, RouteKeepsInv, LaneKeepsInv, EndKeepsInv DEF Fallback
<1> QED BY <1>1, <1>2, <1>3 DEF Next

\* The invariant of the whole call.
THEOREM EntropyInvariant == Spec => []IInv
<1>1. IInv /\ [Next]_vars => IInv'
  BY NextKeepsInv
<1> QED BY InitInv, <1>1, PTL DEF Spec

\* Every variable of the driver keeps its type (entropy_search).
THEOREM EntropyTypeCorrect == Spec => []TypeOK
<1>1. IInv => TypeOK
  <2> SUFFICES ASSUME IInv PROVE TypeOK
    OBVIOUS
  <2>1. \A id \in NodeIds :
          /\ states[id].entropy \in Nat
          /\ states[id].cursor \in 0..Len(states[id].cache)
          /\ states[id].tried \subseteq MoveSets
    <3>1. ASSUME NEW id \in NodeIds
          PROVE  /\ states[id].entropy \in Nat /\ states[id].cursor \in Nat
                 /\ states[id].cache \in Seq(MoveSets) /\ states[id].tried \subseteq MoveSets
                 /\ states[id].cursor <= Len(states[id].cache)
      <4>1. states[id] \in EntropyState
        BY EntropyType DEF IInv
      <4> QED BY <4>1 DEF EntropyState, IInv, Types
    <3>2. \A id \in NodeIds : Len(states[id].cache) \in Nat
      BY <3>1
    <3> QED BY <3>1, <3>2
  <2>2. found \in Seq(NodeIds)
    <3>1. found \in Seq(Nat) /\ \A i \in 1..Len(found) : found[i] \in NodeIds
      BY DEF IInv, Types, Found
    <3> QED BY <3>1
  <2>3. buffer \subseteq Entry
    BY DEF IInv, BufferInv, Sound
  <2> QED BY <2>1, <2>2, <2>3 DEF IInv, Types, GraphInv, TypeOK
<1> QED BY EntropyInvariant, <1>1, PTL

\* The driver writes the search graph through `insert` alone: what a call does
\* to the arena and the table, fallback included, is a behaviour of GraphSpec.
THEOREM EntropyImplementsGraph == Spec => GraphSpec
<1>1. Init => GraphInit
  BY CallTypes DEF Init, GraphInit
<1>2. IInv /\ [Next]_vars => [GraphNext]_graphVars
  <2> SUFFICES ASSUME IInv, [Next]_vars, ~ UNCHANGED graphVars PROVE GraphNext
    BY DEF GraphNext
  <2>1. 1 \in Costs /\ current \in NodeIds /\ Types
    BY EntropyAssumption DEF IInv, Types
  <2>2. ASSUME NEW move \in MoveSets, NEW config \in Configs,
               Insert(current, move, config, NextG)
        PROVE  GraphNext
    BY <2>1, <2>2 DEF GraphNext, NextG
  <2>3. ASSUME NEW choice \in Selections(current), Descend(choice) PROVE GraphNext
    BY <2>1, <2>2, <2>3, ChoiceType DEF Descend
  <2>4. ASSUME TakeLane PROVE GraphNext
    <3>1. Insert(current, Single(Head(route)), Moved(Config(current), Single(Head(route))), NextG)
      BY <2>4 DEF TakeLane, graphVars
    <3>2. Head(route) \in Lanes
      BY <2>4 DEF TakeLane, IInv, Types
    <3>3. Config(current) \in Configs /\ Single(Head(route)) \in MoveSets
      BY <2>1, <3>2, SingleType, NodeTypes DEF Types, GraphInv
    <3> QED BY <2>2, <3>1, <3>3, MovedType
  <2>5. ASSUME NEW choice \in Selections(current), SeeAgain(choice) PROVE UNCHANGED graphVars
    BY <2>5 DEF SeeAgain, graphVars
  <2>6. ASSUME NEW choice \in Selections(current), Barren(choice) PROVE UNCHANGED graphVars
    BY <2>6 DEF Barren, graphVars
  <2>7. StopAtBudget \/ Revert \/ RouteNext \/ FallbackEnds \/ UNCHANGED vars => UNCHANGED graphVars
    BY DEF StopAtBudget, Revert, RouteNext, FallbackEnds, vars, graphVars
  <2> QED BY <2>3, <2>4, <2>5, <2>6, <2>7 DEF Next, Search, Fallback
<1> QED BY EntropyInvariant, <1>1, <1>2, PTL DEF Spec, GraphSpec

\* The loop loses no goal and returns one of the shallowest it inserted
\* (found_goals and select_best_goal_with_tiebreak).
THEOREM EntropyNoShallowerGoal == Spec => []NoShallowerGoal
<1>1. IInv => NoShallowerGoal
  BY DEF IInv, GoalInv, NoShallowerGoal
<1> QED BY EntropyInvariant, <1>1, PTL

\* What resume_buffer holds can be resumed.
THEOREM EntropyResumeSound == Spec => []ResumeSound
<1>1. IInv => ResumeSound
  BY DEF IInv, BufferInv, WalkInv, Sound, ResumeSound, NodeIds, IsGoal, Config, Depth, Parent
<1> QED BY EntropyInvariant, <1>1, PTL

\* The loop keeps to its budgets (max_expansions, the limit on its iterations
\* and max_depth), and its walk stays above the best goal.
THEOREM EntropyWithinLimits == Spec => []WithinLimits
<1>1. IInv => WithinLimits
  BY DEF IInv, BudgetInv, WalkInv, WithinLimits
<1> QED BY EntropyInvariant, <1>1, PTL

\* A solution can be executed, whether the loop or the fallback found it, and
\* no two atoms are ever at one location.
THEOREM EntropySolutionReplays == Spec => []SolutionReplays
<1>1. IInv => SolutionReplays
  BY DEF IInv, ReplayInv, SolutionReplays
<1> QED BY EntropyInvariant, <1>1, PTL
=============================================================================
