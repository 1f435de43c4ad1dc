# TLA+ specification of bloqade-lanes

bloqade-lanes compiles quantum programs for neutral-atom machines.  The atoms of
a program sit at sites; before a layer of CZ gates the compiler has to find
*parallel moves* (lanes of an acousto-optic deflector, AOD) that bring the
partners next to each other.  These modules model the part of the repository
that decides and follows those moves: the search for a sequence of moves, and
the state that tells where every atom is.  They are checked with TLC on small
instances, and the properties that matter most are proved with TLAPS for every
value of the constants.

## The system

| Component | State | Operations | Talks to |
|---|---|---|---|
| Search graph (`search/primitives/graph.rs`) | arena of nodes, transposition table | `new`, `insert`, `reconstruct_path` | written by every driver |
| Frontier search (`search/drivers/frontier.rs`) | frontier, closed set, counters | `run_search`, five frontiers | graph; generator, scorer, cost, heuristic as callbacks |
| Restarts and strategies (`search/search/restarts.rs`) | results of the restarts | `run_with_components`, `extract`, `pick_best` | one `run_search` per restart (in parallel), one more for the cascade |
| Entropy search (`search/drivers/entropy.rs`) | entropy per node, resume buffer, goals | `entropy_search`, `sequential_fallback` | graph, entropy generator |
| Receding horizon (`search/placement/receding_horizon.rs`) | committed layers, stage budget | beam and search rollouts, tiers, commits | graph, `run_search`, assignment |
| Placements (`search/placement/*`) | targets or layouts tried, expansions left | loose goal, single heuristic, no-home (return, then stage), trajectories of the receding horizon | restarts, assignment, return layouts |
| AOD grid (`search/ops/aod_grid.rs`) | clusters of rows and columns | greedy rounds, merging passes | generators |
| Entangling assignment (`search/ops/entangling.rs`, `hungarian.rs`) | cost matrix, blockers, loads of the word pairs, targets per layer | assign, rebalance, detect blockers, repair, look ahead | placements |
| Return layouts (`search/placement/nohome.rs`) | cost matrix, layouts | nearest home, layouts by bus signature | no-home placement |
| Architecture (`bytecode-core/arch`, `search/primitives/lane_index.rs`) | zones, words, buses (immutable) | `lane_endpoints`, `get_cz_partner`, `check_lanes`, `validate`, lane index | everything |
| Architecture builder (`python/.../arch/build/imperative.py`) | zones in progress, registered zones, connections, modes, radii | `add_word`, `add_*_bus`, `set_blockade_radius`, `add_zone`, `connect`, `build` | makes architectures, validated by the Rust side |
| Atom state (`bytecode-core/atom_state.rs`) | two location maps, collisions, previous lanes, counts | `add_atoms`, `apply_moves`, `get_qubit_pairing` | architecture; the Python analysis |
| Atom analysis (`python/.../analysis/atom`) | the current atom state, futures | `Fill`, `Move`, measurements | atom state |
| Bytecode (`bytecode-core/bytecode`, `python/.../bytecode`) | simulated stack, decoder frame | `validate_*`, `decode`, `encode` | architecture |
| Lowering to the stack (`python/.../rewrite/stackify.py` and its neighbours) | a block of statements | lower, clone, dead code, Dup and Swap, lift | bytecode |
| DSLs, CLI, bindings, other IR rewrites | - | I/O, conversion, rewriting | everything |

What is hard here is seldom a race: the restarts and the rollouts run in
parallel and share nothing.  It is the *sequences*.  A configuration is found
again at a lower cost while its first node is queued; a walk that turns back
resumes a node that was rejected meanwhile; a trajectory is put together from
parts of rollouts; a group of lanes is planned as one simultaneous move and
replayed lane by lane; a collision takes two atoms out of two maps, and the next
call is to find them again; two programs in two languages walk one instruction
stream and have to agree on what is on the stack.  A unit test reaches the first
steps of such a sequence and rarely the last.  `PROJECT.json` lists these hazards
at their lines with the properties that watch them.

What makes each component correct:

- *Graph*: the arena is a tree that grows forward, the table names the cheapest
  node of every configuration it holds.
- *Search loop*: what it returns is executable and costs what it says; A* is
  within its weight of the optimum, BFS within none in moves; "Unsolvable" is a
  proof; every call returns.
- *Restarts*: neither a failure nor a refinement takes a path away.
- *Entropy search*: nothing dead is resumed, no limit is exceeded, the shallowest
  goal found is the one returned, the fallback never drives two atoms into one
  place.
- *Receding horizon*: the layers lead where the answer says, and with a budget
  there is an answer.
- *Placements*: a placement that is "Solved" can be executed from where the atoms
  are and ends with every pair together, or, if it is a no-home placement's, with every
  pair that can be; one that is not says why, and truly.
- *Entangling assignment*: Hungarian's assignment is a cheapest one; every pair that
  can have a slot gets one that nobody is in the way of; what is estimated is never
  more than the way there takes.
- *Return layouts*: a layout sends every returner home to a free site of its own that
  it can reach.
- *Grids*: a shot moves what it was asked to move and nothing else; no atom that
  can move is left behind; the group passes the architecture's own check.
- *Architecture*: what the client of the builder meant by its own numbers is what
  the built architecture's lanes, partners and modes mean by global ones; the
  validator, the lookups and the index agree on which lanes there are; paths end
  at their lane's sites and lead over no other.
- *Atom state*: no two atoms share a site, no atom is in two places, none is lost
  unrecorded, and separated lanes act as the one move the search planned.
- *Atom analysis*: collided atoms stay trackable.
- *Bytecode*: validator and decoder run the same machine and fail at the same
  instruction; what decodes encodes back to itself.
- *Lowering*: the lowered, encoded and decoded kernel should do what the kernel did.
  It does, statement by statement, but for the order of addresses, see below.

## Modules

    OrderLemmas   (least elements and induction, for the proofs)

    SearchGraph  <-  RunSearch  <-  Restarts         <-.
        ^               ^    ^----  RecedingHorizon  <-  CzPlacement  <-  MCCzPlacement
        |               ^---------  MCRunSearch
        ^--------    EntropySearch  <-  MCEntropySearch

    Arch, AodPath  <-  ArchBuilder  <-  ArchGrids  <-  MCArchGrids
    AodGrid        <-------------------'

    Arch, Hungarian  <-  Entangling  <-  ReturnLayouts
                             ^               ^
                         MCEntangling  <-  MCReturnLayouts

    AtomState    <-  MCAtomState
        ^--------    AtomAnalysis  <-  MCAtomAnalysis

    Instructions <-  StackMachine
        ^--------    Bytecode  <-.  <-  MCBytecode  <-.
        ^--------    Stackify  <-  Pipeline  <-  MCPipeline
                                 <-  MCStackify  <-'

Each `X_proofs` extends `X` and TLAPS and holds nothing but lemmas and theorems,
and the invariants they need.  `RunSearch_proofs` is about `Restarts`, `RecedingHorizon`
and `CzPlacement` as well, whose proofs each take up where the last ends, and
`Entangling_proofs` extends `ReturnLayouts`, since a behaviour of either calls the Hungarian
algorithm; its theorems come in four parts, the algorithm, the repair, the slots, and the
way home.

**SearchGraph** (`graph.rs`).  `nodes` is the `Vec<NodeData>`, `seen` the
`HashMap<Config, NodeId>`.  Node ids count from 1 so that 0 can be `None`.
`Insert` is the branch of `insert` that adds a node and `Rediscovered` the test
of the branch that does not.  Costs are naturals; the code adds `f64`s, all 1.0
with `UniformCost`.  `GraphSpec` is the abstract specification: any driver that
only inserts.

**RunSearch** (`frontier.rs`).  The arguments of a call are a record `problem`.
The generator, the scorer and the cost function appear as `problem.cands`, each
configuration's candidates in the order the loop inserts them.  An iteration is
cut at every point where the code may return:

| Action | Code |
|---|---|
| `Start` / `Init` | test of the root, seeding of the frontier |
| `Exhaust`, `StopOnBudget` | the two ends of `while let` |
| `FindOnPop`, `Prune`, `Expand` | what a popped node comes to; each includes `Close` |
| `SkipKnown`, `AddChild`, `FindOnGenerate` | one candidate of the node being expanded |
| `ReceiveChildren` | `receive_children`, back to the head |

A frontier is the set of nodes it holds and a strict total order: node ids grow
in the order of insertion, so the order also gives FIFO, LIFO batches and the
stable sort (`BfsBefore`, `DfsBefore`), `PriorityEntry::cmp` and
`IdsEntry::cmp` with the reversal penalty in halves.  The two tests of the
closed set have no branch of their own: `NeverPoppedTwice` shows, and
`PoppedOnce` proves, that they never fire.  `run_search_legacy` and `astar`,
used by tests, are not modelled, and neither are observer events.

**Restarts** (`restarts.rs`).  `request` holds the arguments; `configured[seed]`
and `blockers[seed]` stand for what `make_generator` returns for a seed with the
caller's deadlock policy and with `MoveBlockers`.  The restarts share nothing
that changes and are collected by index, so they run one after the other, each a
complete behaviour of RunSearch.  `NextRun`, `ReturnBest`, `Refine` and
`ReturnRefined` are the steps between runs.  The entropy strategy has a driver of
its own and is not a strategy here.

**AtomState** (`atom_state.rs`).  `held` is the value the caller has, `result`
the copy `apply_moves` is building; the call is cut at every lane (`SkipEmpty`,
`Shift`, `Collide`, `Refuse` for the `?` on `lane_endpoints`, `Finish`).  A hash
map is a total function with a value for the absent key.  The architecture is
given by the constants `Endpoints` and `Partner`.  `from_fields`, hashing and
comparison are left out.

**AtomAnalysis** (`analysis/atom/impl.py`).  Fill and Move over AtomState:
`Settle` ends a move and puts newly collided atoms back, `Bottom` is a refused
one.  The order in which atoms of several collisions are put back matters only
once the maps disagree, and one is chosen.  Gates pass the state on; measurement
futures and post-processing are not modelled.

**EntropySearch** (`entropy.rs`).  An action is one iteration of the loop:
`Iterate` and `StopAtBudget` are the head of it, `Revert` the walk back when the
entropy has reached its maximum, `Barren`, `SeeAgain`, `Descend` and
`RecordGoal` what becomes of the candidate that is selected, `RouteNext`,
`TakeLane` and `FallbackEnds` the sequential fallback.  `generate_candidates`
appears as the orders (`rankings`) in which it may put a configuration's moves,
one for every entropy, seed and weighting; scores are integers.  The resume
buffer is a set of entries with a total order (`Before`).

**RecedingHorizon** (`receding_horizon.rs`) extends RunSearch, whose loop is the
rollout by search and the fallback.  `Propose` asks for assignments, `Round` and
`Apply` are the beam, `FallBackToIds` and `Classify` what follows it, `Commit`,
`ShorterHorizon`, `Merge` and `StartFallback` the end of a stage.  Rollouts run one
after the other: they share nothing that changes and are collected in order.

**CzPlacement** (`single_heuristic.rs`, `loose_goal.rs`, `nohome.rs`,
`target_solver.rs`, `solve_receding_horizon`) composes Restarts and RecedingHorizon
to the four ways of placing a layer.  `SolveLoose` is one solve toward any entangled
placement; `TryCandidate`, `SkipCandidate` and `CandidateTried` walk the candidate
targets of a single-heuristic placement, which share one budget; `RouteLayout`,
`LayoutRouted`, `NoWayHome`, `Stage` and `Staged` are the two phases of a no-home
placement, and `StageAtOnce` the case that nobody has to return; `NextTrajectory` to
`BestTrajectory` run the trajectories of the receding horizon, which share nothing,
one after the other.  The clean-up at the end of `solve_loose_goal` has never
anything to do, since `EntanglingConstraintGoal` already excludes accidental
partners, and is not an action.  Home words may be in no pair (`left_cz_word_ids`,
`query.rs:257-273`, takes words without a partner in), and `resolve_cz_targets` passes
over a pair with an atom on one of them (`Stageable`).

**Hungarian** (`hungarian.rs`) is the assignment of rows to columns along shortest
augmenting paths, with its potentials as recursive functions over the steps.
**Entangling** (`entangling.rs`): slots are pairs of locations within the blockade
radius, rows are pairs and the atoms in their way.  `Iterate`, `Assign`, `Rebalance`,
`Detect`, `Repair` and `Deliver` are the stages of one assignment; with layers to
come, it is made for each of them forward and then once more backwards, drawn to
where the next layer wants its atoms.  **ReturnLayouts** uses the same solver for
the way home: `LayOut` prices returners over free home sites, and one more layout is
made for each bus signature that most of them could use.

**AodGrid** (`aod_grid.rs`).  `Grow` handles one entry of a greedy round,
`EndRound` turns the rectangle into a cluster, `TryPair` and `EndPass` are
`merge_clusters`.  A call is a bus (sources, destinations, positions), the
occupied locations and the entries.

**Arch** (`arch/query.rs`, `arch/validate.rs`, `lane_index.rs`) holds the pure
functions of an architecture, a record of words, zones, buses and pairs: how a lane
is resolved (`ResolveForward`, `CheckLane`, `LaneEndpoints`, `LaneForEndpoints`),
what a group must be (`CheckLanes`), who is whose partner, once per location and
once per word (`CzPartner`, `WordPartner`), which architectures are valid
(`Validate`), and which lanes the search's index holds (`IndexedLanes`).  An Option
is a set of at most one element, ids count from 1, and an error is a set of checks
that is not met.

**AodPath** (`_search_path` and its helpers) is the way of one atom of a bus,
around the grid points where other atoms may sit: safe positions on each axis, the
position graph, all of its shortest ways (the library's Dijkstra returns one of
them), and the merging of steps.  **ArchBuilder** has an action per call of
`ZoneBuilder` and `ArchBuilder`; a call that raises changes nothing, except for
`add_entangling_pairs`, which keeps the pairs before the bad one.  `Build`
translates a zone's own numbers into global ones, computes the paths, resolves the
radius and validates; what validation refuses is not built.  Lengths are integers,
as they are in the code (nanometres).

**ArchGrids** composes the builder with the grids: an architecture is built by any
sequence of calls, one of its bus groups is looked up in the index with or without
a zone (`GroupLanes`), and `BusGridContext::new` makes a call of AodGrid of it
(`Request`).

**Instructions, StackMachine** say what an instruction takes and leaves, once,
and what a stream of them means.  **Bytecode** walks a program, an instruction
per step, in all the code that reads one: `Scanned`, `StructureErrors` and
`ArchErrors` are `validate_structure`, `validate_addresses` and
`validate_capabilities`; `Simulated` is the `StackSimulator`; `Visit` and
`VisitFails` are the handlers of `decode.py`; `DumpProgram` is `encode.py`.  The
validator keeps on after an error and the decoder gives up, so that a program is
walked until `MaxErrors` are found.

**Stackify** (`stackify.py`, `move2stack_move.py`, `stack_move2move.py`).  One
action per pass (`CloneConstants`, `DeadCode`, `DupSwap`, `Splice`), then `Run`
executes the statements, one per step, from the stack alone, as the decoder finds
the operands.  `Meant` is what the kernel says before any of this, for a way of reading
its lists of addresses: `Meaning` reads them as they stand, `Mirrored` from their end.

**Pipeline** composes the two: `Compile` walks a kernel through the passes, `Load`
encodes it into a program that the validator and the decoder then walk, and `Read`
is a program from anywhere.

**OrderLemmas** has the least element of a set of naturals and the first element
of a finite order.

## Runs

| Run | What it asks | States |
|---|---|---|
| `frontier_search` (RunSearch.cfg) | Is what `run_search` returns right, in all five orders? Does it implement `GraphSpec` and end? | 36k |
| `placements` (CzPlacement.cfg) | Is what a placement says of itself true, can its moves be executed, and does it return, whatever mix of solves, cascades and trajectories it was made of? | 85k |
| `entropy_search` (EntropySearch.cfg) | Does the walk with its buffer and fallback keep the shallowest goal and every limit, and is its path executable? | 26k |
| `aod_grid` (ArchGrids.cfg) | Do the grids move each atom that can move, no other, and keep atoms apart? Does a built architecture mean what its client meant, and do validator, lookups and index agree on it? | 72k |
| `aod_zones` (ArchGridsZones.cfg) | Is a grid built without a zone a group the architecture accepts? **No.** | violation |
| `arch_paths` (ArchPaths.cfg) | Does the path of a lane lead from its one end to the other? **No.** | violation |
| `atom_state` (AtomState.cfg) | Do the maps agree and atoms survive under chains, cycles, collisions and refusals? | 269k |
| `repeated_collision` (AtomAnalysis.cfg) | Do collided atoms stay trackable? **No.** | violation |
| `entangling` (Entangling.cfg) | Are assignments optimal, free of blockers, apart and honestly priced, and do layouts lead home? | 68k |
| `entangling_capacity` (EntanglingCapacity.cfg) | Does a layer with more pairs than slots get an answer? **No.** | violation |
| `pipeline` (Pipeline.cfg) | Do validator and decoder implement one machine, is decoding undone by encoding, and what of a kernel comes back? | 689k |
| `stackify_records` (StackifyRecords.cfg) | Does it keep which results make up which record? **No.** | violation |

*Bounds.*  `frontier_search` takes two families of calls.  The *mazes* are all
move graphs over four placements with six edges, each absent or of a cost from 0
to 5, with cycles, free moves and an inconsistent (but admissible) heuristic for
each: four nodes are the fewest in which a re-opened node has a successor that
was already closed and a goal beyond it, which is where an A* that re-opens too
little goes wrong.  The *lines* are two atoms on three sites, with budgets of 0,
2 and 3 and depth limits of 1 and 2: half of the targets are out of reach, and 3
is exactly the number of reachable placements.  In `placements` two atoms go round
a ring of four places, of which two are home and each has its partner across, and one
of them goes to a fifth place beside the ring too, which is home and has no partner: the
atoms cannot pass each other, so that some targets need a detour, some are out of
reach, and moving to and fro is always possible.  For a loose goal every seed has one
of four generators, all moves, the short way alone, the long way alone and a dead
end, so that restarts differ in result, cost and status; the summed
heuristic speaks against the short way, which a refinement that used it would
miss.  Single-heuristic placements get lists of up to four candidates, among them
none that is no pair, none that exists and none that leaves an atom out, and budgets
that end within each of them; no-home placements get one or two layouts, some with an atom on the
fifth place, sites blocked by others, and budgets for either phase; trajectories vary the horizon, the commit
depth, the decrement, the beam and the generators, some of which end early.
`atom_state` has
three atoms, so that two can collide and a third run into the site they left, and
lists of up to three of five lanes that form a chain, a cycle and a refusal;
`MaxMoves` = 2 stops new calls once an atom has moved twice, which lets every
pair of calls happen.

`entropy_search` has the same ring; its calls vary goals, depth limit, budget, buffer
capacity and reversion steps.  `aod_grid` takes every set of free, standing and moving atoms
on two rows of three sources with six further places, on buses that shift a row,
leave gaps, exchange rows and make a detour: two rows and three columns are the
fewest in which a rectangle can be grown in both directions and two clusters
merge into one that contains a place of neither.  Its other half are five small jobs
of the builder, each with every order of up to eight calls: words beside each
other, astride and at one site only, with pairs from a radius and by hand; two
connected zones; words whose site bus shifts and one whose site bus exchanges; a bus
that leaves a corner open; and words of two rows, where an atom has to be led
between the others.  Grids are asked for on the jobs with a bus that can make
rectangles, for every set of atoms on its sources.  `entangling` takes a row, two
blocks, a dense row with fewer slots than pairs and a wide grid (and two islands for
the way home), every placement of three or four atoms on them, layers of one to three,
weights that make loads and blockers count or not, and noise; eight atoms of the wide
grid are what it takes to overload a word pair.  `pipeline` takes all programs of up to
`MaxLength` = 6 instructions over four alphabets (atoms, measurements, arrays, moves),
each of which holds the instructions that share operands, until `MaxErrors` = 1 is
found, and 1348 kernels of
up to three gates, fills or moves that share an angle, and a measurement of one to three
zones whose results go into a record: three uses are what it takes for a value to be
duplicated twice, and three zones for one that is its own mirror image.  Zones have
equally many locations (`Sites` = 2) and a measurement names each once.  `CHECK_DEADLOCK FALSE` is given where the program really
stops: when a call has returned, a program is at its longest, or the analysis is
at bottom.

*Fairness.*  `FairSpec` and `FairPlacementSpec` assume weak fairness of the whole
next-state relation: the loops are plain code on their caller's thread and wait for
nothing.  Which node is popped is decided by the order, not by fairness.
`PlacementReturns` is claimed of trajectories only if they have a budget: without one
the loop over stages really may go on for ever.

*Refinement.*  `GraphSpec` is a PROPERTY of `frontier_search` (the variables are
the same, so the mapping is the identity) and proved as `ImplementsGraph`; the
entropy driver is proved to implement it too.  `ValidatorRuns` and `DecoderRuns`
say that the Rust validator and the Python decoder implement `StackMachine`: each
is an `INSTANCE StackMachine WITH` the kinds of its own stack and the place of
its own first fatal error.  Both are checked and proved.

## What the five violations say

`repeated_collision`: `move_impl` (`impl.py:114`) restores collided atoms only if
the record of collisions has grown.  A mover that collides again overwrites its
own entry; the record does not grow, both atoms stay out of the maps, and no
later CZ or return move finds them, contrary to `impl.py:34-37`.  The pattern
move, CZ, return, move again is enough.

`aod_zones`: `BusGridContext::new` (`aod_grid.rs:59`) with a `zone_id` of `None`
takes the lanes of a bus id from all zones.  If two zones line up, a rectangle
spans both, and `check_lanes` refuses the group.  Every caller asks for exactly
this (`heuristic.rs:581`, `greedy.rs:93`, `entropy.rs:417`, `pipeline.rs:112`).
`OwnGridsPass` is what does hold: within one zone the group is accepted, if its
lanes are forward or shift by the same.

`arch_paths`: `_compute_paths` (`imperative.py:885`) compares the displacements of
a site bus on the zone's first word only and then shifts one path to every word,
though the comment above it says that *every* pair must have the same one.  With a
second word of another pitch no warning is given and its paths end beside the sites
their lanes lead to.

`entangling_capacity`: with more pairs than slots `lookahead_assign_pairs` is said to
fall back to the plain assignment (`entangling.rs:773`), but that one asserts that
there are at most as many pairs as slots (`entangling.rs:840`) and panics.

`stackify_records`: a value that is used once is left where it was computed
(`stackify.py:128`).  When two results of one measurement go into a detector and
an observable in the other order, the stack hands each of them the other's result,
though the pass promises correct bytecode (`stackify.py:3-5`).

## What holds instead of what is said

Three more disagreements are inside properties that hold: each says what the code does.

`ComesBackMirrored`: constants are cloned with the last operand first
(`stackify.py:65`), and the decoder reads a group from the bottom of the stack, so that a
kernel comes back with every list of addresses reversed.  That is not "an equivalent
ir.Method" (`encode.py:289`): the atoms of a fill are numbered as they are listed
(`impl.py:164`), the lanes of a move run one after the other (`atom_state.rs:174`), and
the indices of results were counted over the zones in their old order
(`move2stack_move.py:94`), so that of a measurement of two zones a detector gets the other
zone's results.  All else comes back as it was, and so do kernels whose lists have
one address.

`OutcomeExecutable`, of no-home placements: they say `Solved` though a pair with an atom
on a place that has no partner is apart (`nohome.rs:519-524`).  The property says that these
pairs are the only ones, and that they are left where they were.

`OutcomeExecutable`, of trajectories: out of budget they hand out the layers they have
committed (`receding_horizon.rs:858`), where `result.rs:36-46` has an empty list and the
initial placement.  The property says that they can be executed and lead where the
answer says, and that no other placement does this.

## Proofs

| Theorem | Says |
|---|---|
| `SearchGraph_proofs!GraphInvariant` | the graph's invariant, whoever inserts |
| `RunSearch_proofs!LoopInvariant` | the inductive invariant of the loop |
| `TypeCorrect`, `PoppedOnce`, `UnsolvableTheorem` | the type invariant, no node twice, "Unsolvable" is a proof |
| `AStarTheorem` | `AStarCertified`: a potential that certifies the returned cost |
| `PathInvariant`, `PathReplaysTheorem` | where every node comes from; `PathReplays`: the returned moves lead to the goal |
| `AStarBoundedTheorem`, `BfsTheorem`, `DepthLimitTheorem` | `AStarBounded`, `BfsFewestMoves`, `DepthLimitComplete`, against every walk |
| `ImplementsGraph` | the loop implements the abstract graph |
| `RunSearch_proofs!SolveInvariant`, `RestartsKeepBest`, `CascadeTheorem` | the loop's invariant throughout a solve call; `AnswerIsBest`; `CascadeBounded` |
| `RunSearch_proofs!PlacementInvariant`, `OutcomeTheorem`, `StatusTheorem` | the invariant of a placement; `OutcomeExecutable`; `StatusIsTrue` |
| `Entangling_proofs!HungarianInvariant`, `AssignmentTheorem` | feasible duals and tight columns; `AssignmentOptimal` |
| `RepairInvariant`, `RepairTheorem` | what the repair has done so far; `RepairSeparates` |
| `SlotInvariant`, `PairsTheorem`, `GoalTheorem`, `EstimateTheorem` | the invariant of the entangling calls; `PairsGetSlots`, `TargetsMeetGoal`, `EstimateIsLow` |
| `HomeInvariant`, `HomeTheorem` | the invariant of the return layouts; `ReturnsReachHome` |
| `EntropySearch_proofs!EntropyInvariant`, `EntropyTypeCorrect`, `EntropyNoShallowerGoal`, `EntropyResumeSound`, `EntropyWithinLimits`, `EntropySolutionReplays`, `EntropyImplementsGraph` | the entropy driver's invariant, the properties of its run, and that it implements the abstract graph |
| `ArchGrids_proofs!GridInvariant`, `GridsAreSafe`, `MoversAreCovered`, `MergingIsIdle` | the grids are right on every bus, given or built, and merging finds nothing on one whose destinations are no sources |
| `ArchInvariant`, `LanesAlwaysResolve`, `LanesLeadAsBuilt`, `PartnersAlwaysNeighbours`, `PathsAlwaysClear`, `OwnGridsAlwaysPass` | what every built architecture is; `LanesResolve`, `LeadsAsBuilt`, `PartnersAreNeighbours`, `PathsClear`, `OwnGridsPass` |
| `Bytecode_proofs!WalksInvariant`, `TypeCorrect`, `DecoderFailsWhereReported`, `ValidatorImplements`, `DecoderImplements` | the two walks agree, and each implements the stack machine |
| `AcceptedIsTyped`, `RoundTripTheorem` | `AcceptedOperandsTyped`, `RoundTrip`, for programs of any length |
| `AtomState_proofs!TypeCorrect`, `MapsAlwaysAgree`, `CollisionsStayDisjoint`, `AtomsAreKept`, `MovesAreCounted`, `ApartMovesTogether`, `PairingTheorem` | the properties of the same runs, for any architecture |

The assumptions are those named in the modules: `CostsAssumption`,
`ProblemsAssumption`, `RequestsAssumption`, `ArchAssumption`, `EntropyAssumption`,
`GridAssumption`, `JobsAssumption` (what types the builder's calls are given), `InstructionAssumption`, `BytecodeAssumption` and `InfAssumption`,
which type the constants (an instruction without a field has it at zero);
`ConfigsAssumption`, that there are finitely many configurations, as of atoms on a
finite architecture; and `UniformAssumption`, that no move is free, which is the cost
model of every caller (`cost.rs`, `UniformCost`).  Placements have four more.
`UniformCostAssumption`: every search of a placement has that cost model, so a path
costs its moves.  `TrajectoriesAssumption` and `IsSolve` ask that generators are
`Faithful`: a candidate's configuration is what its move set makes of the node's, which
all of them compute with `apply_move_set`.  `LocationsAssumption` and `PartnersAssumption`
only type `get_cz_partner`: atoms are at locations, and a partner is one.  Neither
that partnership is mutual nor that a home has a partner is assumed.  And
`PlacementsAssumption` (`IsPlacement`) is what the callers see to: the pairs of a layer
share no atom, and the goal of a search is to have them together; a return layout is
any placement of the atoms.  Entangling assignments have four: `BigAssumption`;
`ArchsAssumption`, that `validate` takes the architecture and no word of a zone is in two
of its pairs, which `validate` does not check (`validate.rs:367` refuses only a pair named
twice) though a slot could then be shared and `get_cz_partner` would know one of two
partners; `TasksAssumption`, that atoms stand on places of their own and the pairs of a layer
share none; and `WeightsAssumption`, that the sum of a pair's legs, penalties and noise
stays below half of `Inf`: in the code costs are `u32`, which saturate, and the solver adds
them up in `i64`.  Return layouts have two: `ReturnsAssumption`, that atoms stand on
places of their own on an architecture of the same kind, and `PricesAssumption`, that a
whole layout costs less than `large_cost`: 10^9 (`nohome.rs:267`), where a hop
costs 1000.  The code takes that for granted and does not check it.  TLC evaluates all
of them in the passing runs.

Some theorems have a hypothesis of their own, which the code does not check or which
is about its numbers:
`EntropySolutionReplays`, that candidates keep atoms apart (`CandidatesApart`, what
the generator's own checks give);
`DecoderFailsWhereReported`, `AcceptedIsTyped` and `RoundTripTheorem`, that the
products of dimensions fit their 16 bits (`DimensionsFit`): the validator multiplies
in `u16` (`validate.rs:586`), the decoder in unbounded integers, and beyond that they
part;
`PairingTheorem`, that partnership is mutual (`MutualPartners`), which
`ArchSpec::validate` does not check;
`AssignmentTheorem`, that the matrix is a rectangle of `u32` costs, of which two add
up to less than `Inf` (`Proper`).  `Inf` is `i64::MAX / 2` in the code, so of this only the
shape is a demand on the callers, which `entangling.rs:1727` asserts; in an entangling
call `SlotInvariant` shows that it is met.

*The search loop.*  None of the properties is inductive.  `IInv` adds: no node is
lost (`NoneLost`: every node of the arena waits, is a new child, is closed or is
the goal), goals are seen as soon as the policy looks (`GoalsCaught`), and every
candidate of a closed node leads to a configuration that is known at no more than
its cost through that node, up to those of the current node still to come
(`EdgesRelaxed`, Bellman's inequality).  From an empty frontier these give
`UnsolvableIsProved` at once: the configurations of the table are closed under
the candidates.  For A*, `GoalWasFirst` bounds the frontier from below by the
goal's f, and with a consistent heuristic the potential
`min(weight * g, g(goal) - weight * h)` is then feasible: along any walk from the
root to a goal its rises sum up to at most `weight` times the cost of the walk.

*Paths and walks.*  `AStarBounded`, `BfsFewestMoves` and `DepthLimitComplete` compare
the result with the walks themselves, a recursive function of their length.  The
proofs follow a walk, by induction over its length, until it leaves the closed nodes,
and bound what waits there: by its f for an admissible heuristic, by its layer for
breadth-first search, by its depth with unit costs.  That needs of the past what `IInv` lacks,
`PathInv`: every node is what one of its parent's candidates makes of the parent
(`NodesAreCandidates`, which also gives `PathReplays`), breadth-first search makes and closes
its nodes layer by layer (`LayerByLayer`, `EdgesLayered`), a node that was expanded was within the
limit, and where no move is free the depth is at most the cost (`MovesAreCounted`).
`CascadeBounded` puts two of these together: the inner run's depth bounds that of a
cheapest path, so the limit of the A* run cuts off no better one.

*Restarts.*  `SolveInv` is the loop's invariant (a run begins in `Start`, which
implies it), the type of the results so far, and `AnswerIsBest`.  `pick_best` is
a CHOOSE; that its choice exists is proved from the well-foundedness of the
naturals in three steps (the leading class, its least cost, the first index).

*Placements.*  A placement is a program of searches, and `PlacementInv` says of every point
between them what the layers on record are worth: of a solve call, that each of
its results can be carried out from the request's root (`Sound`, by `PathInv`) and has
a status that is true of its run (`Told`); of a trajectory, that what it has committed leads
to where it stands and every branch, option and node leads on from there
(`TrajectoryInv`); of what the attempts returned, the same (`AreAttempts`).  What is
wanted changes with the phase: a no-home placement first sends its atoms to a layout, of
which nothing is asked, and `StagingBringsTogether` shows that the targets of
`resolve_cz_targets` then have each pair that can be joined where one atom is the other's
partner, and leave the others alone (`StagedWell`), since the pairs share no atom.  Replaying one sequence after another
is replaying the two in a row (`ReplayOn`), which joins the commits of a trajectory
and the two phases of a no-home placement.  `StatusInv` adds what was searched in vain
and that what is spent and what is left make up the budget: an answer "Unsolvable" has
not used all of it, since a run that has is "BudgetExceeded", so no candidate is left
out under that status.

*Assignment.*  `HInv` is the textbook's invariant of shortest augmenting paths, for the
code's loop, which shifts the duals at every column instead of once per row: reduced costs
are never negative, the columns that have a row are tight, free columns have no
dual, and the open ones know the nearest of the visited.  The path
back to column 0 is tight, which ranks that rise along it tell apart from what else was
visited, since handing a row on spoils the links of the other branches.  A free
column exists by the pigeon-hole principle, and is never as far as `Inf`.  At the end the
price is the sum of all duals, and `ChosenDuals`, an induction over the columns, says that no
other choice of columns sums up to less.

*Entangling calls.*  `RepairInv` is about the loop of `repair_pair_separation` alone: it
stops as soon as all pairs are apart, and a pair is only sent where that makes them so,
so no second one is.  `SlotInv` follows a call through its stages.  While the matrix is
solved it is the cost matrix of the rows and proper (`MatrixMade`): hop tables map places to
numbers of at most `Big` plus the number of places, an induction over the breadth-first
layers, and what is added stays below `Inf`.  The Hungarian's theorem
is then a premise, and every row has a column of its own (`ColumnsOwn`), which a move of the
rebalancing keeps since its column is nobody's.  No two slots share a place: word pairs
of a zone share no word, and `FlattenSeq` takes every site of each of them once (`Joins`).  So the
targets of a matrix are good (`SlotsGood`): pairs have whole slots, none of it
blocked, no two rows the same place, and no two atoms that were in the way are led into
the two halves of one slot; an alternative of the repair is a slot no pair has, which keeps that.
With layers to come the targets of a turn draw the next, and its atoms begin where the ones
before lead (`BaseInv`); only that they are places of slots matters.
`TargetsMeetGoal` needs of the detection that the iterations agree, and that the halves of a
slot are each other's only partners (`HalvesArePartners`): two standing bystanders that are
partners would have been found by case D, one standing and one moved by case E, whose targets
the repair does not change, and two moved ones share no slot.  `EstimateIsLow` compares
least hops to any site of a word with the hops to the site of the slot.

*The way home.*  A site in reach is at most as many hops away as there are places, from
where the atom is and from any other atom, and the weights a layer's gates add to
an atom are at most those of the heaviest layer: every price is below
a row's share of `Big`, so all rows together are below one site without a price
(`Total` is a recursive function, and its bounds inductions over the rows).  Rewards
only lower a cost, never that of a site without a price.  If the sites with a
price suffice, some assignment therefore costs less than `Big`; by `AssignmentOptimal`,
again a premise, the one that is found costs no more, so it takes priced
sites only.  The greedy layout takes sites off a list by `swap_remove`, which leaves a
permutation of the others, so it gives none twice.

*Atom state.*  `IInv` is the conjunction of the properties and `SoFar`: during a
call, and as long as the lanes keep apart, `result` is `held` after its first
`next - 1` lanes at once.  Each of the four lane actions is proved to preserve the
maps, the collisions and the counts separately.

*Entropy search.*  `IInv` says that a goal is never expanded, hence that the walk
never stands on one and the buffer holds none; that an entry has the depth of its
node; that the walk stays above the best goal; and that what is left of a
fallback's route is free of the other atoms, who stand still.

*Grids.*  The invariant has two halves.  Every rectangle is valid, which gives
safety; and every atom that can be moved alone is still to be looked at or is in a
cluster, which gives coverage.  On a one-way bus parts of valid rectangles are
valid, so whatever one cluster could add, it has: the clusters exclude each other
and no pair can merge.

*Architectures.*  `ArchInv` holds through any calls of the builder: the zones that were
made keep their shape and their words are rectangles of it, buses and pairs name words
and sites there are, the words of the zones on record are numbered one zone after
the other, connections and modes name what is on record, and what build made is
valid and, field by field, what was given.  A bus that
validation accepts names no word or site twice among its ends, which makes the
lane between two ends the only one from there (`LanesResolve`).  `LeadsAsBuilt` follows a
number of a client's word through `Global`, where no zone has grown since it was added,
for the lanes of site, word and zone buses in turn.
Ends that a connection names twice lead where the first of them did, which is
what the zone bus looks up, so the property is about those (`NamedFirst`).
`PartnersAreNeighbours` rests on the scan: two words within the radius are so at the
same sites, and no word is in two such pairs (`MatesAre`), while words of different
zones have different numbers (`GlobalsApart`), so that the partner of a location and
the partner of its word are the same mate.

For `PathsClear`, `Routed` keeps in `ArchInv` that every path is that of some way `Ways`
found.  A node of the position graph other than the ends has a coordinate that is
safe for every atom (`NodesAre`), an edge is crossed by no grid point in either direction
(`EdgesAre`), and merging only takes longer steps that are as clear (`MergedAre`).  What
remains is that a way does not come by its beginning or its end again, which
`SafePositions` would not prevent: it is shortest, so that the distance rises along
it (`DistancesAre`, `RisesThroughout`).  All atoms follow the way of the reference
atom at a displacement of their own (`RouteIsSafe`), there or back (`PathIsClear`).

For
`OwnGridsPass` the sources of a grid are a rectangle of positions by `GridInv`; of
one bus of one zone these are the addresses the group check asks for, and the
destinations are one too where all lanes shift alike.

*Bytecode.*  `IInv` types the two stacks and says that the decoder's failure is the
first fatal error of the validator (`SameVerdict`) and that until then both hold
the same kinds (`SameKinds`).  The refinement is then one step per instruction:
the map from entries to kinds commutes with taking from the top and appending.
For the statements, the block so far is shown to dump to the part of the program that
was read, and every operand to have the kind its slot on the stack had.

*Induction.*  The library's induction theorems take an operator as a parameter and cannot be
instantiated with the provers at hand.  `OrderLemmas!Induction` takes a set of
naturals in its place, and `LeastNumber` a least counterexample.  Recursive
functions are unfolded from them: that a solution of the recursion exists, and that
any two agree.

The type invariants, `GraphInv`, `NeverPoppedTwice`, `WithinLimits`,
`CollisionsDisjoint` and `MovedIsCounted` are proved for every value of the constants
and no longer asked of TLC.

What stays with TLC: liveness (`Terminates`, `PlacementReturns`), which needs fairness
and ENABLED; and `ComesBackMirrored` and `KernelsAccepted`, whose passes fold over whole
programs with operators as arguments.
Assignments have no liveness property: each is a
fixed number of stages, and the bound on the repairs is a bound of a loop.

## Not modelled

See the components of `PROJECT.json`.  What a next step would take up: the move
generators with their deadlock policies, which leave out legal moves so that
"Unsolvable" (`result.rs:15`) is relative to the candidates; the distance tables; and
the lookups of measurement results in the atom analysis.

Known and not stated as a property: a search that uses up its budget on the last node
it could reach is reported as `BudgetExceeded` although it has explored everything
(`restarts.rs:42`); `max_expansions` is given in full to each phase of a no-home placement
(`nohome.rs:591`), though it is documented as the limit of the solve (`solve.rs:255`);
and a zone that gets words after `add_zone` makes global numbers overlap (`imperative.py:1048`).

Left out for good: the DSL interpreters, the command line and the bindings, binary
and textual formats, visualisation, and the IR rewrites that only reshape programs.
Floating-point rounding is not modelled anywhere; the uniform cost makes every sum
exact, and the builder works in integers.
