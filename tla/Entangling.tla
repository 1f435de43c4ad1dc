----------------------------- MODULE Entangling -----------------------------
(***************************************************************************)
(* Where the atoms of entangling gates shall go (lookahead_assign_pairs    *)
(* and assign_pairs_with_blockers in                                       *)
(* crates/bloqade-lanes-search/src/ops/entangling.rs).                     *)
(*                                                                         *)
(* A slot is a pair of locations within the blockade radius.  The pairs of *)
(* a layer, and atoms that stand in their way, are rows of a cost matrix   *)
(* over the slots; a pair takes both halves of its slot and an atom in the *)
(* way one half of its own.  Hungarian assigns the rows, the assignment is *)
(* rebalanced between word pairs, the atoms that are in its way are looked *)
(* for and join the rows, until none is found.  Then one pair may be sent  *)
(* elsewhere so that no two pairs are neighbours.  With layers to come     *)
(* this is done for each of them in turn and then once more backwards,     *)
(* drawn towards where the next layer wants its atoms.                     *)
(*                                                                         *)
(* A row is the sequence of its qubits: two of a pair, one otherwise.      *)
(* Targets are a function from qubits to locations.  Weights and penalties *)
(* are integers, and `noise` is what a seed's generator may draw for the   *)
(* cells, over and over; seed 0 draws nothing.                             *)
(***************************************************************************)
EXTENDS Arch, Hungarian
LOCAL INSTANCE SequencesExt

CONSTANTS Big,     \* u32::MAX / 4: an unreachable place; more than any cost
          Archs,   \* the architectures that are considered
          Tasks    \* the calls that are considered

ASSUME BigAssumption == Big \in Nat

(***************************************************************************)
(* An architecture is one that validate takes, and no word of a zone is in *)
(* two of its pairs.  That validate does not check: it refuses a pair that *)
(* is named twice, but takes pairs with a word in common.  get_cz_partner, *)
(* which knows one partner of a word, shows that they are not meant.       *)
(***************************************************************************)
IsSequence(s) == s \in Seq(Entries(s))
AllLocations(a) == [zone : DOMAIN a.zones, word : DOMAIN a.words, site : 1..SitesPerWord(a)]
PairsDisjoint(zone) ==
    \A i, j \in DOMAIN zone.pairs : i # j => Entries(zone.pairs[i]) \cap Entries(zone.pairs[j]) = {}

ASSUME ArchsAssumption ==
    \A a \in Archs :
        /\ Validate(a)
        /\ IsSequence(a.zones) /\ IsSequence(a.words)
        /\ \A w \in DOMAIN a.words : IsSequence(a.words[w])
        /\ \A z \in DOMAIN a.zones : a.zones[z].pairs \in Seq(Nat \X Nat) /\ PairsDisjoint(a.zones[z])

(***************************************************************************)
(* A task: the architecture, the pairs of the `layers` (the one to place   *)
(* first), the atoms' places, the places that are `blocked` by atoms that  *)
(* do not belong to the layout, the seed's `noise` and the weights.        *)
(***************************************************************************)
ASSUME TasksAssumption ==
    \A t \in Tasks :
        /\ t.arch \in Archs /\ t.noise \in Seq({-1, 0, 1})
        /\ t.beta \in Nat /\ t.congestion \in Nat /\ t.occupancy \in Nat /\ t.move \in Nat
        /\ DOMAIN t.config \in SUBSET Nat /\ IsFiniteSet(DOMAIN t.config)
        /\ t.config \in [DOMAIN t.config -> AllLocations(t.arch)]
        /\ \A q, r \in DOMAIN t.config : q # r => t.config[q] # t.config[r]
        /\ t.layers \in Seq(Seq(Nat \X Nat)) /\ t.layers # << >>
        /\ \A i \in DOMAIN t.layers : \A j, k \in DOMAIN t.layers[i] :
              /\ t.layers[i][j][1] # t.layers[i][j][2]
              /\ j # k => Entries(t.layers[i][j]) \cap Entries(t.layers[i][k]) = {}

\* Costs are u32, which saturate; hungarian counts with i64.  No sum of a pair's
\* legs, the penalties and the noise comes near to Inf.
ASSUME WeightsAssumption ==
    \A t \in Tasks :
        LET hops == Big + Cardinality(AllLocations(t.arch))
        IN  2 * (2 * (hops + t.beta * hops + t.move) + 2 * t.occupancy + 1) < Inf

----------------------------------------------------------------------------
(***************************************************************************)
(* What is known of an architecture.                                       *)
(***************************************************************************)

\* enumerate_word_pairs, and the slots, by word pair and site.
WordPairs(a) == FlattenSeq([z \in DOMAIN a.zones |->
                              [i \in DOMAIN a.zones[z].pairs |-> [zone |-> z, words |-> a.zones[z].pairs[i]]]])
SlotsOf(a) ==
    FlattenSeq([p \in DOMAIN WordPairs(a) |->
                  [s \in 1..SitesPerWord(a) |->
                     [h \in {1, 2} |-> Loc(WordPairs(a)[p].zone, WordPairs(a)[p].words[h], s)]]])

\* DistanceTable::new over all entangling locations: hops, against the lanes.
Steps(a) == {EndsOf(a, lane) : lane \in IndexedLanes(a)}
HopsTo(a, target) ==
    LET n == Cardinality(AllLocations(a))
        steps == Steps(a)
        within[k \in 0..n] ==
            IF k = 0 THEN {target}
            ELSE LET nearer == within[k - 1] IN nearer \cup {e[1] : e \in {f \in steps : f[2] \in nearer}}
    IN  [from \in AllLocations(a) |->
           IF from \in within[n] THEN CHOOSE k \in 0..n : from \in within[k] /\ (k > 0 => from \notin within[k - 1])
           ELSE Big]

\* These are computed once for an architecture.
Slots == [a \in Archs |-> SlotsOf(a)]
Hops == [a \in Archs |-> [t \in UNION {Entries(Slots[a][j]) : j \in DOMAIN Slots[a]} |-> HopsTo(a, t)]]
Next(a, from) == {e[2] : e \in {f \in Steps(a) : f[1] = from}}
Exits == [a \in Archs |-> [from \in AllLocations(a) |-> Next(a, from)]]

\* A finite set as a sequence, in a strict order: the k-th has k - 1 before it.  (The
\* SortSeq that SetToSortSeq calls has no definition for the provers.)
InOrder(S, Before(_, _)) ==
    [k \in 1..Cardinality(S) |-> CHOOSE x \in S : Cardinality({y \in S : Before(y, x)}) = k - 1]
\* The entries at some positions.
OnlyAt(s, positions) == LET order == InOrder(positions, <) IN [k \in DOMAIN order |-> s[order[k]]]

Moved(config, targets) == [q \in DOMAIN config |-> IF q \in DOMAIN targets THEN targets[q] ELSE config[q]]
At(config, location) == {q \in DOMAIN config : config[q] = location}

\* pairs_grid_separated: a pair without a place is not separated from others.
GridIndex(a, at) == a.words[at.word][at.site]
Gap(m, n) == IF m < n THEN n - m ELSE m - n
Apart(a, at, other) ==
    LET p == GridIndex(a, at)
        q == GridIndex(a, other)
    IN  at.zone # other.zone \/ Gap(p[1], q[1]) >= 2 \/ Gap(p[2], q[2]) >= 2
PairsApart(a, config, one, other) ==
    \A q \in Entries(one), r \in Entries(other) : Apart(a, config[q], config[r])
PairsSeparated(a, config, pairs) ==
    Len(pairs) >= 2 =>
        /\ \A i \in DOMAIN pairs : Entries(pairs[i]) \subseteq DOMAIN config
        /\ \A i, j \in DOMAIN pairs : i < j => PairsApart(a, config, pairs[i], pairs[j])

\* EntanglingConstraintGoal: every pair is in a slot, and no two other atoms are
\* partners by accident.
EntanglingGoal(a, config, pairs) ==
    LET bystanders == DOMAIN config \ UNION {Entries(pairs[i]) : i \in DOMAIN pairs}
        placed == {<<config[q], config[r]>> : q, r \in bystanders}
        valid == UNION {{<<s[1], s[2]>>, <<s[2], s[1]>>} : s \in Entries(Slots[a])}
    IN  /\ \A i \in DOMAIN pairs : /\ Entries(pairs[i]) \subseteq DOMAIN config
                                   /\ <<config[pairs[i][1]], config[pairs[i][2]]>> \in valid
        /\ placed \cap valid = {}

----------------------------------------------------------------------------
VARIABLES task,
          turn,        \* of the calls: forward over the layers and back again
          forward,     \* forward_assignments: the targets of every layer
          config,      \* where the call of this turn finds the atoms
          stage,       \* "begin", "iterate", "assign", "rebalance", "detect",
                       \* "repair" or "returned"
          blockers, iteration,
          columns,     \* the column of every row, as it is rebalanced
          targets,
          original,    \* the targets before the repair
          converged,   \* no atom was found in the way of the targets
          waiting      \* the pairs the repair has yet to look at

callVars == <<task, turn, forward, config>>
loopVars == <<blockers, iteration>>
resultVars == <<targets, original, converged, waiting>>
entanglingVars == <<callVars, stage, loopVars, columns, resultVars>>

arch == task.arch
slots == Slots[task.arch]

\* A call without layers to come, or without a weight for them, is one turn.
Depth == IF task.beta = 0 THEN 1 ELSE Len(task.layers)
Turns == 2 * Depth - 1
LayerOf(n) == IF n <= Depth THEN n ELSE 2 * Depth - n
Layer == LayerOf(turn)
pairs == task.layers[Layer]

\* sim_config and layer_config: where the targets of the layers before lead.
ConfigBefore(layer, assigned) ==
    LET after[k \in 0..(layer - 1)] ==
            IF k = 0 THEN task.config ELSE Moved(after[k - 1], assigned[k])
    IN  after[layer - 1]

\* The way to the next layer counts on the way back.
NextTargets == IF turn > Depth THEN forward[Layer + 1] ELSE << >>

Present(pair) == Entries(pair) \subseteq DOMAIN config
ValidPairs == OnlyAt(pairs, {i \in DOMAIN pairs : Present(pairs[i])})
PairQubits == UNION {Entries(pairs[i]) : i \in DOMAIN pairs}
RowQubits == PairQubits \cup Entries(blockers)
Standing == DOMAIN config \ RowQubits

MaxIterations ==
    LET others == Cardinality(DOMAIN config) - Cardinality(PairQubits)
    IN  IF others < 0 THEN 1 ELSE others + 1

----------------------------------------------------------------------------
(***************************************************************************)
(* The cost matrix (mixed_row_hungarian).                                  *)
(***************************************************************************)
\* The ways a row can take a slot: either way round, or one half of it.
Ways(rowOf, slot) == IF Len(rowOf) = 2 THEN <<slot, <<slot[2], slot[1]>>>> ELSE <<<<slot[1]>>, <<slot[2]>>>>

\* distance; None is Big.
HopsFrom(from, to) == Hops[arch][to][from]

\* The halves of a slot that atoms outside the rows hold.
HeldHalves(slot) == Cardinality({h \in {1, 2} : \E q \in Standing : config[q] = slot[h]})

\* What it costs to lead an atom somewhere.
LegCost(q, to) ==
    HopsFrom(config[q], to)
    + (IF q \in DOMAIN NextTargets THEN task.beta * HopsFrom(to, NextTargets[q]) ELSE 0)
    + (IF config[q] # to THEN task.move ELSE 0)

\* Plausible bug: blocked places are not looked at.
WayCostUnblocked(rowOf, slot, way) ==
    LegCost(rowOf[1], way[1]) + (IF Len(rowOf) = 2 THEN LegCost(rowOf[2], way[2]) ELSE 0)
    + task.occupancy * HeldHalves(slot)

WayCost(rowOf, slot, way) ==
    IF Entries(way) \cap task.blocked # {} THEN Big
    ELSE LegCost(rowOf[1], way[1]) + (IF Len(rowOf) = 2 THEN LegCost(rowOf[2], way[2]) ELSE 0)
         + task.occupancy * HeldHalves(slot)

\* The cheaper way, or the first.
BestWay(rowOf, slot) ==
    LET ways == Ways(rowOf, slot)
    IN  IF WayCost(rowOf, slot, ways[1]) <= WayCost(rowOf, slot, ways[2]) THEN ways[1] ELSE ways[2]

\* The perturbation of a seed, of the cells that can be reached.
Perturbed(i, j, cost) ==
    LET drawn == task.noise[(((i - 1) * Len(slots) + j - 1) % Len(task.noise)) + 1]
    IN  IF task.noise = << >> \/ cost >= Big THEN cost
        ELSE IF cost + drawn < 0 THEN 0 ELSE cost + drawn

CostMatrix(rows) ==
    [i \in DOMAIN rows |->
       [j \in DOMAIN slots |->
          LET cost == WayCost(rows[i], slots[j], BestWay(rows[i], slots[j]))
          IN  Perturbed(i, j, cost)]]

RowsWith(atoms) == ValidPairs \o [i \in DOMAIN atoms |-> <<atoms[i]>>]

\* What an assignment makes of the rows: nothing for those without a place in reach.
TargetsOf(rows) ==
    LET placed == {i \in DOMAIN rows : matrix[i][columns[i]] < Big}
        way(i) == BestWay(rows[i], slots[columns[i]])
        holder(q) == CHOOSE i \in placed : q \in Entries(rows[i])
    IN  [q \in UNION {Entries(rows[i]) : i \in placed} |->
           LET i == holder(q) IN way(i)[CHOOSE k \in DOMAIN rows[i] : rows[i][k] = q]]

----------------------------------------------------------------------------
(***************************************************************************)
(* One call of assign_pairs_with_blockers.                                 *)
(***************************************************************************)
EntanglingInit ==
    /\ task \in Tasks
    /\ turn = 1 /\ forward = << >> /\ config = task.config /\ stage = "begin"
    /\ blockers = << >> /\ iteration = 0 /\ columns = << >>
    /\ targets = << >> /\ original = << >> /\ converged = TRUE /\ waiting = << >>
    /\ HungarianIdle

\* The call returns; its targets are those of its layer.
Deliver(result) ==
    /\ forward' = [k \in DOMAIN forward \cup {Layer} |-> IF k = Layer THEN result ELSE forward[k]]
    /\ IF turn = Turns THEN stage' = "returned" /\ UNCHANGED <<turn, config>>
       ELSE /\ stage' = "begin" /\ turn' = turn + 1
            /\ config' = ConfigBefore(LayerOf(turn + 1), forward')
    /\ UNCHANGED task

\* No pair, none of which both atoms are there, or no slot at all.
Nothing ==
    /\ stage = "begin" /\ (ValidPairs = << >> \/ slots = << >>)
    /\ Deliver(<< >>)
    /\ targets' = << >> /\ original' = << >> /\ converged' = FALSE
    /\ UNCHANGED <<loopVars, columns, waiting, hungarianVars>>

\* The capacity guard: greedy_assign_pairs gets the pairs all the same.  Its costs
\* are others, which nobody comes to look at.
TooMany ==
    /\ stage = "begin" /\ slots # << >> /\ Len(ValidPairs) > Len(slots)
    /\ \E m \in {CostMatrix(ValidPairs)} : Assign(m)
    /\ stage' = "assign" /\ blockers' = << >>
    /\ UNCHANGED <<callVars, iteration, columns, resultVars>>

Begin ==
    /\ stage = "begin" /\ ValidPairs # << >> /\ Len(ValidPairs) <= Len(slots)
    /\ stage' = "iterate" /\ blockers' = << >> /\ iteration' = 1
    /\ UNCHANGED <<callVars, columns, resultVars, hungarianVars>>

Iterate ==
    /\ stage = "iterate"
    /\ \E m \in {CostMatrix(RowsWith(blockers))} : Assign(m)
    /\ stage' = "assign"
    /\ UNCHANGED <<callVars, loopVars, columns, resultVars>>

Assigning ==
    /\ stage = "assign" /\ HungarianNext
    /\ UNCHANGED entanglingVars

WordPairCount == Len(WordPairs(arch))
Assigned ==
    /\ stage = "assign" /\ solving = "assigned"
    /\ columns' = ColumnOf
    /\ stage' = IF task.congestion > 0 /\ WordPairCount > 1 THEN "rebalance" ELSE "detect"
    /\ UNCHANGED <<callVars, loopVars, resultVars, hungarianVars>>

\* congestion_aware_hungarian: the cheapest move of a row from the word pair with
\* the most rows (the last of them) to one below the quota, if it costs no more
\* than the congestion weight.  A move lowers what is above the quota, so the
\* limit of one move for every row is never met.
WordPairOf(j) == ((j - 1) \div SitesPerWord(arch)) + 1
Load(p) == Cardinality({i \in Rows : WordPairOf(columns[i]) = p})
Quota == (Len(matrix) + WordPairCount - 1) \div WordPairCount
Fullest == CHOOSE p \in 1..WordPairCount : \A o \in 1..WordPairCount : Load(o) < Load(p) \/ (Load(o) = Load(p) /\ o <= p)

Loss(m) == matrix[m[1]][m[2]] - matrix[m[1]][columns[m[1]]]
MovesOver ==
    {m \in Rows \X Cols :
        /\ WordPairOf(columns[m[1]]) = Fullest /\ matrix[m[1]][columns[m[1]]] < Big
        /\ Load(WordPairOf(m[2])) < Quota /\ m[2] \notin Entries(columns)
        /\ matrix[m[1]][m[2]] < Big /\ Loss(m) <= task.congestion}
TakenFirst(m, o) ==
    \/ Loss(m) < Loss(o)
    \/ Loss(m) = Loss(o) /\ (m[1] < o[1] \/ (m[1] = o[1] /\ m[2] <= o[2]))

Rebalance ==
    /\ stage = "rebalance"
    /\ IF Load(Fullest) <= Quota \/ MovesOver = {}
       THEN stage' = "detect" /\ columns' = columns
       ELSE /\ \E m \in {m \in MovesOver : \A o \in MovesOver : TakenFirst(m, o)} :
                  columns' = [columns EXCEPT ![m[1]] = m[2]]
            /\ stage' = stage
    /\ UNCHANGED <<callVars, loopVars, resultVars, hungarianVars>>

----------------------------------------------------------------------------
(***************************************************************************)
(* Who is in the way of the targets.                                       *)
(***************************************************************************)

\* Case A: who stands where an atom of a pair shall go.
OnTargets(found) == {q \in Standing : \E p \in PairQubits \cap DOMAIN found : found[p] = config[q]}

\* Case B: who stands around an atom of a pair that has no way out.
Hemming(p) ==
    LET exits == Exits[arch][config[p]]
    IN  IF \E out \in exits : At(config, out) = {} THEN {}
        ELSE {q \in Standing : config[q] \in exits /\ \A o \in At(config, config[q]) : q <= o}

\* Case D: who is a partner of another bystander.  With partners that are mutual
\* the record of the places seen makes no difference.
PartneredNow == UNION {{e[1], e[2]} : e \in {e \in Standing \X Standing : config[e[2]] \in CzPartner(arch, config[e[1]])}}

\* Case E: who will be, since the targets lead an atom in the way beside it.
\* Plausible bug: the case is forgotten.
PartneredNever(found) == {}
PartneredThen(found) ==
    {q \in Standing : \E s \in DOMAIN found \ PairQubits : config[q] \in CzPartner(arch, found[s])}

\* Cases D and E are of the layer that is placed, not of layers to come.
InTheWay(found) ==
    LET now == Layer = 1
        ab == OnTargets(found) \cup UNION {Hemming(p) : p \in PairQubits \cap DOMAIN config}
        d == IF now THEN PartneredNow \ ab ELSE {}
        e == IF now THEN PartneredThen(found) \ (ab \cup d) ELSE {}
    IN  InOrder(ab, <) \o InOrder(d, <) \o InOrder(e, <)

\* Rows beyond the slots are left out when the next iteration begins, the latest first.
Fitting(atoms) ==
    LET room == Len(slots) - Len(ValidPairs)
    IN  IF Len(atoms) <= room THEN atoms ELSE SubSeq(atoms, 1, room)

\* ordered_pairs of the repair.
Lowest(p) == IF p[1] < p[2] THEN p[1] ELSE p[2]
Ordered(p, q) ==
    \/ Lowest(p) < Lowest(q)
    \/ Lowest(p) = Lowest(q) /\ (p[1] < q[1] \/ (p[1] = q[1] /\ p[2] < q[2]))

\* finalize_assignment_targets.
Finish(found, agreed) ==
    /\ targets' = found /\ original' = found /\ converged' = agreed
    /\ IF Len(pairs) < 2 \/ found = << >>
       THEN Deliver(found) /\ waiting' = << >>
       ELSE /\ waiting' = InOrder(Entries(pairs), Ordered) /\ stage' = "repair"
            /\ UNCHANGED callVars

Detect ==
    /\ stage = "detect"
    /\ LET found == TargetsOf(RowsWith(blockers))
           new == InTheWay(found)
       IN  IF new = << >> \/ iteration = MaxIterations
           THEN Finish(found, new = << >>) /\ UNCHANGED loopVars
           ELSE /\ blockers' = Fitting(blockers \o new) /\ iteration' = iteration + 1
                /\ stage' = "iterate"
                /\ UNCHANGED <<callVars, resultVars>>
    /\ UNCHANGED <<columns, hungarianVars>>

----------------------------------------------------------------------------
(***************************************************************************)
(* repair_pair_separation, a pair at a time: it goes to the cheapest slot  *)
(* that no other pair has and that makes all pairs apart.                  *)
(***************************************************************************)
SlotWith(p) == {j \in DOMAIN slots : Entries(p) \subseteq DOMAIN targets /\ {targets[p[1]], targets[p[2]]} = Entries(slots[j])}

Involved(p) ==
    /\ Entries(p) \subseteq DOMAIN targets
    /\ \E o \in Entries(pairs) : /\ Entries(o) # Entries(p) /\ Entries(o) \subseteq DOMAIN targets
                                 /\ ~ PairsApart(arch, targets, p, o)

Led(p, way) == [q \in DOMAIN targets |-> IF q = p[1] THEN way[1] ELSE IF q = p[2] THEN way[2] ELSE targets[q]]

\* The slots that are left, either way round: <<slot, way>>.
Alternatives(p) ==
    LET taken == UNION {SlotWith(o) : o \in Entries(pairs)}
    IN  {alt \in (DOMAIN slots) \X {1, 2} : alt[1] \notin taken /\ Entries(slots[alt[1]]) \cap task.blocked = {}}
WayOf(p, alt) == Ways(p, slots[alt[1]])[alt[2]]
Far(p, alt) == HopsFrom(config[p[1]], WayOf(p, alt)[1]) + HopsFrom(config[p[2]], WayOf(p, alt)[2])
TriedFirst(p, alt, other) ==
    \/ Far(p, alt) < Far(p, other)
    \/ Far(p, alt) = Far(p, other) /\ (alt[1] < other[1] \/ (alt[1] = other[1] /\ alt[2] <= other[2]))

\* Plausible bug: an alternative is good when the pair itself is apart from the next one.
SeparatingOne(p) == Alternatives(p)
Separating(p) == {alt \in Alternatives(p) : PairsSeparated(arch, Led(p, WayOf(p, alt)), pairs)}

Repair ==
    /\ stage = "repair" /\ waiting # << >> /\ ~ PairsSeparated(arch, targets, pairs)
    /\ LET p == Head(waiting)
           good == IF Involved(p) THEN Separating(p) ELSE {}
       IN  IF good = {} THEN targets' = targets
           ELSE \E alt \in {alt \in good : \A o \in good : TriedFirst(p, alt, o)} :
                   targets' = Led(p, WayOf(p, alt))
    /\ waiting' = Tail(waiting)
    /\ UNCHANGED <<callVars, stage, loopVars, columns, original, converged, hungarianVars>>

Repaired ==
    /\ stage = "repair" /\ (waiting = << >> \/ PairsSeparated(arch, targets, pairs))
    /\ Deliver(targets)
    /\ UNCHANGED <<loopVars, columns, resultVars, hungarianVars>>

EntanglingNext ==
    \/ Nothing \/ TooMany \/ Begin \/ Iterate \/ Assigning \/ Assigned
    \/ Rebalance \/ Detect \/ Repair \/ Repaired

EntanglingSpec == EntanglingInit /\ [][EntanglingNext]_<<entanglingVars, hungarianVars>>

----------------------------------------------------------------------------
Returned == stage = "returned"
Answer == forward[1]
Left == Moved(task.config, Answer)
HalfOf(at) == {j \in DOMAIN slots : at \in Entries(slots[j])}

\* Whatever the weights, the seed, the rebalancing and the repair do: the pairs
\* that get targets get slots of their own, none of it blocked, and unless one
\* of them was sent elsewhere by the repair, no two atoms have one target.
PairsGetSlots ==
    Returned =>
        LET served == {p \in Entries(task.layers[1]) : Entries(p) \subseteq DOMAIN Answer}
        IN  /\ \A p \in served : <<Answer[p[1]], Answer[p[2]]>> \in Entries(slots) \cup {<<s[2], s[1]>> : s \in Entries(slots)}
            /\ \A p, o \in served : p # o => {Answer[p[1]], Answer[p[2]]} \cap {Answer[o[1]], Answer[o[2]]} = {}
            /\ \A q \in DOMAIN Answer : Answer[q] \notin task.blocked
            /\ targets = original => \A q, r \in DOMAIN Answer : q # r => Answer[q] # Answer[r]

\* When the iterations agree and every row has a place, the targets are a goal:
\* all pairs in slots, and no two other atoms partners by accident, neither those
\* that are sent away nor those that stay.  And unless the repair moved a pair,
\* no pair is sent onto an atom that stays.
TargetsMeetGoal ==
    Returned /\ converged /\ (PairQubits \cup Entries(blockers)) \subseteq DOMAIN Answer =>
        /\ EntanglingGoal(arch, Left, pairs)
        /\ targets = original => \A p \in PairQubits, q \in DOMAIN Left \ PairQubits : Left[p] # Left[q]

\* The repair is worth its step: it either leaves the targets as they are or ends
\* with all pairs apart, and it moves one pair at most.
RepairSeparates ==
    Returned /\ targets # original =>
        /\ PairsSeparated(arch, Answer, pairs)
        /\ \E p \in Entries(pairs) : \A q \in DOMAIN Answer \ Entries(p) : Answer[q] = original[q]

\* The capacity guard returns what the fallback finds.
FallbackReturns == solving # "panicked"

----------------------------------------------------------------------------
(***************************************************************************)
(* PairDistanceHeuristic (primitives/distance.rs), which a search for the  *)
(* same goal is led by, with the least hops to any site of a word.         *)
(***************************************************************************)
Least(S) == CHOOSE n \in S : \A m \in S : n <= m
Most(S) == CHOOSE n \in S : \A m \in S : n >= m
HopsToWord(from, zone, word) == Least({HopsFrom(from, Loc(zone, word, s)) : s \in 1..SitesPerWord(arch)})

\* Plausible bug: the hops of both atoms are added up.
BothOf(m, n) == m + n
\* Both atoms go at the same time.
LongerOf(m, n) == IF m < n THEN n ELSE m
PairEstimate(p, at) ==
    LET words == Entries(WordPairs(arch))
        to(q, wp, h) == HopsToWord(at[q], wp.zone, wp.words[h])
    IN  Least({LongerOf(to(p[1], wp, h), to(p[2], wp, 3 - h)) : wp \in words, h \in {1, 2}})
EstimateMax(at, layer) == Most({0} \cup {PairEstimate(p, at) : p \in Entries(layer)})

\* The heuristic is a lower bound: the atom with the longest way to its target has
\* as many hops to go at least, whatever slot it was given, and none is left where
\* the targets lead.
EstimateIsLow ==
    LET placed == task.layers[1]
    IN  Returned /\ placed # << >> /\ (\A p \in Entries(placed) : Entries(p) \subseteq DOMAIN Answer) =>
           /\ EstimateMax(task.config, placed)
                <= Most({HopsFrom(task.config[q], Answer[q]) : q \in PairQubits})
           /\ EstimateMax(Left, placed) = 0
=============================================================================
