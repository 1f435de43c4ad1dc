--------------------------- MODULE ReturnLayouts ---------------------------
(***************************************************************************)
(* Where atoms go home to when they need not go back to where they came    *)
(* from (candidate_return_layouts and nearest_home_layout in               *)
(* crates/bloqade-lanes-search/src/placement/nohome.rs).                   *)
(*                                                                         *)
(* The atoms outside the home words are the rows of a cost matrix and the  *)
(* free home sites its columns; only the best few sites of each atom have  *)
(* a price.  Hungarian gives the first layout, and one more for each of    *)
(* the bus signatures that most atoms could use on their way, whose edges  *)
(* get a reward.  A nearest-home assignment stands in when there are too   *)
(* few sites.                                                              *)
(*                                                                         *)
(* The solver of Entangling is used again: a behaviour is a call of the    *)
(* one or of the other.  Scores are integers: `unit` is the price of a     *)
(* hop and `weights` that of a hop between partners, by how far ahead      *)
(* their layer is (lambda_lookahead times a power of gamma).               *)
(***************************************************************************)
EXTENDS Entangling
LOCAL INSTANCE SequencesExt

CONSTANT Returns   \* the calls that are considered

(***************************************************************************)
(* A call has an architecture, a configuration and blocked places, as a    *)
(* task has; the pairs of the layers to come; how many sites of an atom    *)
(* and how many signatures count; and the reward of a signature, in hops.  *)
(***************************************************************************)
ASSUME ReturnsAssumption ==
    \A r \in Returns :
        /\ r.arch \in Archs /\ r.unit \in Nat \ {0} /\ r.kept \in Nat /\ r.top \in Nat /\ r.rho \in Nat
        /\ DOMAIN r.config \in SUBSET Nat /\ IsFiniteSet(DOMAIN r.config)
        /\ r.config \in [DOMAIN r.config -> AllLocations(r.arch)]
        /\ \A p, q \in DOMAIN r.config : p # q => r.config[p] # r.config[q]
        /\ r.layers \in Seq(Seq(Nat \X Nat)) /\ r.weights \in [DOMAIN r.layers -> Nat]

(***************************************************************************)
(* What a whole layout costs is less than large_cost (10^9, with 1000 to   *)
(* the hop), which stands for no price.  A price is that of at most so     *)
(* many hops as there are places, and of as many again from the site to    *)
(* every other atom for each of its gates; the heaviest layer counts for   *)
(* all.  The code takes this for granted and does not check it.            *)
(***************************************************************************)
Dearest(r, pull) ==
    LET atoms == Cardinality(DOMAIN r.config)
        hops == Cardinality(AllLocations(r.arch))
    IN  atoms * (r.unit * hops + atoms * ((Len(r.layers) * pull) * hops))
ASSUME PricesAssumption ==
    /\ 2 * Big < Inf
    /\ \A r \in Returns : \A pull \in {r.weights[d] * Len(r.layers[d]) : d \in DOMAIN r.layers} \cup {0} :
          Dearest(r, pull) < Big

\* home_sites, and the distances to them.
SitesOf(a, words) ==
    FlattenSeq([i \in DOMAIN words |-> [s \in 1..SitesPerWord(a) |-> Loc(WordZone(a, words[i]), words[i], s)]])
HomeSites(a) == SitesOf(a, InOrder(HomeWords(a), <))
Homes == [a \in Archs |-> HomeSites(a)]
HomeHops == [a \in Archs |-> [home \in Entries(Homes[a]) |-> HopsTo(a, home)]]

(***************************************************************************)
(* find_path_occupied with nothing occupied.  Of the shortest paths, its   *)
(* breadth-first search finds the one whose lanes come first; lanes are    *)
(* ordered as encoded.                                                     *)
(***************************************************************************)
LaneKey(lane) ==
    << IF lane.dir = "forward" THEN 0 ELSE 1, IF lane.type = "site" THEN 0 ELSE 1,
       lane.zone, lane.bus, lane.word, lane.site >>
EncodedBefore(l, m) ==
    \E i \in 1..6 : /\ LaneKey(l)[i] < LaneKey(m)[i]
                    /\ \A j \in 1..(i - 1) : LaneKey(l)[j] = LaneKey(m)[j]
Foremost(lanes) == CHOOSE l \in lanes : \A m \in lanes \ {l} : EncodedBefore(l, m)
FirstLane(a, from, hops) ==
    Foremost({l \in IndexedLanes(a) : LET ends == EndsOf(a, l)
                                      IN  ends[1] = from /\ hops[ends[2]] = hops[from] - 1})

\* The signature of a lane names no zone.
Signature(lane) == <<lane.type, lane.bus, lane.dir>>
SignaturesOnWay(a, from, hops) ==
    LET lane[k \in 1..hops[from]] ==
            FirstLane(a, IF k = 1 THEN from ELSE EndsOf(a, lane[k - 1])[2], hops)
    IN  IF hops[from] >= Big THEN {} ELSE {Signature(lane[k]) : k \in 1..hops[from]}
Signatures == [a \in Archs |-> [home \in Entries(Homes[a]) |->
                  [from \in AllLocations(a) |-> SignaturesOnWay(a, from, HomeHops[a][home])]]]

----------------------------------------------------------------------------
VARIABLES edges,      \* of every row the sites that have a price, as positions among the holes
          prices,     \* the cost matrix without rewards
          assignments,
          signatures, \* that have yet to be rewarded
          layouts

layoutVars == <<edges, prices, assignments, signatures, layouts>>

home == Entries(Homes[arch])
Ascending(S) == InOrder(S, <)
Returners == Ascending({q \in DOMAIN config : config[q] \notin home})

\* Plausible bug: sites that are occupied count as free.
HolesTaken == OnlyAt(Homes[arch], {i \in DOMAIN Homes[arch] : Homes[arch][i] \notin task.blocked})
Holes ==
    OnlyAt(Homes[arch], {i \in DOMAIN Homes[arch] : At(config, Homes[arch][i]) = {} /\ Homes[arch][i] \notin task.blocked})

HopsHome(from, at) == HomeHops[arch][at][from]

\* build_full_layout.
LayoutOf(given) == [q \in DOMAIN config |-> IF q \in DOMAIN given THEN given[q] ELSE config[q]]

\* nearest_home_layout.  swap_remove puts the last site in the place of the one
\* that is taken, and the first of the nearest is taken.
SwapRemoved(sites, i) ==
    [j \in 1..(Len(sites) - 1) |-> IF j = i THEN sites[Len(sites)] ELSE sites[j]]
FirstLeast(far) == CHOOSE i \in DOMAIN far : \A j \in DOMAIN far : far[i] < far[j] \/ (far[i] = far[j] /\ i <= j)
NearestTo(from, sites) == FirstLeast([i \in DOMAIN sites |-> HopsHome(from, sites[i])])
NearestHome(rows, sites) ==
    LET served == Lower(Len(rows), Len(sites))
        after[i \in 0..served] ==
            IF i = 0 THEN [left |-> sites, given |-> << >>]
            ELSE LET before == after[i - 1]
                     n == NearestTo(config[rows[i]], before.left)
                 IN  [left |-> SwapRemoved(before.left, n), given |-> Append(before.given, before.left[n])]
    IN  [q \in {rows[i] : i \in 1..served} |->
           after[served].given[CHOOSE i \in 1..served : rows[i] = q]]

\* The places the partners are expected at.
Expected(greedy) ==
    [q \in {p \in DOMAIN config : config[p] \in home} \cup DOMAIN greedy |->
        IF q \in DOMAIN greedy THEN greedy[q] ELSE config[q]]

\* partner_weights, and the score of a site.  (The operator that FoldFunction takes is
\* beyond the provers.)
Total(f) ==
    LET sum[S \in SUBSET DOMAIN f] ==
            IF S = {} THEN 0 ELSE LET x == CHOOSE x \in S : TRUE IN f[x] + sum[S \ {x}]
    IN  sum[DOMAIN f]
WeightOf(q, partner) ==
    Total([d \in DOMAIN task.layers |->
              task.weights[d] * Cardinality({i \in DOMAIN task.layers[d] : Entries(task.layers[d][i]) = {q, partner}})])
Drawn(weight, hops) == IF hops >= Big THEN 0 ELSE weight * hops
Ahead(q, at, expected) ==
    Total([p \in DOMAIN expected \ {q} |-> Drawn(WeightOf(q, p), HopsHome(at, expected[p]))])
SiteScore(q, at, expected) == task.unit * HopsHome(config[q], at) + Ahead(q, at, expected)

\* The best sites that can be reached, by a stable sort.
BestFirst(sites, score) ==
    LET before(i, j) == score[i] < score[j] \/ (score[i] = score[j] /\ i < j)
    IN  InOrder(sites, before)
EdgesOf(q, expected) ==
    LET ranked == BestFirst({i \in DOMAIN Holes : HopsHome(config[q], Holes[i]) < Big},
                            [i \in DOMAIN Holes |-> SiteScore(q, Holes[i], expected)])
    IN  SubSeq(ranked, 1, Lower(task.kept, Len(ranked)))

----------------------------------------------------------------------------
(***************************************************************************)
(* The call.                                                               *)
(***************************************************************************)
LayoutsIdle == edges = << >> /\ prices = << >> /\ assignments = << >> /\ signatures = << >> /\ layouts = << >>

ReturnInit ==
    /\ task \in Returns
    /\ config = task.config /\ stage = "return"
    /\ turn = 1 /\ forward = << >> /\ blockers = << >> /\ iteration = 0 /\ columns = << >>
    /\ targets = << >> /\ original = << >> /\ converged = TRUE /\ waiting = << >>
    /\ HungarianIdle
    /\ LayoutsIdle

\* The columns are the sites any row has an edge to, in their order.
ActiveOf(found) == Ascending(UNION {Entries(found[i]) : i \in DOMAIN found})
Active == ActiveOf(edges)

BaseCost(found, active, expected) ==
    [i \in DOMAIN found |->
        [j \in DOMAIN active |->
            IF active[j] \in Entries(found[i])
            THEN SiteScore(Returners[i], Holes[active[j]], expected) ELSE Big]]

\* The signatures each row could use, and those that most could use first.
UsedBy(found) ==
    [i \in DOMAIN found |->
        UNION {Signatures[arch][Holes[h]][config[Returners[i]]] : h \in Entries(found[i])}]
Coverage(signature, used) == Cardinality({i \in DOMAIN used : signature \in used[i]})
SignatureKey(s, used) ==
    << -Coverage(s, used), IF s[1] = "site" THEN 0 ELSE 1, s[2], IF s[3] = "forward" THEN 0 ELSE 1 >>
Ranked(used) ==
    LET before(s, t) ==
            \E i \in 1..4 : /\ SignatureKey(s, used)[i] < SignatureKey(t, used)[i]
                            /\ \A j \in 1..(i - 1) : SignatureKey(s, used)[j] = SignatureKey(t, used)[j]
        ranked == InOrder(UNION Entries(used), before)
    IN  IF task.rho = 0 THEN << >> ELSE SubSeq(ranked, 1, Lower(task.top, Len(ranked)))

Greedy == NearestHome(Returners, Holes)

\* Nobody to bring home, too few sites, or too few that have a price.
LayOutNearest ==
    /\ stage = "return"
    /\ \E found \in {[i \in DOMAIN Returners |-> EdgesOf(Returners[i], Expected(Greedy))]} :
          Returners = << >> \/ Len(Holes) < Len(Returners) \/ Len(ActiveOf(found)) < Len(Returners)
    /\ layouts' = <<LayoutOf(Greedy)>>
    /\ stage' = "laid out"
    /\ UNCHANGED <<callVars, loopVars, columns, resultVars, hungarianVars, edges, prices, assignments, signatures>>

LayOut ==
    /\ stage = "return" /\ Returners # << >> /\ Len(Holes) >= Len(Returners)
    /\ \E expected \in {Expected(Greedy)} :
         \E found \in {[i \in DOMAIN Returners |-> EdgesOf(Returners[i], expected)]} :
            /\ Len(ActiveOf(found)) >= Len(Returners)
            /\ edges' = found
            /\ \E used \in {UsedBy(found)} : signatures' = Ranked(used)
            /\ prices' = BaseCost(found, ActiveOf(found), expected)
            /\ Assign(prices')
    /\ stage' = "returning"
    /\ UNCHANGED <<callVars, loopVars, columns, resultVars, assignments, layouts>>

LayingOut ==
    /\ stage = "returning" /\ HungarianNext
    /\ UNCHANGED <<entanglingVars, layoutVars>>

\* The prices, with a reward for the edges that use a signature.
Rewarded(signature) ==
    [i \in DOMAIN edges |->
        [j \in DOMAIN Active |->
            IF /\ Active[j] \in Entries(edges[i])
               /\ signature \in Signatures[arch][Holes[Active[j]]][config[Returners[i]]]
            THEN IF prices[i][j] < task.rho * task.unit THEN 0 ELSE prices[i][j] - task.rho * task.unit
            ELSE prices[i][j]]]

Gathered == IF ColumnOf \in Entries(assignments) THEN assignments ELSE Append(assignments, ColumnOf)

LayOutNext ==
    /\ stage = "returning" /\ solving = "assigned" /\ signatures # << >>
    /\ assignments' = Gathered
    /\ \E m \in {Rewarded(Head(signatures))} : Assign(m)
    /\ signatures' = Tail(signatures)
    /\ UNCHANGED <<entanglingVars, edges, prices, layouts>>

LaidOut ==
    /\ stage = "returning" /\ solving = "assigned" /\ signatures = << >>
    /\ assignments' = Gathered
    /\ layouts' = [k \in DOMAIN Gathered |->
                      LayoutOf([q \in Entries(Returners) |->
                                  Holes[Active[Gathered[k][CHOOSE i \in DOMAIN Returners : Returners[i] = q]]]])]
    /\ stage' = "laid out"
    /\ UNCHANGED <<callVars, loopVars, columns, resultVars, hungarianVars, edges, prices, signatures>>

ReturnNext == LayOutNearest \/ LayOut \/ LayingOut \/ LayOutNext \/ LaidOut

TargetsInit == ReturnInit \/ (EntanglingInit /\ LayoutsIdle)
TargetsNext == ReturnNext \/ (EntanglingNext /\ UNCHANGED layoutVars)
TargetsSpec == TargetsInit /\ [][TargetsNext]_<<entanglingVars, hungarianVars, layoutVars>>

----------------------------------------------------------------------------
OwnPlaces(layout) == \A p, q \in DOMAIN layout : p # q => layout[p] # layout[q]
ComesHome(layout) ==
    /\ OwnPlaces(layout)
    /\ \A q \in DOMAIN config : config[q] \in home => layout[q] = config[q]
    /\ Len(Holes) >= Len(Returners) => \A q \in Entries(Returners) : layout[q] \in home \ task.blocked

\* The rows can have sites of their own that have a price, and do.
SitesSuffice ==
    \E f \in [DOMAIN edges -> UNION {Entries(edges[i]) : i \in DOMAIN edges}] :
        /\ \A i \in DOMAIN edges : f[i] \in Entries(edges[i])
        /\ \A i, j \in DOMAIN edges : i # j => f[i] # f[j]
Priced(layout) == \A i \in DOMAIN edges : layout[Returners[i]] \in {Holes[h] : h \in Entries(edges[i])}

\* Every layout is one the atoms can be in.  With enough free sites it brings all
\* of them home, none onto a blocked site, and no atom that is home has to move.
\* When the sites that have a price suffice for all, no layout sends an atom to a
\* site without one, which may be out of its reach, not even for the reward.
ReturnsReachHome ==
    stage = "laid out" =>
        \A k \in DOMAIN layouts : ComesHome(layouts[k]) /\ (SitesSuffice => Priced(layouts[k]))
=============================================================================
