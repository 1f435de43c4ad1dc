------------------------------ MODULE AodGrid ------------------------------
(***************************************************************************)
(* The grids one shot of the AOD can move (BusGridContext in               *)
(* crates/bloqade-lanes-search/src/ops/aod_grid.rs): the moves chosen for  *)
(* the atoms of a bus are packed into complete rectangles of the bus's     *)
(* source positions, first greedily, then by merging pairs.                *)
(*                                                                         *)
(* One action handles one entry, or one pair of clusters.  `call` holds    *)
(* the bus, which is BusGridContext, and the entries to pack.  A lane is   *)
(* named by its source, a location is a number, in the order of its        *)
(* encoding, and a position is a pair of coordinates.                      *)
(***************************************************************************)
EXTENDS Naturals, Sequences, FiniteSets

CONSTANTS Locations,
          Calls   \* the calls of build_aod_grids that are considered

ASSUME GridAssumption ==
    /\ Locations \subseteq Nat /\ IsFiniteSet(Locations)
    /\ \A c \in Calls :
         /\ c.sources \subseteq Locations
         /\ c.dest \in [c.sources -> Locations]
         /\ c.position \in [Locations -> Nat \X Nat]
         /\ c.occupied \subseteq Locations
         /\ c.entries \subseteq c.sources \cap c.occupied

VARIABLES call,
          phase,      \* "greedy", "merge" or "done"
          remaining,  \* the entries of this round that were not looked at
          leftover,   \* the entries left for the next round
          rect,       \* the rectangle that is growing, [xs, ys]
          clusters,
          pair,       \* the pair merge_clusters tries next
          consumed,   \* the clusters that another one has absorbed in this pass
          merged,     \* the clusters that took part in a merge of this pass
          solved

vars == <<call, phase, remaining, leftover, rect, clusters, pair, consumed, merged, solved>>

NoRect == [xs |-> {}, ys |-> {}]
At(l) == call.position[l]

\* The entries in the order of their sources.
Ordered(S) == CHOOSE s \in [1..Cardinality(S) -> S] : \A i, j \in DOMAIN s : i < j => s[i] < s[j]

----------------------------------------------------------------------------
\* The sources of the bus in a rectangle: pos_to_src and rect_to_lanes.
SourcesIn(r) == {l \in call.sources : At(l)[1] \in r.xs /\ At(l)[2] \in r.ys}

\* Plausible bug: an atom that moves, in this rectangle or not, frees its place.
ClearedByAny(r, l) ==
    /\ l \in call.entries \/ l \notin call.occupied
    /\ call.dest[l] \in call.occupied => call.dest[l] \in call.entries

\* A lane of a rectangle: it carries a chosen atom or nothing, to a place that
\* is free or that an atom of the same rectangle leaves.
Cleared(r, l) ==
    /\ l \in call.entries \/ l \notin call.occupied
    /\ call.dest[l] \in call.occupied => call.dest[l] \in call.entries \cap SourcesIn(r)

\* Plausible bug: a rectangle may have places without a source.
ValidSparse(r) == \A l \in SourcesIn(r) : Cleared(r, l)

\* is_valid_rect.
ValidRect(r) ==
    /\ \A x \in r.xs, y \in r.ys : \E l \in call.sources : At(l) = <<x, y>>
    /\ \A l \in SourcesIn(r) : Cleared(r, l)

Union(r, s) == [xs |-> r.xs \cup s.xs, ys |-> r.ys \cup s.ys]
Point(l) == [xs |-> {At(l)[1]}, ys |-> {At(l)[2]}]

----------------------------------------------------------------------------
Init ==
    /\ call \in Calls
    /\ phase = IF call.entries = {} THEN "done" ELSE "greedy"
    /\ remaining = Ordered(call.entries) /\ leftover = << >> /\ rect = NoRect
    /\ clusters = << >> /\ pair = <<1, 2>> /\ consumed = {} /\ merged = {} /\ solved = << >>

(***************************************************************************)
(* greedy_init: a round grows one rectangle, and leaves the entries that   *)
(* do not fit to the next one.                                             *)
(***************************************************************************)

\* Plausible bug: an entry that does not fit is not looked at again.
Forgotten(l) == leftover
LeftOver(l) == Append(leftover, l)

\* Plausible bug: a rectangle grows along one axis at a time.
FitsOnAxis(r) == ValidRect(r) /\ (rect = NoRect \/ r.xs = rect.xs \/ r.ys = rect.ys)
Fits(r) == ValidRect(r)

Grow ==
    /\ phase = "greedy" /\ remaining # << >>
    /\ LET l == Head(remaining)
           larger == Union(rect, Point(l))
       IN  /\ remaining' = Tail(remaining)
           /\ IF l \in SourcesIn(rect) THEN UNCHANGED <<rect, leftover>>
              ELSE IF Fits(larger) THEN rect' = larger /\ UNCHANGED leftover
              ELSE leftover' = LeftOver(l) /\ UNCHANGED rect
    /\ UNCHANGED <<call, phase, clusters, pair, consumed, merged, solved>>

\* The end of a round; one that placed nothing is the last.
EndRound ==
    /\ phase = "greedy" /\ remaining = << >>
    /\ IF rect = NoRect THEN clusters' = clusters ELSE clusters' = Append(clusters, rect)
    /\ phase' = IF rect = NoRect \/ leftover = << >> THEN "merge" ELSE "greedy"
    /\ remaining' = leftover /\ leftover' = << >> /\ rect' = NoRect
    /\ UNCHANGED <<call, pair, consumed, merged, solved>>

----------------------------------------------------------------------------
(***************************************************************************)
(* merge_clusters: a pass tries every pair of clusters.                    *)
(***************************************************************************)
NextPair ==
    IF pair[2] < Len(clusters) THEN <<pair[1], pair[2] + 1>> ELSE <<pair[1] + 1, pair[1] + 2>>

TryPair ==
    /\ phase = "merge" /\ pair[2] <= Len(clusters)
    /\ LET i == pair[1]
           j == pair[2]
           union == Union(clusters[i], clusters[j])
       IN  IF {i, j} \cap consumed = {} /\ ValidRect(union)
           THEN /\ clusters' = [clusters EXCEPT ![i] = union]
                /\ consumed' = consumed \cup {j}
                /\ merged' = merged \cup {i, j}
           ELSE UNCHANGED <<clusters, consumed, merged>>
    /\ pair' = NextPair
    /\ UNCHANGED <<call, phase, remaining, leftover, rect, solved>>

ClustersOf(S) ==
    LET chosen == Ordered(S) IN [k \in 1..Cardinality(S) |-> clusters[chosen[k]]]

PromoteLoners == solved \o ClustersOf((1..Len(clusters)) \ merged)

\* The end of a pass: those that merged are tried again, the others are solved.
EndPass ==
    /\ phase = "merge" /\ pair[2] > Len(clusters)
    /\ IF merged = {}
       THEN /\ solved' = solved \o ClustersOf((1..Len(clusters)) \ consumed)
            /\ clusters' = << >> /\ phase' = "done"
       ELSE /\ solved' = PromoteLoners
            /\ clusters' = ClustersOf(merged \ consumed) /\ phase' = phase
    /\ pair' = <<1, 2>> /\ consumed' = {} /\ merged' = {}
    /\ UNCHANGED <<call, remaining, leftover, rect>>

Next == Grow \/ EndRound \/ TryPair \/ EndPass
Spec == Init /\ [][Next]_vars

----------------------------------------------------------------------------
Grids == {solved[k] : k \in 1..Len(solved)}

\* Where the shot of a grid puts the atoms that were at a location.
Shot(r, l) == IF l \in SourcesIn(r) THEN call.dest[l] ELSE l

\* A shot moves the atoms it was asked to move, and no other, and no two atoms
\* are at one place after it: provided the bus leads to no place twice.
LeadsApart == \A l, m \in call.sources : call.dest[l] = call.dest[m] => l = m
GridsSafe ==
    phase = "done" /\ LeadsApart =>
        \A r \in Grids :
            /\ call.occupied \cap SourcesIn(r) \subseteq call.entries
            /\ \A l, m \in call.occupied : Shot(r, l) = Shot(r, m) => l = m

\* No atom that can be moved alone is lost, in a round, a merge or a pass: the
\* grids have a shot for each.
MoversCovered ==
    phase = "done" =>
        \A l \in call.entries : ValidRect(Point(l)) => \E r \in Grids : l \in SourcesIn(r)

\* A bus whose destinations are not sources as well.
OneWay == \A l \in call.sources : call.dest[l] \notin call.sources

\* On such a bus a greedy rectangle can never be enlarged: no two clusters ever
\* merge, so that none is given up too early, and the passes change nothing.
\* (On others they do, and a cluster promoted in one pass might merge later.)
NothingToMerge ==
    OneWay => /\ merged = {}
              /\ phase = "done" =>
                    \A i, j \in 1..Len(solved) :
                        i # j => ~ ValidRect(Union(solved[i], solved[j]))
=============================================================================
