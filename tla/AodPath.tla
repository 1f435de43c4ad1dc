------------------------------ MODULE AodPath ------------------------------
(***************************************************************************)
(* The way a bus takes (_enumerate_safe_positions, _search_path and        *)
(* _merge_collinear of ZoneBuilder in                                      *)
(* python/bloqade/lanes/arch/build/imperative.py): one path for its        *)
(* reference atom, along the axes and around the grid points where atoms   *)
(* may sit, that all of its atoms follow with one displacement.            *)
(*                                                                         *)
(* A zone `g` is a record: the positions `xs` and `ys` of its grid and the *)
(* clearances `dx` and `dy`.  `src` and `dst` are where the reference atom *)
(* begins and ends, `atoms` the sources of the bus, and a position is a    *)
(* pair of integers.                                                       *)
(***************************************************************************)
EXTENDS Integers, Sequences, FiniteSets

LOCAL INSTANCE SequencesExt

InSeq(s) == {s[i] : i \in DOMAIN s}
Gap(m, n) == IF m <= n THEN n - m ELSE m - n
Smallest(S) == CHOOSE m \in S : \A n \in S : m <= n
Largest(S) == CHOOSE m \in S : \A n \in S : n <= m
Strictly(low, n, high) == (low < n /\ n < high) \/ (high < n /\ n < low)

\* _enumerate_safe_positions, on one axis: between two lines of the grid or
\* beside it, and from every line as far away as the clearance asks.
SafePositions(grid, offsets, clearance) ==
    LET lines == InSeq(grid)
        sorted == {p \in lines \X lines : p[1] < p[2] /\ \A n \in lines : ~ Strictly(p[1], n, p[2])}
        candidates == {((p[1] + p[2]) \div 2) - off : p \in sorted, off \in offsets}
                      \cup {Smallest(lines) - off - clearance : off \in offsets}
                      \cup {Largest(lines) - off + clearance : off \in offsets}
    IN  {c \in candidates : \A off \in offsets, l \in lines : Gap(c + off, l) >= clearance}

\* Plausible bug: only the reference atom is looked after.
ReferenceOnly(atoms, src) == {<<0, 0>>}

Offsets(atoms, src) == {<<p[1] - src[1], p[2] - src[2]>> : p \in atoms}

\* Some atom of the bus is over a grid point strictly inside a move along an
\* axis: the blockers of an edge, and _segment_safe.
Crossed(g, offsets, from, to) ==
    \E off \in offsets :
        IF from[2] = to[2]
        THEN /\ from[2] + off[2] \in InSeq(g.ys)
             /\ \E x \in InSeq(g.xs) : Strictly(from[1] + off[1], x, to[1] + off[1])
        ELSE /\ from[1] + off[1] \in InSeq(g.xs)
             /\ \E y \in InSeq(g.ys) : Strictly(from[2] + off[2], y, to[2] + off[2])

\* The nodes of the position graph.
Nodes(g, offsets, src, dst) ==
    LET xs == SafePositions(g.xs, {off[1] : off \in offsets}, g.dx)
        ys == SafePositions(g.ys, {off[2] : off \in offsets}, g.dy)
    IN  {p \in (xs \cup {src[1], dst[1]}) \X (ys \cup {src[2], dst[2]}) :
            p \in {src, dst} \/ p[1] \in xs \/ p[2] \in ys}

Between(p, q, r) ==
    \/ p[2] = q[2] /\ r[2] = p[2] /\ Strictly(p[1], r[1], q[1])
    \/ p[1] = q[1] /\ r[1] = p[1] /\ Strictly(p[2], r[2], q[2])

\* Neighbours in a row or in a column, without a blocker in between, both ways.
Adjacent(S) == {p \in S \X S : p[1] < p[2] /\ \A n \in S : ~ Strictly(p[1], n, p[2])}
Edges(g, offsets, nodes) ==
    LET inRow(y) == {p[1] : p \in {q \in nodes : q[2] = y}}
        inColumn(x) == {p[2] : p \in {q \in nodes : q[1] = x}}
        along == UNION {{<<<<e[1], y>>, <<e[2], y>>>> : e \in Adjacent(inRow(y))} : y \in {p[2] : p \in nodes}}
        across == UNION {{<<<<x, e[1]>>, <<x, e[2]>>>> : e \in Adjacent(inColumn(x))} : x \in {p[1] : p \in nodes}}
        clear == {e \in along \cup across : ~ Crossed(g, offsets, e[1], e[2])}
    IN  clear \cup {<<e[2], e[1]>> : e \in clear}
Length(e) == Gap(e[1][1], e[2][1]) + Gap(e[1][2], e[2][2])

\* The distances from src, for the nodes that can be reached: round by round,
\* over one more edge.
Relaxed(edges, dist) ==
    LET reached == DOMAIN dist
        into(n) == {dist[e[1]] + Length(e) : e \in {f \in edges : f[2] = n /\ f[1] \in reached}}
        nodes == reached \cup {e[2] : e \in {f \in edges : f[1] \in reached}}
    IN  [n \in nodes |-> Smallest(into(n) \cup {d \in {IF n \in reached THEN dist[n] ELSE -1} : d >= 0})]
Distances(edges, nodes, src) ==
    LET after[n \in Nat] ==
          IF n = 0 THEN [dist |-> [s \in {src} |-> 0], settled |-> FALSE]
          ELSE LET last == after[n - 1]
                   closer == Relaxed(edges, last.dist)
               IN  IF last.settled THEN last ELSE [dist |-> closer, settled |-> closer = last.dist]
    IN  after[Cardinality(nodes)].dist

\* The ways on which a shortest path to the first node of `way` arrives there.
Lengthened(edges, dist, way) ==
    IF dist[way[1]] = 0 THEN {way}
    ELSE {Cons(e[1], way) : e \in {f \in edges : f[2] = way[1] /\ f[1] \in DOMAIN dist
                                                /\ dist[f[1]] + Length(f) = dist[f[2]]}}
ShortestTo(edges, dist, dst) ==
    LET ways[n \in Nat] ==
          IF n = 0 THEN {<<dst>>} ELSE UNION {Lengthened(edges, dist, way) : way \in ways[n - 1]}
    IN  ways[Cardinality(DOMAIN dist)]

\* _merge_collinear: from a point as far along the axis of the next step as
\* every segment on the way is clear.
Farthest(g, offsets, path, i) ==
    LET axis == IF path[i + 1][2] = path[i][2] THEN 2 ELSE 1
    IN  Largest({k \in (i + 1)..Len(path) :
                   \A m \in (i + 2)..k : /\ path[m][axis] = path[i][axis]
                                         /\ ~ Crossed(g, offsets, path[i], path[m])})
Merged(g, offsets, path) ==
    LET stops[n \in Nat] ==
          IF n = 0 THEN <<1>>
          ELSE LET so == stops[n - 1]
                   i == so[Len(so)]
               IN  IF i = Len(path) THEN so ELSE Append(so, Farthest(g, offsets, path, i))
        corners == stops[Len(path)]
    IN  [k \in DOMAIN corners |-> path[corners[k]]]

\* _search_path: dijkstra_shortest_paths returns some shortest path.
SearchPath(g, src, dst, atoms) ==
    LET offsets == Offsets(atoms, src)
        nodes == Nodes(g, offsets, src, dst)
        edges == Edges(g, offsets, nodes)
        dist == Distances(edges, nodes, src)
    IN  IF src = dst THEN {<<src, dst>>}
        ELSE IF dst \notin DOMAIN dist THEN {}
        ELSE {Merged(g, offsets, path) : path \in ShortestTo(edges, dist, dst)}
=============================================================================
