---------------------------- MODULE ArchBuilder ----------------------------
(***************************************************************************)
(* Building an architecture by hand (ZoneBuilder and ArchBuilder in        *)
(* python/bloqade/lanes/arch/build/imperative.py): zones get words, buses  *)
(* and pairs under their own numbers, the architecture numbers the words   *)
(* of the zones it is given one after the other, and build translates.     *)
(* Calls come in any order.  A call that raises leaves everything as it    *)
(* was and is not a step, but for add_entangling_pairs.                    *)
(*                                                                         *)
(* A `job` is what a client may do: the zones, by name, each with a grid,  *)
(* a shape and clearances, and the arguments of the calls, of which it     *)
(* makes at most `limit`.  Lengths are integers (nanometres).              *)
(***************************************************************************)
EXTENDS Arch, AodPath

LOCAL INSTANCE SequencesExt

CONSTANTS Jobs

Buses == [src : Seq(Int), dst : Seq(Int)]
ZoneGrids == [xs : Seq(Int), ys : Seq(Int), shape : Nat \X Nat, clearance : (Nat \ {0}) \X (Nat \ {0})]

\* What the calls may be given: numbers need not name anything, and the checks
\* of the calls say which do (but for connect, to which a negative number names
\* a word from the end, so that none is given here).  ZoneBuilder takes only
\* clearances above zero, and set_blockade_radius only such a radius.
JobOk(j) ==
    LET names == DOMAIN j.zones
        Ends == names \X Seq(Nat \ {0})
    IN  /\ \A z \in names : /\ j.zones[z] \in ZoneGrids
                             /\ j.words[z] \subseteq Seq(Int) \X Seq(Int) \X BOOLEAN
                             /\ j.site_buses[z] \cup j.word_buses[z] \subseteq Buses
        /\ j.pairs \subseteq Seq(Int \X Int) /\ j.radii \subseteq Nat \ {0}
        /\ j.connections \subseteq Ends \X Ends /\ j.modes \subseteq Seq(names)

ASSUME JobsAssumption == \A j \in Jobs : JobOk(j)

VARIABLES job,
          zone,       \* the ZoneBuilders, by name
          registered, \* ArchBuilder._zones: names
          offsets,    \* _word_id_offsets
          total,      \* _total_words
          connections, modes,
          radius,     \* ArchBuilder._blockade_radius
          calls,      \* how many there were
          arch        \* the ArchSpec, once it is built

builderVars == <<job, zone, registered, offsets, total, connections, modes, radius, calls, arch>>

NoRadius == 0
Unbuilt == [zones |-> << >>]

Shape(z) == job.zones[z].shape
Sites(z) == Shape(z)[1] * Shape(z)[2]
Local(z) == DOMAIN zone[z].words

NewZone == [words |-> << >>, hasSiteBus |-> << >>, site_buses |-> << >>, word_buses |-> << >>,
            pairs |-> << >>, radius |-> NoRadius]

BuilderInit ==
    /\ job \in Jobs
    /\ zone = [z \in DOMAIN job.zones |-> NewZone]
    /\ registered = << >> /\ offsets = << >> /\ total = 0 /\ connections = << >> /\ modes = << >>
    /\ radius = NoRadius /\ calls = 0 /\ arch = Unbuilt

Call == arch = Unbuilt /\ calls < job.limit /\ calls' = calls + 1
ZoneCall == Call /\ UNCHANGED <<job, registered, offsets, total, connections, modes, radius, arch>>

----------------------------------------------------------------------------
(***************************************************************************)
(* ZoneBuilder.                                                            *)
(***************************************************************************)

\* _validate_aod_rectangle.
Rectangle(S) == S = {p[1] : p \in S} \X {p[2] : p \in S}

\* The sites of a word: x varies first.
SitesAt(z, xs, ys) ==
    [k \in 1..Sites(z) |-> <<xs[1 + ((k - 1) % Len(xs))], ys[1 + ((k - 1) \div Len(xs))]>>]
Taken(z) == UNION {Entries(zone[z].words[w]) : w \in Local(z)}

AddWord(z, xs, ys, hasSiteBus) ==
    /\ ZoneCall
    /\ <<Len(xs), Len(ys)>> = Shape(z)
    /\ Entries(xs) \subseteq DOMAIN job.zones[z].xs /\ Entries(ys) \subseteq DOMAIN job.zones[z].ys
    /\ Entries(SitesAt(z, xs, ys)) \cap Taken(z) = {}
    /\ zone' = [zone EXCEPT ![z].words = Append(@, SitesAt(z, xs, ys)),
                            ![z].hasSiteBus = Append(@, hasSiteBus)]

\* The place of a site in its word, and of a word: its corner.
InWord(z, s) == <<(s - 1) % Shape(z)[1], (s - 1) \div Shape(z)[1]>>
Corner(z, w) ==
    LET at == Entries(zone[z].words[w])
    IN  <<Smallest({p[1] : p \in at}), Smallest({p[2] : p \in at})>>

Matched(bus, ends) == Len(bus.src) = Len(bus.dst) /\ Entries(bus.src) \cup Entries(bus.dst) \subseteq ends

AddSiteBus(z, bus) ==
    /\ ZoneCall
    /\ Matched(bus, 1..Sites(z))
    /\ Rectangle({InWord(z, s) : s \in Entries(bus.src)})
    /\ Rectangle({InWord(z, s) : s \in Entries(bus.dst)})
    /\ zone' = [zone EXCEPT ![z].site_buses = Append(@, bus)]

AddWordBus(z, bus) ==
    /\ ZoneCall
    /\ Matched(bus, Local(z))
    /\ Rectangle({Corner(z, w) : w \in Entries(bus.src)})
    /\ Rectangle({Corner(z, w) : w \in Entries(bus.dst)})
    /\ zone' = [zone EXCEPT ![z].word_buses = Append(@, bus)]

\* Pairs go in one by one: the first that names no word ends the call with an
\* error, those before it stay, and so does the radius.
AddEntanglingPairs(z, pairs) ==
    /\ ZoneCall
    /\ LET bad == {i \in DOMAIN pairs : ~ (Entries(pairs[i]) \subseteq Local(z))}
           good == IF bad = {} THEN Len(pairs) ELSE Smallest(bad) - 1
       IN  zone' = [zone EXCEPT ![z].pairs = @ \o SubSeq(pairs, 1, good),
                                ![z].radius = IF bad = {} THEN NoRadius ELSE @]

SiteAt(z, w, s) ==
    <<job.zones[z].xs[zone[z].words[w][s][1]], job.zones[z].ys[zone[z].words[w][s][2]]>>
Square(n) == n * n
Within(p, q, r) == Square(p[1] - q[1]) + Square(p[2] - q[2]) <= Square(r)

\* The sites of two words that are within the radius, as pairs of sites.
Close(z, v, w, r) ==
    {p \in (1..Sites(z)) \X (1..Sites(z)) :
        <<v, p[1]>> # <<w, p[2]>> /\ Within(SiteAt(z, v, p[1]), SiteAt(z, w, p[2]), r)}
Blockaded(z, r) == {p \in Local(z) \X Local(z) : p[1] < p[2] /\ Close(z, p[1], p[2], r) # {}}

\* Plausible bug: the scan looks at the first sites of two words only.
ScannedByFirst(z, r) == \A w \in Local(z) : Close(z, w, w, r) = {}
\* _scan_blockade_pairs, when it does not raise: no two sites of one word are
\* within the radius, two words are at all of their sites and at no others, and
\* a word has one partner.
Scanned(z, r) ==
    /\ \A w \in Local(z) : Close(z, w, w, r) = {}
    /\ \A p \in Blockaded(z, r) : Close(z, p[1], p[2], r) = {<<s, s>> : s \in 1..Sites(z)}
    /\ \A p, q \in Blockaded(z, r) : Entries(p) \cap Entries(q) # {} => p = q

Before(p, q) == p[1] < q[1] \/ (p[1] = q[1] /\ p[2] < q[2])
InOrder(S) ==
    CHOOSE s \in [1..Cardinality(S) -> S] : \A i, j \in DOMAIN s : i < j => Before(s[i], s[j])

SetBlockadeRadius(z, r) ==
    /\ ZoneCall /\ Scanned(z, r)
    /\ zone' = [zone EXCEPT ![z].pairs = InOrder(Blockaded(z, r)), ![z].radius = r]

----------------------------------------------------------------------------
(***************************************************************************)
(* ArchBuilder.                                                            *)
(***************************************************************************)
Registered(z) == z \in Entries(registered)
\* The place of a zone in _zones, _zone_name_to_id.
IdOf(z) == CHOOSE i \in DOMAIN registered : registered[i] = z

AddZone(z) ==
    /\ Call /\ ~ Registered(z)
    /\ registered # << >> => Sites(z) = Sites(registered[1])
    /\ registered' = Append(registered, z)
    /\ offsets' = Append(offsets, total)
    /\ total' = total + Len(zone[z].words)
    /\ UNCHANGED <<job, zone, connections, modes, radius, arch>>

\* Each end is a zone and words of it.
Connect(src, dst) ==
    /\ Call
    /\ \A end \in {src, dst} :
          /\ Registered(end[1]) /\ Entries(end[2]) \subseteq Local(end[1])
          /\ Rectangle({Corner(end[1], w) : w \in Entries(end[2])})
    /\ connections' = Append(connections, <<src, dst>>)
    /\ UNCHANGED <<job, zone, registered, offsets, total, modes, radius, arch>>

AddMode(zones) ==
    /\ Call /\ \A z \in Entries(zones) : Registered(z)
    /\ modes' = Append(modes, zones)
    /\ UNCHANGED <<job, zone, registered, offsets, total, connections, radius, arch>>

\* Every zone is scanned before any is changed.
SetEveryRadius(r) ==
    /\ Call /\ \A z \in Entries(registered) : Scanned(z, r)
    /\ zone' = [z \in DOMAIN zone |->
                   IF Registered(z) THEN [zone[z] EXCEPT !.pairs = InOrder(Blockaded(z, r)), !.radius = r]
                   ELSE zone[z]]
    /\ radius' = r
    /\ UNCHANGED <<job, registered, offsets, total, connections, modes, arch>>

----------------------------------------------------------------------------
(***************************************************************************)
(* build.  The ids of a zone's words are its offset and their own number.  *)
(***************************************************************************)

\* Plausible bug: the first zone's numbers are taken for everyone's.
GlobalAsLocal(i, w) == w
Global(i, w) == offsets[i] + w
GlobalAll(i, ws) == [k \in DOMAIN ws |-> Global(i, ws[k])]

BuiltZone(i) ==
    LET z == registered[i]
        b == zone[z]
    IN  [xs |-> job.zones[z].xs, ys |-> job.zones[z].ys,
         site_buses |-> b.site_buses,
         word_buses |-> [k \in DOMAIN b.word_buses |->
                            [src |-> GlobalAll(i, b.word_buses[k].src), dst |-> GlobalAll(i, b.word_buses[k].dst)]],
         words_with_site_buses |-> {Global(i, w) : w \in {v \in Local(z) : b.hasSiteBus[v] /\ b.site_buses # << >>}},
         sites_with_word_buses |-> {s \in 1..Sites(z) : b.word_buses # << >>},
         pairs |-> [k \in DOMAIN b.pairs |-> GlobalAll(i, b.pairs[k])]]

BuiltConnection(c) ==
    LET End(end) == [k \in DOMAIN end[2] |-> <<IdOf(end[1]), Global(IdOf(end[1]), end[2][k])>>]
    IN  [src |-> End(c[1]), dst |-> End(c[2])]

\* The order of a mode's bits: zone by zone, word by word, site by site.
Bits(zones) ==
    FlattenSeq([n \in DOMAIN zones |->
        LET z == zones[n]
        IN  [k \in 1..(Len(zone[z].words) * Sites(z)) |->
                Loc(IdOf(z), Global(IdOf(z), 1 + ((k - 1) \div Sites(z))), 1 + ((k - 1) % Sites(z)))]])

\* The buses that get paths, as <<zone, type, bus>>.
Routes ==
    UNION {{<<i, "site", b>> : b \in DOMAIN zone[registered[i]].site_buses}
           \cup {<<i, "word", b>> : b \in DOMAIN zone[registered[i]].word_buses} : i \in DOMAIN registered}
ZoneOf(route) == registered[route[1]]
BusOf(route) ==
    IF route[2] = "site" THEN zone[ZoneOf(route)].site_buses[route[3]]
    ELSE zone[ZoneOf(route)].word_buses[route[3]]

\* The atoms it may move, as <<word, site>>.
Atoms(route) ==
    IF route[2] = "site" THEN Local(ZoneOf(route)) \X Entries(BusOf(route).src)
    ELSE Entries(BusOf(route).src) \X (1..Sites(ZoneOf(route)))

\* An end of it, at the zone's first word or at every word's first site.
EndAt(route, end) ==
    IF route[2] = "site" THEN SiteAt(ZoneOf(route), 1, end) ELSE SiteAt(ZoneOf(route), end, 1)
Displacements(route) ==
    LET bus == BusOf(route)
    IN  {<<EndAt(route, bus.dst[k])[1] - EndAt(route, bus.src[k])[1],
           EndAt(route, bus.dst[k])[2] - EndAt(route, bus.src[k])[2]>> : k \in DOMAIN bus.src}

\* The ways of its reference atom: none if the displacements differ, or no way
\* is found.
Ways(route) ==
    LET z == job.zones[ZoneOf(route)]
        g == [xs |-> z.xs, ys |-> z.ys, dx |-> z.clearance[1], dy |-> z.clearance[2]]
        bus == BusOf(route)
    IN  IF Cardinality(Displacements(route)) > 1 THEN {}
        ELSE SearchPath(g, EndAt(route, bus.src[1]), EndAt(route, bus.dst[1]),
                        {SiteAt(ZoneOf(route), a[1], a[2]) : a \in Atoms(route)})

\* _apply_deltas: the reference's way, from another atom.
Shifted(way, from) ==
    [k \in DOMAIN way |-> <<way[k][1] - way[1][1] + from[1], way[k][2] - way[1][2] + from[2]>>]

RouteLanes(route, dir) ==
    {Lane(route[2], dir, route[3], Loc(route[1], Global(route[1], a[1]), a[2])) : a \in Atoms(route)}
PathFrom(lane, way) ==
    LET path == Shifted(way, SiteAt(registered[lane.zone], lane.word - offsets[lane.zone], lane.site))
    IN  IF lane.dir = "forward" THEN path ELSE Reverse(path)

\* _compute_paths, for the ways chosen.
Paths(way) ==
    [lane \in UNION {RouteLanes(route, dir) : route \in DOMAIN way, dir \in Entries(Directions)} |->
        PathFrom(lane, way[<<lane.zone, lane.type, lane.bus>>])]

\* _resolve_blockade_radius: zones that disagree, or of which some have none,
\* make build raise.
Agreed(explicit) == explicit # NoRadius \/ radius # NoRadius
                    \/ Cardinality({zone[z].radius : z \in Entries(registered)}) <= 1
Resolved(explicit) ==
    CASE explicit # NoRadius -> explicit
      [] explicit = NoRadius /\ radius # NoRadius -> radius
      [] explicit = NoRadius /\ radius = NoRadius ->
            IF registered = << >> THEN NoRadius ELSE zone[registered[1]].radius

Built(way, explicit) ==
    [words |-> FlattenSeq([i \in DOMAIN registered |-> zone[registered[i]].words]),
     zones |-> [i \in DOMAIN registered |-> BuiltZone(i)],
     zone_buses |-> [k \in DOMAIN connections |-> BuiltConnection(connections[k])],
     modes |-> [k \in DOMAIN modes |-> Bits(modes[k])],
     paths |-> Paths(way),
     blockade_radius |-> Resolved(explicit)]

\* A bus without entries, or a site bus in a zone without words, is an IndexError.
Routable == \A route \in Routes : Atoms(route) # {}

Build(explicit) ==
    /\ arch = Unbuilt /\ Agreed(explicit) /\ Routable
    /\ LET ways == [route \in Routes |-> Ways(route)]
           routed == {route \in Routes : ways[route] # {}}
       IN  \E way \in [routed -> UNION {ways[route] : route \in routed}] :
              /\ \A route \in routed : way[route] \in ways[route]
              /\ arch' = Built(way, explicit)
    /\ Validate(arch')
    /\ UNCHANGED <<job, zone, registered, offsets, total, connections, modes, radius, calls>>

BuilderNext ==
    \/ \E z \in DOMAIN job.zones :
          \/ \E w \in job.words[z] : AddWord(z, w[1], w[2], w[3])
          \/ \E bus \in job.site_buses[z] : AddSiteBus(z, bus)
          \/ \E bus \in job.word_buses[z] : AddWordBus(z, bus)
          \/ \E pairs \in job.pairs : AddEntanglingPairs(z, pairs)
          \/ \E r \in job.radii : SetBlockadeRadius(z, r)
          \/ AddZone(z)
    \/ \E c \in job.connections : Connect(c[1], c[2])
    \/ \E zones \in job.modes : AddMode(zones)
    \/ \E r \in job.radii : SetEveryRadius(r)
    \/ \E r \in {NoRadius} \cup job.explicit : Build(r)

=============================================================================
