----------------------------- MODULE ArchGrids -----------------------------
(***************************************************************************)
(* From the builder to the grids: an architecture is built, its lanes are  *)
(* indexed, and the moves of one of its bus groups are packed into grids   *)
(* (BusGridContext::new in                                                 *)
(* crates/bloqade-lanes-search/src/ops/aod_grid.rs and its callers).  Or   *)
(* the grids are built for one of the Calls of AodGrid, whatever           *)
(* architecture it comes from.                                             *)
(***************************************************************************)
EXTENDS ArchBuilder, AodGrid

VARIABLES asked   \* the lanes of the bus group whose moves are packed

allVars == <<builderVars, vars, asked>>

\* The locations of an architecture, numbered in the order of their encoding.
Number(at) == ((at.zone - 1) * Len(arch.words) + at.word - 1) * SitesPerWord(arch) + at.site
Source(lane) == Number(EndsOf(arch, lane)[1])
Target(lane) == Number(EndsOf(arch, lane)[2])
LaneFrom(n) == CHOOSE lane \in asked : Source(lane) = n

NoCall == [sources |-> {}, dest |-> << >>, position |-> << >>, occupied |-> {}, entries |-> {}]
NoJob == [zones |-> << >>, limit |-> 0]

Idle ==
    /\ call = NoCall /\ phase = "idle"
    /\ remaining = << >> /\ leftover = << >> /\ rect = NoRect
    /\ clusters = << >> /\ pair = <<1, 2>> /\ consumed = {} /\ merged = {} /\ solved = << >>

NoBuilder ==
    /\ job = NoJob /\ zone = << >> /\ registered = << >> /\ offsets = << >> /\ total = 0
    /\ connections = << >> /\ modes = << >> /\ radius = NoRadius /\ calls = 0 /\ arch = Unbuilt

ArchInit ==
    /\ asked = {}
    /\ \/ BuilderInit /\ Idle
       \/ NoBuilder /\ Init

\* The lanes of a group: of one zone's bus, or of the buses with its number in
\* every zone.
GroupLanes(type, bus, zones, dir) ==
    IF zones = {} THEN LanesForAllZones(arch, type, bus, dir)
    ELSE UNION {LanesFor(arch, type, bus, z, dir) : z \in zones}

\* BusGridContext::new and build_aod_grids, for atoms at some of the sources.
Request(lanes, atoms) ==
    /\ asked' = lanes
    /\ LET sources == {Source(l) : l \in lanes}
           lane == [n \in sources |-> CHOOSE l \in lanes : Source(l) = n]
       IN  call' = [sources |-> sources,
                    dest |-> [n \in sources |-> Target(lane[n])],
                    position |-> [n \in sources |-> PositionOf(arch, EndsOf(arch, lane[n])[1])],
                    occupied |-> atoms, entries |-> atoms]
    /\ remaining' = Ordered(atoms)
    /\ phase' = "greedy"
    /\ UNCHANGED <<leftover, rect, clusters, pair, consumed, merged, solved, builderVars>>

Requests ==
    \E type \in {"site", "word"}, dir \in Entries(Directions), zones \in job.requests :
       \E bus \in UNION {DOMAIN BusesOf(arch, type, z) : z \in DOMAIN arch.zones} :
          \E lanes \in {GroupLanes(type, bus, zones, dir)} :
             \E atoms \in (SUBSET {Source(l) : l \in lanes}) \ {{}} : Request(lanes, atoms)

ArchNext ==
    \/ phase = "idle" /\ BuilderNext /\ UNCHANGED <<vars, asked>>
    \/ phase = "idle" /\ arch # Unbuilt /\ Requests
    \/ Next /\ UNCHANGED <<builderVars, asked>>
ArchGridsSpec == ArchInit /\ [][ArchNext]_allVars

----------------------------------------------------------------------------
\* An architecture does not change: it is looked at once, when it is built.
BuiltNow == arch # Unbuilt /\ phase = "idle"
ZoneIds == DOMAIN registered

\* A zone has got words after it was registered: build numbers it all the same.
Grown == total # Len(arch.words) \/ \E i \in ZoneIds : i > 1 /\ offsets[i] # offsets[i - 1] + Len(zone[registered[i - 1]].words)

\* What the builder's client calls word w of the i-th zone.
PlaceOf(i, w, s) == SiteAt(registered[i], w, s)
LeadsTo(lane, from, to) ==
    {<<PositionOf(arch, ends[1]), PositionOf(arch, ends[2])>> : ends \in LaneEndpoints(arch, lane)} = {<<from, to>>}

\* An end of a bus that is named before leads where it did then.
NamedFirst(ends, k) == \A j \in 1..(k - 1) : ends[j] # ends[k]

SiteLanesLead ==
    \A i \in ZoneIds : \A w \in Local(registered[i]) :
        LET b == zone[registered[i]].site_buses
        IN  \A n \in DOMAIN b : \A k \in DOMAIN b[n].src :
               LET lane == Lane("site", "forward", n, Loc(i, Global(i, w), b[n].src[k]))
               IN  NamedFirst(b[n].src, k) =>
                      IF zone[registered[i]].hasSiteBus[w]
                      THEN LeadsTo(lane, PlaceOf(i, w, b[n].src[k]), PlaceOf(i, w, b[n].dst[k]))
                      ELSE LaneEndpoints(arch, lane) = {}

WordLanesLead ==
    \A i \in ZoneIds : \A s \in 1..SitesPerWord(arch) :
        LET b == zone[registered[i]].word_buses
        IN  \A n \in DOMAIN b : \A k \in DOMAIN b[n].src :
               NamedFirst(b[n].src, k) =>
                  LeadsTo(Lane("word", "forward", n, Loc(i, Global(i, b[n].src[k]), s)),
                          PlaceOf(i, b[n].src[k], s), PlaceOf(i, b[n].dst[k], s))

ZoneLanesLead ==
    \A n \in DOMAIN connections : \A k \in DOMAIN connections[n][1][2] :
        LET c == connections[n]
            y == IdOf(c[1][1])
            z == IdOf(c[2][1])
        IN  NamedFirst(c[1][2], k) => \A s \in 1..SitesPerWord(arch) :
               LeadsTo(Lane("zone", "backward", n, Loc(y, Global(y, c[1][2][k]), s)),
                       PlaceOf(z, c[2][2][k], s), PlaceOf(y, c[1][2][k], s))

ModesReadZones ==
    \A n \in DOMAIN modes :
        {PositionOf(arch, at) : at \in Entries(arch.modes[n])}
          = UNION {{SiteAt(z, w, s) : w \in Local(z), s \in 1..Sites(z)} : z \in Entries(modes[n])}

\* Words are numbered by zone, across zones and in the order of their encoding,
\* buses name them in one way and modes in another: in an architecture whose
\* zones were complete when they were added, every lane leads from the place
\* its client meant to the place its client meant, zone buses included, a word
\* that was to have no site buses has no lanes of them, and a mode reads every
\* site of its zones.
LeadsAsBuilt ==
    BuiltNow /\ ~ Grown => SiteLanesLead /\ WordLanesLead /\ ZoneLanesLead /\ ModesReadZones

\* The index of the search holds exactly the site and word lanes the validator
\* accepts, and the lane that the queries find between the ends of a lane leads
\* between them.
LanesResolve ==
    BuiltNow =>
        LET locations == [zone : DOMAIN arch.zones, word : DOMAIN arch.words, site : 1..SitesPerWord(arch)]
            lanes == UNION {{Lane(type, dir, bus, at) : bus \in DOMAIN BusesOf(arch, type, at.zone)} :
                               type \in {"site", "word"}, dir \in Entries(Directions), at \in locations}
        IN  /\ IndexedLanes(arch) = {l \in lanes : CheckLane(arch, l)}
            /\ \A l \in IndexedLanes(arch) :
                  LET ends == EndsOf(arch, l)
                      found == LaneForEndpoints(arch, ends[1], ends[2])
                  IN  found # {} /\ \A m \in found : EndsOf(arch, m) = ends

\* The pairs of a zone are those of its radius, and a scan would find them now.
Described(z) ==
    /\ zone[z].radius # NoRadius /\ Scanned(z, zone[z].radius)
    /\ zone[z].pairs = InOrder(Blockaded(z, zone[z].radius))

\* With pairs that come from the radius, partners are mutual, each is within the
\* radius of the other at its own site and nothing else is, whoever asks finds
\* the same partner, and one word of every pair is a home.
PartnersAreNeighbours ==
    BuiltNow /\ ~ Grown /\ (\A i \in ZoneIds : Described(registered[i])) =>
        \A i \in ZoneIds : \A w \in Local(registered[i]), s \in 1..SitesPerWord(arch) :
            LET z == registered[i]
                at == Loc(i, Global(i, w), s)
                near == {Loc(i, Global(i, e[1]), e[2]) :
                           e \in {f \in Local(z) \X (1..Sites(z)) :
                                    f # <<w, s>> /\ Within(SiteAt(z, w, s), SiteAt(z, f[1], f[2]), zone[z].radius)}}
            IN  /\ CzPartner(arch, at) = near
                /\ \A p \in near : /\ CzPartner(arch, p) = {at}
                                   /\ WordPartner(arch, at.word) = {p.word}
                                   /\ Cardinality(HomeWords(arch) \cap {at.word, p.word}) = 1
                /\ near = {} => at.word \in HomeWords(arch)

\* No atom is led over a place where another may sit: a path meets points of the
\* zone's grid where it begins and where it ends, and nowhere else.
OnSegment(p, q, r) == r = p \/ r = q \/ Between(p, q, r)
PathsClear ==
    BuiltNow =>
        \A lane \in DOMAIN arch.paths :
            LET path == arch.paths[lane]
                g == arch.zones[lane.zone]
                met == {p \in Entries(g.xs) \X Entries(g.ys) :
                           \E k \in 1..(Len(path) - 1) : OnSegment(path[k], path[k + 1], p)}
            IN  met \subseteq {path[1], path[Len(path)]}

\* The path of a lane leads from its one end to the other.
PathsFollowLanes ==
    BuiltNow =>
        \A lane \in DOMAIN arch.paths \cap IndexedLanes(arch) :
            LET path == arch.paths[lane]
            IN  <<path[1], path[Len(path)]>>
                  = <<PositionOf(arch, EndsOf(arch, lane)[1]), PositionOf(arch, EndsOf(arch, lane)[2])>>

\* What check_lanes says of the lanes of the grids.
GridLanes(r) == LET order == Ordered(SourcesIn(r)) IN [k \in DOMAIN order |-> LaneFrom(order[k])]

\* Every grid is a lane group that ArchSpec::check_lanes takes.
GridsPassCheckLanes ==
    phase = "done" /\ asked # {} => \A r \in Grids : CheckLanes(arch, GridLanes(r))

\* It is, when the group is of one zone and all of its lanes shift by the same
\* (or are forward): a rectangle of sources is then one of the addresses.
Shift(lane) ==
    LET p == PositionOf(arch, EndsOf(arch, lane)[1])
        q == PositionOf(arch, EndsOf(arch, lane)[2])
    IN  <<q[1] - p[1], q[2] - p[2]>>
OwnGridsPass ==
    phase = "done" /\ asked # {}
        /\ Cardinality({l.zone : l \in asked}) = 1
        /\ ((\A l \in asked : l.dir = "forward") \/ Cardinality({Shift(l) : l \in asked}) = 1)
      => \A r \in Grids : CheckLanes(arch, GridLanes(r))
=============================================================================
