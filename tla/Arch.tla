-------------------------------- MODULE Arch --------------------------------
(***************************************************************************)
(* The architecture as everything else asks for it (ArchSpec in            *)
(* crates/bloqade-lanes-bytecode-core/src/arch: query.rs and validate.rs,  *)
(* and the index of its lanes in                                           *)
(* crates/bloqade-lanes-search/src/primitives/lane_index.rs).              *)
(*                                                                         *)
(* An architecture `a` is a record: `words`, each the sequence of its      *)
(* sites, which are pairs of indices into a grid; `zones`, each with the   *)
(* positions `xs` and `ys` of its grid, its `site_buses` and `word_buses`, *)
(* the words and sites that take part in them, and its `pairs` of words    *)
(* within the blockade radius; `zone_buses` between zones, whose ends are  *)
(* <<zone, word>>; and the locations that `modes` and `paths` name.  A     *)
(* bus is two lists of ends.  Ids count from 1.  An Option is a set of at  *)
(* most one element.                                                       *)
(***************************************************************************)
EXTENDS Integers, Sequences, FiniteSets

MoveTypes == <<"site", "word", "zone">>
Directions == <<"forward", "backward">>

Loc(zone, word, site) == [zone |-> zone, word |-> word, site |-> site]
Lane(type, dir, bus, at) ==
    [type |-> type, dir |-> dir, bus |-> bus, zone |-> at.zone, word |-> at.word, site |-> at.site]

\* The location in a lane's address: where its forward move begins.
Origin(lane) == Loc(lane.zone, lane.word, lane.site)

Entries(s) == {s[i] : i \in DOMAIN s}
FirstIn(S) == {i \in S : \A j \in S : i <= j}

SitesPerWord(a) == IF a.words = << >> THEN 0 ELSE Len(a.words[1])

----------------------------------------------------------------------------
(***************************************************************************)
(* Buses and lanes.                                                        *)
(***************************************************************************)

\* resolve_forward: the first entry of the source list counts.
ResolveForward(bus, from) ==
    {bus.dst[i] : i \in FirstIn({j \in DOMAIN bus.src : bus.src[j] = from}) \cap DOMAIN bus.dst}

BusesOf(a, type, zone) ==
    CASE type = "site" -> a.zones[zone].site_buses
      [] type = "word" -> a.zones[zone].word_buses
      [] type = "zone" -> a.zone_buses

\* The end of a bus that an address stands for.
EndOf(type, at) ==
    CASE type = "site" -> at.site [] type = "word" -> at.word [] type = "zone" -> <<at.zone, at.word>>

\* And the address an end stands for, seen from another one.
AddressOf(type, at, end) ==
    CASE type = "site" -> [at EXCEPT !.site = end]
      [] type = "word" -> [at EXCEPT !.word = end]
      [] type = "zone" -> [at EXCEPT !.zone = end[1], !.word = end[2]]

InRange(a, at) ==
    /\ at.zone \in 1..Len(a.zones)
    /\ at.word \in 1..Len(a.words)
    /\ at.site \in 1..SitesPerWord(a)
CheckLocation(a, at) == InRange(a, at)

\* Plausible bug: the lists of words and sites that take part are not asked.
AnyMember(a, type, at) == TRUE
\* Membership of check_lane_group_membership, which check_lane asks as well.
Member(a, type, at) ==
    CASE type = "site" -> at.word \in a.zones[at.zone].words_with_site_buses
      [] type = "word" -> at.site \in a.zones[at.zone].sites_with_word_buses
      [] type = "zone" -> TRUE

CheckLane(a, lane) ==
    LET at == Origin(lane)
    IN  /\ InRange(a, at)
        /\ lane.bus \in DOMAIN BusesOf(a, lane.type, at.zone)
        /\ Member(a, lane.type, at)
        /\ ResolveForward(BusesOf(a, lane.type, at.zone)[lane.bus], EndOf(lane.type, at)) # {}

Directed(dir, from, to) == IF dir = "forward" THEN <<from, to>> ELSE <<to, from>>
LaneEndpoints(a, lane) ==
    LET at == Origin(lane)
        ends == ResolveForward(BusesOf(a, lane.type, at.zone)[lane.bus], EndOf(lane.type, at))
    IN  IF CheckLane(a, lane) THEN {Directed(lane.dir, at, AddressOf(lane.type, at, e)) : e \in ends}
        ELSE {}

\* try_lane_from_location and check_lane_candidate: the lanes whose address is
\* `origin` and that lead to or come from `target`, in the order they are tried.
LanesBetween(a, origin, target, dir) ==
    {lane \in UNION {{Lane(type, dir, bus, origin) : bus \in DOMAIN BusesOf(a, type, origin.zone)} :
                        type \in {t \in Entries(MoveTypes) : InRange(a, origin)}} :
        LaneEndpoints(a, lane) = {Directed(dir, origin, target)}}
TriedBefore(l, m) ==
    LET Rank(type) == CHOOSE i \in DOMAIN MoveTypes : MoveTypes[i] = type
    IN  Rank(l.type) < Rank(m.type) \/ (l.type = m.type /\ l.bus <= m.bus)

LaneForEndpoints(a, src, dst) ==
    LET forward == LanesBetween(a, src, dst, "forward")
        backward == LanesBetween(a, dst, src, "backward")
        lanes == IF forward # {} THEN forward ELSE backward
    IN  {l \in lanes : \A m \in lanes : TriedBefore(l, m)}

\* location_position.
Position(a, at) ==
    IF /\ at.zone \in DOMAIN a.zones /\ at.word \in DOMAIN a.words
       /\ at.site \in DOMAIN a.words[at.word]
       /\ a.words[at.word][at.site][1] \in DOMAIN a.zones[at.zone].xs
       /\ a.words[at.word][at.site][2] \in DOMAIN a.zones[at.zone].ys
    THEN {<<a.zones[at.zone].xs[a.words[at.word][at.site][1]],
            a.zones[at.zone].ys[a.words[at.word][at.site][2]]>>}
    ELSE {}

----------------------------------------------------------------------------
(***************************************************************************)
(* Groups of addresses, as they come.                                      *)
(***************************************************************************)
Distinct(s) == \A i, j \in DOMAIN s : s[i] = s[j] => i = j

CheckLocations(a, locations) ==
    Distinct(locations) /\ \A i \in DOMAIN locations : CheckLocation(a, locations[i])

Consistent(lanes) ==
    \A i \in DOMAIN lanes :
        /\ lanes[i].zone = lanes[1].zone /\ lanes[i].bus = lanes[1].bus
        /\ lanes[i].type = lanes[1].type /\ lanes[i].dir = lanes[1].dir

\* check_lane_group_geometry: the origins make a complete grid.
Geometry(a, lanes) ==
    LET at == UNION {Position(a, Origin(lanes[i])) : i \in DOMAIN lanes}
    IN  /\ \A i \in DOMAIN lanes : Position(a, Origin(lanes[i])) # {}
        /\ at = {p[1] : p \in at} \X {p[2] : p \in at}

CheckLanes(a, lanes) ==
    /\ Distinct(lanes) /\ \A i \in DOMAIN lanes : CheckLane(a, lanes[i])
    /\ Len(lanes) > 1 =>
          /\ Consistent(lanes)
          /\ \A i \in DOMAIN lanes : Member(a, lanes[i].type, Origin(lanes[i]))
          /\ Geometry(a, lanes)

----------------------------------------------------------------------------
(***************************************************************************)
(* Partners, homes and zones of words.                                     *)
(***************************************************************************)
Other(pair, word) == IF pair[1] = word THEN pair[2] ELSE pair[1]
PairsWith(pairs, word) == {i \in DOMAIN pairs : word \in Entries(pairs[i])}

\* get_cz_partner: the first pair of the location's own zone.
CzPartner(a, at) ==
    IF at.zone \notin DOMAIN a.zones THEN {}
    ELSE LET pairs == a.zones[at.zone].pairs
         IN  {[at EXCEPT !.word = Other(pairs[i], at.word)] : i \in FirstIn(PairsWith(pairs, at.word))}

\* word_partner_map: the last pair of the last zone.
WordPartner(a, word) ==
    LET zones == {z \in DOMAIN a.zones : PairsWith(a.zones[z].pairs, word) # {}}
    IN  {Other(a.zones[last[1]].pairs[last[2]], word) :
            last \in {p \in UNION {{z} \X PairsWith(a.zones[z].pairs, word) : z \in zones} :
                             /\ \A y \in zones : y <= p[1]
                             /\ \A j \in PairsWith(a.zones[p[1]].pairs, word) : j <= p[2]}}

Lower(m, n) == IF m <= n THEN m ELSE n
\* left_cz_word_ids: the lower word of every pair, and those in none.
HomeWords(a) ==
    {w \in DOMAIN a.words : WordPartner(a, w) = {}}
    \cup UNION {{Lower(w, p) : p \in WordPartner(a, w)} : w \in DOMAIN a.words}

\* word_zone_map: the first zone that names the word, the first of all if none does.
Names(zone, word) ==
    \/ PairsWith(zone.pairs, word) # {}
    \/ \E i \in DOMAIN zone.word_buses : word \in Entries(zone.word_buses[i].src) \cup Entries(zone.word_buses[i].dst)
    \/ word \in zone.words_with_site_buses
WordZone(a, word) ==
    LET naming == {z \in DOMAIN a.zones : Names(a.zones[z], word)}
    IN  IF naming = {} THEN 1 ELSE CHOOSE z \in FirstIn(naming) : TRUE

----------------------------------------------------------------------------
(***************************************************************************)
(* validate: an architecture the constructor takes.                        *)
(***************************************************************************)
Rising(s) == \A i \in DOMAIN s : i > 1 => s[i - 1] <= s[i]

Structure(a) ==
    /\ a.zones # << >> /\ a.words # << >>
    /\ \A z \in DOMAIN a.zones :
          /\ Rising(a.zones[z].xs) /\ Rising(a.zones[z].ys)
          /\ Len(a.zones[z].xs) = Len(a.zones[1].xs) /\ Len(a.zones[z].ys) = Len(a.zones[1].ys)
    /\ \A w \in DOMAIN a.words :
          /\ Len(a.words[w]) = SitesPerWord(a)
          /\ \A s \in DOMAIN a.words[w] : /\ a.words[w][s][1] \in DOMAIN a.zones[1].xs
                                          /\ a.words[w][s][2] \in DOMAIN a.zones[1].ys

BusOver(bus, ends) ==
    Len(bus.src) = Len(bus.dst) /\ Entries(bus.src) \cup Entries(bus.dst) \subseteq ends

ZoneValid(a, zone) ==
    LET sites == 1..SitesPerWord(a)
        words == DOMAIN a.words
    IN  /\ zone.words_with_site_buses \subseteq words
        /\ zone.sites_with_word_buses \subseteq sites
        /\ \A i \in DOMAIN zone.site_buses : BusOver(zone.site_buses[i], sites)
        /\ \A i \in DOMAIN zone.word_buses : BusOver(zone.word_buses[i], words)
        /\ \A i \in DOMAIN zone.pairs :
              /\ Entries(zone.pairs[i]) \subseteq words
              /\ zone.pairs[i][1] # zone.pairs[i][2]
              /\ \A j \in DOMAIN zone.pairs : Entries(zone.pairs[i]) = Entries(zone.pairs[j]) => i = j

ZoneBusesValid(a) ==
    \A i \in DOMAIN a.zone_buses :
        LET bus == a.zone_buses[i]
        IN  /\ BusOver(bus, (DOMAIN a.zones) \X (DOMAIN a.words))
            /\ \A k \in DOMAIN bus.src \cap DOMAIN bus.dst : bus.src[k][1] # bus.dst[k][1]

\* check_modes and check_paths.
ModesValid(a) == \A i \in DOMAIN a.modes : \A k \in DOMAIN a.modes[i] : InRange(a, a.modes[i][k])
PathsValid(a) ==
    \A lane \in DOMAIN a.paths : lane.zone \in DOMAIN a.zones /\ Len(a.paths[lane]) >= 2

\* check_zone_overlap: the boxes overlap on both axes.
Overlap(s, t) == s[1] < t[Len(t)] /\ t[1] < s[Len(s)]
ZonesApart(a) ==
    \A y, z \in DOMAIN a.zones :
        y < z => ~ (Overlap(a.zones[y].xs, a.zones[z].xs) /\ Overlap(a.zones[y].ys, a.zones[z].ys))

Validate(a) ==
    /\ Structure(a)
    /\ \A z \in DOMAIN a.zones : ZoneValid(a, a.zones[z])
    /\ ZoneBusesValid(a) /\ ModesValid(a) /\ PathsValid(a) /\ ZonesApart(a)

----------------------------------------------------------------------------
(***************************************************************************)
(* LaneIndex: the lanes of site and word buses, both ways.                 *)
(***************************************************************************)
SiteLanes(a, z, dir) ==
    UNION {{Lane("site", dir, b, Loc(z, w, s)) : w \in a.zones[z].words_with_site_buses,
                                                 s \in Entries(a.zones[z].site_buses[b].src)} :
              b \in DOMAIN a.zones[z].site_buses}
WordLanes(a, z, dir) ==
    UNION {{Lane("word", dir, b, Loc(z, w, s)) : w \in Entries(a.zones[z].word_buses[b].src),
                                                 s \in a.zones[z].sites_with_word_buses} :
              b \in DOMAIN a.zones[z].word_buses}
IndexedLanes(a) ==
    {lane \in UNION {SiteLanes(a, z, dir) \cup WordLanes(a, z, dir) :
                        z \in DOMAIN a.zones, dir \in Entries(Directions)} :
        LaneEndpoints(a, lane) # {}}

\* lanes_for, and lanes_for_all_zones.
LanesFor(a, type, bus, zone, dir) ==
    {l \in IndexedLanes(a) : l.type = type /\ l.bus = bus /\ l.zone = zone /\ l.dir = dir}
LanesForAllZones(a, type, bus, dir) ==
    {l \in IndexedLanes(a) : l.type = type /\ l.bus = bus /\ l.dir = dir}

EndsOf(a, lane) == CHOOSE ends \in LaneEndpoints(a, lane) : TRUE
PositionOf(a, at) == CHOOSE p \in Position(a, at) : TRUE
=============================================================================
