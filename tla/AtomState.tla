----------------------------- MODULE AtomState -----------------------------
(***************************************************************************)
(* Where the atoms are (AtomStateData in                                   *)
(* crates/bloqade-lanes-bytecode-core/src/atom_state.rs): the state the    *)
(* IR analysis threads through a program to follow its moves, to detect    *)
(* collisions and to find the pairs a CZ acts on.                          *)
(*                                                                         *)
(* The value is immutable: `held` is the one the caller holds, `result`    *)
(* the copy a call is building, and apply_moves is cut at every lane.  A   *)
(* HashMap is a total function with a value for the absent key.            *)
(***************************************************************************)
EXTENDS Naturals, Sequences, FiniteSets

CONSTANTS N,          \* the qubits are 1..N, in the order they are sorted by
          Locations,
          Lanes,
          Endpoints,  \* ArchSpec::lane_endpoints: a lane's <<source, destination>>
          Partner,    \* ArchSpec::get_cz_partner
          Zone,       \* the locations of the zone get_qubit_pairing is asked for
          Groups,     \* the lane lists apply_moves is called with
          Nowhere,    \* the absent location, lane or endpoints
          MaxMoves    \* no call begins once a qubit has moved this often

Qubits == 1..N
Nobody == 0

ASSUME ArchAssumption ==
    /\ N \in Nat /\ MaxMoves \in Nat
    /\ Nowhere \notin Locations /\ Nowhere \notin Lanes
    /\ Endpoints \in [Lanes -> (Locations \X Locations) \cup {Nowhere}]
    /\ Partner \in [Locations -> Locations \cup {Nowhere}]
    /\ Zone \subseteq Locations
    /\ Groups \subseteq Seq(Lanes)

VARIABLES pc,      \* "idle" or "moving"
          held,    \* the AtomStateData of the caller
          result,  \* the maps apply_moves has cloned and is changing
          group,   \* its argument
          next     \* the position of the lane to apply next

vars == <<pc, held, result, group, next>>

AtomStateData ==
    [locations_to_qubit : [Locations -> Qubits \cup {Nobody}],
     qubit_to_locations : [Qubits -> Locations \cup {Nowhere}],
     collision : [Qubits -> Qubits \cup {Nobody}],
     prev_lanes : [Qubits -> Lanes \cup {Nowhere}],
     move_count : [Qubits -> Nat]]

NoCollision == [q \in Qubits |-> Nobody]
NoLanes == [q \in Qubits |-> Nowhere]
NoMoves == [q \in Qubits |-> 0]

\* The qubits a state has a location for, and those it has lost to a collision.
Located(s) == {q \in Qubits : s.qubit_to_locations[q] # Nowhere}
Collided(s) == {q \in Qubits : s.collision[q] # Nobody}
               \cup {s.collision[q] : q \in {r \in Qubits : s.collision[r] # Nobody}}

----------------------------------------------------------------------------
(***************************************************************************)
(* add_atoms, for a batch that places each of some qubits somewhere.  It   *)
(* returns an error, and nothing changes, unless every qubit is new and    *)
(* every location is free, in the state and within the batch.              *)
(***************************************************************************)
Batches == UNION {[S -> Locations] : S \in SUBSET Qubits}

\* Plausible bug: nobody looks at the locations of the state.
CanAddByQubit(s, placed) ==
    /\ \A q \in DOMAIN placed : s.qubit_to_locations[q] = Nowhere
    /\ \A q, r \in DOMAIN placed : placed[q] = placed[r] => q = r

CanAdd(s, placed) ==
    /\ \A q \in DOMAIN placed :
         s.qubit_to_locations[q] = Nowhere /\ s.locations_to_qubit[placed[q]] = Nobody
    /\ \A q, r \in DOMAIN placed : placed[q] = placed[r] => q = r

WithAtoms(s, placed) ==
    [qubit_to_locations |-> [q \in Qubits |->
        IF q \in DOMAIN placed THEN placed[q] ELSE s.qubit_to_locations[q]],
     locations_to_qubit |-> [l \in Locations |->
        IF \E q \in DOMAIN placed : placed[q] = l
        THEN CHOOSE q \in DOMAIN placed : placed[q] = l
        ELSE s.locations_to_qubit[l]],
     collision |-> NoCollision, prev_lanes |-> NoLanes, move_count |-> NoMoves]

\* AtomStateData::new, and from_locations for qubits at distinct locations.
Empty ==
    [qubit_to_locations |-> [q \in Qubits |-> Nowhere],
     locations_to_qubit |-> [l \in Locations |-> Nobody],
     collision |-> NoCollision, prev_lanes |-> NoLanes, move_count |-> NoMoves]

(***************************************************************************)
(* One lane of apply_moves, whose source holds an atom: the atom leaves    *)
(* its source, and reaches its destination or collides there.              *)
(***************************************************************************)
Source(lane) == Endpoints[lane][1]
Destination(lane) == Endpoints[lane][2]

Mover(s, lane) == s.locations_to_qubit[Source(lane)]

\* What `locations_to_qubit.remove(&src)` leaves.
Lifted(s, lane) == [s.locations_to_qubit EXCEPT ![Source(lane)] = Nobody]

Counted(s, lane) == [s EXCEPT !.move_count[Mover(s, lane)] = @ + 1,
                              !.prev_lanes[Mover(s, lane)] = lane]

Shifted(s, lane) ==
    [Counted(s, lane) EXCEPT
        !.qubit_to_locations[Mover(s, lane)] = Destination(lane),
        !.locations_to_qubit = [Lifted(s, lane) EXCEPT ![Destination(lane)] = Mover(s, lane)]]

\* Plausible bug: the atom that was hit is kept.
CollidedAlone(s, lane) ==
    [Counted(s, lane) EXCEPT
        !.qubit_to_locations[Mover(s, lane)] = Nowhere,
        !.locations_to_qubit = Lifted(s, lane),
        !.collision[Mover(s, lane)] = Lifted(s, lane)[Destination(lane)]]

\* Plausible bug: the collision is not recorded.
CollidedSilently(s, lane) ==
    [Counted(s, lane) EXCEPT
        !.qubit_to_locations = [s.qubit_to_locations EXCEPT ![Mover(s, lane)] = Nowhere,
                                                    ![Lifted(s, lane)[Destination(lane)]] = Nowhere],
        !.locations_to_qubit = [Lifted(s, lane) EXCEPT ![Destination(lane)] = Nobody]]

Crashed(s, lane) ==
    [Counted(s, lane) EXCEPT
        !.qubit_to_locations = [s.qubit_to_locations EXCEPT ![Mover(s, lane)] = Nowhere,
                                                    ![Lifted(s, lane)[Destination(lane)]] = Nowhere],
        !.locations_to_qubit = [Lifted(s, lane) EXCEPT ![Destination(lane)] = Nobody],
        !.collision[Mover(s, lane)] = Lifted(s, lane)[Destination(lane)]]

----------------------------------------------------------------------------
Init ==
    /\ pc = "idle" /\ group = << >> /\ next = 1
    /\ held = Empty /\ result = Empty

AddAtoms(placed) ==
    /\ pc = "idle" /\ CanAdd(held, placed)
    /\ held' = WithAtoms(held, placed)
    /\ result' = held'
    /\ UNCHANGED <<pc, group, next>>

Begin(lanes) ==
    /\ pc = "idle" /\ \A q \in Qubits : held.move_count[q] < MaxMoves
    /\ pc' = "moving" /\ group' = lanes /\ next' = 1
    /\ result' = [held EXCEPT !.prev_lanes = NoLanes]
    /\ UNCHANGED held

Lane == group[next]

Apply ==
    /\ pc = "moving" /\ next <= Len(group)
    /\ UNCHANGED <<held, group>>

\* Plausible bug: an empty lane ends the loop.
SkipRest ==
    /\ Apply /\ Endpoints[Lane] # Nowhere
    /\ Mover(result, Lane) = Nobody
    /\ next' = Len(group) + 1
    /\ UNCHANGED <<pc, result>>

\* lane_endpoints returns None and so does the call: nothing is kept of it.
Refuse ==
    /\ Apply
    /\ Endpoints[Lane] = Nowhere
    /\ pc' = "idle" /\ result' = held
    /\ UNCHANGED next

SkipEmpty ==
    /\ Apply /\ Endpoints[Lane] # Nowhere
    /\ Mover(result, Lane) = Nobody
    /\ next' = next + 1
    /\ UNCHANGED <<pc, result>>

Shift ==
    /\ Apply /\ Endpoints[Lane] # Nowhere
    /\ Mover(result, Lane) # Nobody
    /\ Lifted(result, Lane)[Destination(Lane)] = Nobody
    /\ result' = Shifted(result, Lane)
    /\ next' = next + 1
    /\ UNCHANGED pc

Collide ==
    /\ Apply /\ Endpoints[Lane] # Nowhere
    /\ Mover(result, Lane) # Nobody
    /\ Lifted(result, Lane)[Destination(Lane)] # Nobody
    /\ result' = Crashed(result, Lane)
    /\ next' = next + 1
    /\ UNCHANGED pc

Finish ==
    /\ pc = "moving" /\ next > Len(group)
    /\ pc' = "idle" /\ held' = result
    /\ UNCHANGED <<result, group, next>>

MoveStep == Refuse \/ SkipEmpty \/ Shift \/ Collide \/ Finish

Next == (\E placed \in Batches : AddAtoms(placed)) \/ (\E lanes \in Groups : Begin(lanes)) \/ MoveStep

Spec == Init /\ [][Next]_vars

----------------------------------------------------------------------------
(***************************************************************************)
(* get_qubit_pairing, over the qubits in ascending order; the zone's       *)
(* locations are Zone.                                                     *)
(***************************************************************************)
\* The atom at the CZ partner of a qubit's location, Nobody if none.
Opposite(s, q) ==
    LET site == Partner[s.qubit_to_locations[q]]
    IN  IF site = Nowhere THEN Nobody ELSE s.locations_to_qubit[site]

\* Plausible bug: the target of a pair is not marked as visited.
PairedOneSided(s, p, q) ==
    IF q \in p.visited \/ s.qubit_to_locations[q] \notin Zone
    THEN [p EXCEPT !.visited = @ \cup {q}]
    ELSE IF Opposite(s, q) = Nobody
         THEN [p EXCEPT !.unpaired = Append(@, q), !.visited = @ \cup {q}]
         ELSE [controls |-> Append(p.controls, q), targets |-> Append(p.targets, Opposite(s, q)),
               unpaired |-> p.unpaired, visited |-> p.visited \cup {q}]

Paired(s, p, q) ==
    IF q \in p.visited \/ s.qubit_to_locations[q] \notin Zone
    THEN [p EXCEPT !.visited = @ \cup {q}]
    ELSE IF Opposite(s, q) = Nobody
         THEN [p EXCEPT !.unpaired = Append(@, q), !.visited = @ \cup {q}]
         ELSE [controls |-> Append(p.controls, q), targets |-> Append(p.targets, Opposite(s, q)),
               unpaired |-> p.unpaired, visited |-> p.visited \cup {q, Opposite(s, q)}]

Pairing(s) ==
    LET upTo[q \in 0..N] ==
          IF q = 0 THEN [controls |-> << >>, targets |-> << >>, unpaired |-> << >>, visited |-> {}]
          ELSE Paired(s, upTo[q - 1], q)
    IN  upTo[N]

----------------------------------------------------------------------------
TypeOK ==
    /\ pc \in {"idle", "moving"}
    /\ held \in AtomStateData /\ result \in AtomStateData
    /\ group \in Seq(Lanes)
    /\ next \in Nat \ {0}
    /\ pc = "idle" => result = held

\* The two maps are one relation, read both ways, whatever chain of moves and
\* collisions has gone through them (atom_state.rs, "kept in sync as a
\* bidirectional index"): no two atoms share a site and none is in two places.
InSync(s) ==
    \A q \in Qubits, l \in Locations :
        s.qubit_to_locations[q] = l <=> s.locations_to_qubit[l] = q

\* An atom that collided is in neither map and in one collision only, as the
\* mover or as the one displaced.
CollisionsArePairs(s) ==
    /\ Located(s) \cap Collided(s) = {}
    /\ \A q, r \in Qubits :
         /\ s.collision[q] # Nobody => s.collision[q] # q /\ s.collision[s.collision[q]] = Nobody
         /\ s.collision[q] # Nobody /\ s.collision[q] = s.collision[r] => q = r

MapsAgree == InSync(held) /\ InSync(result)
CollisionsDisjoint == CollisionsArePairs(held) /\ CollisionsArePairs(result)

\* No atom drops out: one that is tracked before a step is tracked or recorded
\* as collided after it, also when a later lane of the call is refused.
NoAtomLost == [][Located(result) \subseteq Located(result') \cup Collided(result')]_vars

\* prev_lanes is the last call's alone: during a call it names exactly the
\* qubits whose move_count has grown since the call began.
MovedIsCounted ==
    pc = "moving" => \A q \in Qubits :
        /\ held.move_count[q] <= result.move_count[q]
        /\ result.prev_lanes[q] # Nowhere <=> held.move_count[q] < result.move_count[q]

(***************************************************************************)
(* The search plans a group of lanes as one simultaneous move              *)
(* (Config::with_moves).  apply_moves replays it lane by lane, and agrees, *)
(* in whatever order the lanes come, when no atom is dropped at a site     *)
(* that holds an atom, that another lane picks up from or drops at.        *)
(***************************************************************************)
Carried(s, lanes) == {i \in 1..Len(lanes) : Mover(s, lanes[i]) # Nobody}

Valid(lanes) == \A i \in 1..Len(lanes) : Endpoints[lanes[i]] # Nowhere

Apart(s, lanes) ==
    /\ Valid(lanes)
    /\ \A i \in Carried(s, lanes) :
         /\ s.locations_to_qubit[Destination(lanes[i])] = Nobody
         /\ \A j \in (1..Len(lanes)) \ {i} :
              /\ Source(lanes[j]) # Source(lanes[i])
              /\ Source(lanes[j]) # Destination(lanes[i])
              /\ Destination(lanes[j]) = Destination(lanes[i]) => j \notin Carried(s, lanes)

\* The second state is the first after its first k lanes, all at once.
MovedAtOnce(s, t, lanes, k) ==
    /\ t.collision = s.collision
    /\ \A q \in Qubits :
         /\ (\A i \in 1..k : Source(lanes[i]) # s.qubit_to_locations[q])
               => t.qubit_to_locations[q] = s.qubit_to_locations[q]
         /\ \A i \in 1..k : Source(lanes[i]) = s.qubit_to_locations[q]
               => t.qubit_to_locations[q] = Destination(lanes[i])

\* Read at the end of the call: every atom is where the simultaneous move puts
\* it and nothing collided.
MovesTogether ==
    pc = "moving" /\ next > Len(group) /\ Apart(held, group)
        => MovedAtOnce(held, result, group, Len(group))

\* Partnership is mutual in the zone, and of two sites.
MutualPartners ==
    \A l \in Zone : Partner[l] # Nowhere =>
        Partner[l] \in Zone /\ Partner[l] # l /\ Partner[Partner[l]] = l

\* Every atom of a zone is in exactly one pair or unpaired, each pair is listed
\* once with its lower qubit as the control, and its atoms sit at partner
\* sites.  Assumes that partnership is mutual, which ArchSpec::validate does
\* not check: it accepts a word in two entangling pairs.
PairingExact ==
    LET p == Pairing(held)
        listed == p.controls \o p.targets \o p.unpaired
    IN  /\ Len(p.controls) = Len(p.targets)
        /\ {listed[i] : i \in 1..Len(listed)} = {q \in Qubits : held.qubit_to_locations[q] \in Zone}
        /\ \A i, j \in 1..Len(listed) : listed[i] = listed[j] => i = j
        /\ \A i \in 1..Len(p.controls) :
             /\ p.controls[i] < p.targets[i]
             /\ Partner[held.qubit_to_locations[p.controls[i]]] = held.qubit_to_locations[p.targets[i]]
        /\ \A i \in 1..Len(p.unpaired) : Opposite(held, p.unpaired[i]) = Nobody
=============================================================================
