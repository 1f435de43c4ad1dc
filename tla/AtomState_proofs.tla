-------------------------- MODULE AtomState_proofs --------------------------
(***************************************************************************)
(* What holds of every architecture, number of atoms and list of lanes:    *)
(* the two maps stay one relation, collisions stay pairs, no atom drops    *)
(* out, and lanes that keep apart move together.                           *)
(***************************************************************************)
EXTENDS AtomState, OrderLemmas

\* What a call has changed so far, against the state it began with: atoms may
\* only have collided, and the lanes done so far have moved together.
SoFar ==
    pc = "moving" =>
        /\ next <= Len(group) + 1
        /\ Located(result) \subseteq Located(held)
        /\ Apart(held, group) => MovedAtOnce(held, result, group, next - 1)

IInv == TypeOK /\ MapsAgree /\ CollisionsDisjoint /\ MovedIsCounted /\ SoFar

----------------------------------------------------------------------------
(***************************************************************************)
(* The operators.                                                          *)
(***************************************************************************)
LEMMA LaneEnds ==
    ASSUME NEW lane \in Lanes, Endpoints[lane] # Nowhere
    PROVE  Source(lane) \in Locations /\ Destination(lane) \in Locations
BY ArchAssumption DEF Source, Destination

LEMMA NobodyIsNoQubit == Nobody \notin Qubits
BY DEF Nobody, Qubits

\* Both outcomes of a lane, field by field.
LEMMA CountedFields ==
    ASSUME NEW s \in AtomStateData, NEW lane \in Lanes, Endpoints[lane] # Nowhere,
           Mover(s, lane) # Nobody
    PROVE  /\ Mover(s, lane) \in Qubits
           /\ Lifted(s, lane) \in [Locations -> Qubits \cup {Nobody}]
           /\ Counted(s, lane) \in AtomStateData
           /\ Counted(s, lane).locations_to_qubit = s.locations_to_qubit
           /\ Counted(s, lane).qubit_to_locations = s.qubit_to_locations
           /\ Counted(s, lane).collision = s.collision
           /\ Counted(s, lane).prev_lanes = [s.prev_lanes EXCEPT ![Mover(s, lane)] = lane]
           /\ Counted(s, lane).move_count =
                 [s.move_count EXCEPT ![Mover(s, lane)] = s.move_count[Mover(s, lane)] + 1]
<1>1. Mover(s, lane) \in Qubits
  BY LaneEnds DEF Mover, AtomStateData
<1>2. Lifted(s, lane) \in [Locations -> Qubits \cup {Nobody}]
  BY LaneEnds DEF Lifted, AtomStateData
<1> DEFINE m == [s.move_count EXCEPT ![Mover(s, lane)] = s.move_count[Mover(s, lane)] + 1]
           p == [s.prev_lanes EXCEPT ![Mover(s, lane)] = lane]
<1>3. m \in [Qubits -> Nat] /\ p \in [Qubits -> Lanes \cup {Nowhere}]
  BY <1>1 DEF AtomStateData
<1>4. Counted(s, lane) = [s EXCEPT !.move_count = m, !.prev_lanes = p]
  BY DEF Counted, AtomStateData
<1> HIDE DEF m, p
<1>5. /\ Counted(s, lane) \in AtomStateData
      /\ Counted(s, lane).locations_to_qubit = s.locations_to_qubit
      /\ Counted(s, lane).qubit_to_locations = s.qubit_to_locations
      /\ Counted(s, lane).collision = s.collision
      /\ Counted(s, lane).prev_lanes = p /\ Counted(s, lane).move_count = m
  BY <1>3, <1>4 DEF AtomStateData
<1> QED
  BY <1>1, <1>2, <1>5 DEF m, p

LEMMA ShiftedFields ==
    ASSUME NEW s \in AtomStateData, NEW lane \in Lanes, Endpoints[lane] # Nowhere,
           Mover(s, lane) # Nobody
    PROVE  /\ Shifted(s, lane) \in AtomStateData
           /\ Shifted(s, lane).locations_to_qubit =
                 [s.locations_to_qubit EXCEPT ![Source(lane)] = Nobody,
                                              ![Destination(lane)] = Mover(s, lane)]
           /\ Shifted(s, lane).qubit_to_locations =
                 [s.qubit_to_locations EXCEPT ![Mover(s, lane)] = Destination(lane)]
           /\ Shifted(s, lane).collision = s.collision
           /\ Shifted(s, lane).prev_lanes = Counted(s, lane).prev_lanes
           /\ Shifted(s, lane).move_count = Counted(s, lane).move_count
<1> DEFINE c == Counted(s, lane)
           l == [Lifted(s, lane) EXCEPT ![Destination(lane)] = Mover(s, lane)]
           a == [s.qubit_to_locations EXCEPT ![Mover(s, lane)] = Destination(lane)]
<1>1. l \in [Locations -> Qubits \cup {Nobody}]
  BY CountedFields, LaneEnds
<1>2. a \in [Qubits -> Locations \cup {Nowhere}]
  BY CountedFields, LaneEnds DEF AtomStateData
<1>3. Shifted(s, lane) = [c EXCEPT !.qubit_to_locations = a, !.locations_to_qubit = l]
  <2>1. c.qubit_to_locations = s.qubit_to_locations
    BY CountedFields DEF c
  <2>2. a = [c.qubit_to_locations EXCEPT ![Mover(s, lane)] = Destination(lane)]
    BY <2>1 DEF a
  <2> HIDE DEF a
  <2> QED
    BY <2>2 DEF Shifted, c, l
<1> HIDE DEF a, l, c
<1>4. c \in AtomStateData
  BY CountedFields DEF c
<1>5. /\ Shifted(s, lane) \in AtomStateData
      /\ Shifted(s, lane).locations_to_qubit = l
      /\ Shifted(s, lane).qubit_to_locations = a
      /\ Shifted(s, lane).collision = c.collision
      /\ Shifted(s, lane).prev_lanes = c.prev_lanes
      /\ Shifted(s, lane).move_count = c.move_count
  BY <1>1, <1>2, <1>3, <1>4 DEF AtomStateData
<1> QED
  BY <1>5, CountedFields DEF a, l, c, Lifted

LEMMA CrashedFields ==
    ASSUME NEW s \in AtomStateData, NEW lane \in Lanes, Endpoints[lane] # Nowhere,
           Mover(s, lane) # Nobody, Lifted(s, lane)[Destination(lane)] # Nobody,
           NEW hit, hit = Lifted(s, lane)[Destination(lane)]
    PROVE  /\ hit \in Qubits
           /\ Crashed(s, lane) \in AtomStateData
           /\ Crashed(s, lane).locations_to_qubit =
                 [s.locations_to_qubit EXCEPT ![Source(lane)] = Nobody, ![Destination(lane)] = Nobody]
           /\ Crashed(s, lane).qubit_to_locations =
                 [s.qubit_to_locations EXCEPT ![Mover(s, lane)] = Nowhere, ![hit] = Nowhere]
           /\ Crashed(s, lane).collision = [s.collision EXCEPT ![Mover(s, lane)] = hit]
           /\ Crashed(s, lane).prev_lanes = Counted(s, lane).prev_lanes
           /\ Crashed(s, lane).move_count = Counted(s, lane).move_count
<1> DEFINE c == Counted(s, lane)
           l == [Lifted(s, lane) EXCEPT ![Destination(lane)] = Nobody]
           a == [s.qubit_to_locations EXCEPT ![Mover(s, lane)] = Nowhere, ![hit] = Nowhere]
           k == [s.collision EXCEPT ![Mover(s, lane)] = hit]
<1> HIDE DEF c, l, a, k
<1>0. hit \in Qubits
  <2>1. Lifted(s, lane) \in [Locations -> Qubits \cup {Nobody}]
    BY CountedFields
  <2>2. Destination(lane) \in Locations
    BY LaneEnds
  <2> QED
    BY <2>1, <2>2
<1>1. l \in [Locations -> Qubits \cup {Nobody}]
  BY CountedFields, LaneEnds DEF l
<1>2. a \in [Qubits -> Locations \cup {Nowhere}]
  BY <1>0, CountedFields DEF AtomStateData, a
<1>3. k \in [Qubits -> Qubits \cup {Nobody}]
  BY <1>0, CountedFields DEF AtomStateData, k
<1>4. Crashed(s, lane) = [c EXCEPT !.qubit_to_locations = a, !.locations_to_qubit = l, !.collision = k]
  <2>1. c.collision = s.collision
    BY CountedFields DEF c
  <2>2. k = [c.collision EXCEPT ![Mover(s, lane)] = hit]
    BY <2>1 DEF k
  <2> QED
    BY <2>2 DEF Crashed, a, l, c
<1>5. c \in AtomStateData
  BY CountedFields DEF c
<1>6. /\ Crashed(s, lane) \in AtomStateData
      /\ Crashed(s, lane).locations_to_qubit = l
      /\ Crashed(s, lane).qubit_to_locations = a
      /\ Crashed(s, lane).collision = k
      /\ Crashed(s, lane).prev_lanes = c.prev_lanes
      /\ Crashed(s, lane).move_count = c.move_count
  BY <1>1, <1>2, <1>3, <1>4, <1>5 DEF AtomStateData
<1> QED
  BY <1>0, <1>6, CountedFields DEF a, l, c, k, Lifted

----------------------------------------------------------------------------
(***************************************************************************)
(* Each outcome keeps the maps one relation and the collisions pairs.      *)
(***************************************************************************)
LEMMA ShiftKeepsMaps ==
    ASSUME NEW s \in AtomStateData, NEW lane \in Lanes, Endpoints[lane] # Nowhere,
           InSync(s), CollisionsArePairs(s),
           Mover(s, lane) # Nobody, Lifted(s, lane)[Destination(lane)] = Nobody
    PROVE  InSync(Shifted(s, lane)) /\ CollisionsArePairs(Shifted(s, lane))
<1> DEFINE m == Mover(s, lane)
           t == Shifted(s, lane)
<1>0. Source(lane) \in Locations /\ Destination(lane) \in Locations /\ m \in Qubits
  BY LaneEnds, CountedFields
<1>1. s.qubit_to_locations[m] = Source(lane)
  BY <1>0 DEF InSync, Mover
<1>2. /\ t.locations_to_qubit =
            [s.locations_to_qubit EXCEPT ![Source(lane)] = Nobody, ![Destination(lane)] = m]
      /\ t.qubit_to_locations = [s.qubit_to_locations EXCEPT ![m] = Destination(lane)]
      /\ t.collision = s.collision
  BY ShiftedFields
<1>3. Destination(lane) # Source(lane) => s.locations_to_qubit[Destination(lane)] = Nobody
  BY <1>0 DEF Lifted, AtomStateData
<1> HIDE DEF m, t
<1>4. InSync(t)
  <2> SUFFICES ASSUME NEW q \in Qubits, NEW l \in Locations
               PROVE  t.qubit_to_locations[q] = l <=> t.locations_to_qubit[l] = q
    BY DEF InSync
  <2>1. s.qubit_to_locations[q] = l <=> s.locations_to_qubit[l] = q
    BY DEF InSync
  <2>2. s.qubit_to_locations[m] = l <=> s.locations_to_qubit[l] = m
    BY <1>0 DEF InSync
  <2> QED
    BY <1>0, <1>1, <1>2, <1>3, <2>1, <2>2, NobodyIsNoQubit DEF AtomStateData
<1>5. CollisionsArePairs(t)
  <2>1. Located(t) = Located(s)
    <3>1. s.qubit_to_locations[m] # Nowhere /\ Destination(lane) # Nowhere
      BY <1>0, <1>1, ArchAssumption
    <3> QED
      BY <1>0, <1>2, <3>1 DEF Located, AtomStateData
  <2>2. Collided(t) = Collided(s)
    BY <1>2 DEF Collided
  <2> QED
    BY <1>2, <2>1, <2>2 DEF CollisionsArePairs
<1> QED
  BY <1>4, <1>5 DEF t

LEMMA CrashKeepsMaps ==
    ASSUME NEW s \in AtomStateData, NEW lane \in Lanes, Endpoints[lane] # Nowhere,
           InSync(s), CollisionsArePairs(s),
           Mover(s, lane) # Nobody, Lifted(s, lane)[Destination(lane)] # Nobody
    PROVE  /\ InSync(Crashed(s, lane)) /\ CollisionsArePairs(Crashed(s, lane))
           /\ Located(Crashed(s, lane)) \subseteq Located(s)
           /\ Located(s) \subseteq Located(Crashed(s, lane)) \cup Collided(Crashed(s, lane))
<1> DEFINE m == Mover(s, lane)
           o == Lifted(s, lane)[Destination(lane)]
           t == Crashed(s, lane)
<1>0. /\ Source(lane) \in Locations /\ Destination(lane) \in Locations
      /\ m \in Qubits /\ o \in Qubits
  BY LaneEnds, CountedFields, CrashedFields
<1>1. s.qubit_to_locations[m] = Source(lane)
  BY <1>0 DEF InSync, Mover
<1>2. o = s.locations_to_qubit[Destination(lane)] /\ Destination(lane) # Source(lane)
  BY <1>0 DEF Lifted, AtomStateData
<1>3. s.qubit_to_locations[o] = Destination(lane) /\ o # m
  BY <1>0, <1>1, <1>2 DEF InSync
<1>4. /\ t.locations_to_qubit =
            [s.locations_to_qubit EXCEPT ![Source(lane)] = Nobody, ![Destination(lane)] = Nobody]
      /\ t.qubit_to_locations = [s.qubit_to_locations EXCEPT ![m] = Nowhere, ![o] = Nowhere]
      /\ t.collision = [s.collision EXCEPT ![m] = o]
  BY CrashedFields
<1>5. s.locations_to_qubit[Source(lane)] = m
  BY DEF Mover
<1> HIDE DEF m, o, t
<1>6. InSync(t)
  <2> SUFFICES ASSUME NEW q \in Qubits, NEW l \in Locations
               PROVE  t.qubit_to_locations[q] = l <=> t.locations_to_qubit[l] = q
    BY DEF InSync
  <2>1. s.qubit_to_locations[q] = l <=> s.locations_to_qubit[l] = q
    BY DEF InSync
  <2> QED
    BY <1>0, <1>1, <1>2, <1>3, <1>4, <1>5, <2>1, NobodyIsNoQubit, ArchAssumption DEF AtomStateData
<1>7. Located(t) = Located(s) \ {m, o} /\ {m, o} \subseteq Located(s)
  BY <1>0, <1>1, <1>3, <1>4, ArchAssumption DEF Located, AtomStateData
<1>8. m \notin Collided(s) /\ o \notin Collided(s)
  BY <1>7 DEF CollisionsArePairs
<1>9. s.collision[m] = Nobody /\ s.collision[o] = Nobody
  BY <1>0, <1>8 DEF Collided
<1>10. \A q \in Qubits : s.collision[q] # Nobody => s.collision[q] # m /\ s.collision[q] # o
  BY <1>8 DEF Collided
<1>11. Collided(t) = Collided(s) \cup {m, o}
  <2>1. \A q \in Qubits : t.collision[q] = IF q = m THEN o ELSE s.collision[q]
    BY <1>0, <1>4 DEF AtomStateData
  <2>2. o # Nobody
    BY <1>0, NobodyIsNoQubit
  <2> QED
    BY <1>0, <1>9, <2>1, <2>2 DEF Collided
<1>12. CollisionsArePairs(t)
  <2>1. Located(t) \cap Collided(t) = {}
    BY <1>7, <1>11 DEF CollisionsArePairs
  <2>2. \A q \in Qubits : t.collision[q] = IF q = m THEN o ELSE s.collision[q]
    BY <1>0, <1>4 DEF AtomStateData
  <2>3. \A q, r \in Qubits :
           /\ t.collision[q] # Nobody => t.collision[q] # q /\ t.collision[t.collision[q]] = Nobody
           /\ t.collision[q] # Nobody /\ t.collision[q] = t.collision[r] => q = r
    <3> SUFFICES ASSUME NEW q \in Qubits, NEW r \in Qubits
                 PROVE  /\ t.collision[q] # Nobody =>
                              t.collision[q] # q /\ t.collision[t.collision[q]] = Nobody
                        /\ t.collision[q] # Nobody /\ t.collision[q] = t.collision[r] => q = r
      OBVIOUS
    <3>1. CASE q = m
      BY <1>0, <1>3, <1>9, <1>10, <2>2, <3>1, NobodyIsNoQubit
    <3>2. CASE q # m
      <4>1. /\ s.collision[q] # Nobody => s.collision[q] # q /\ s.collision[s.collision[q]] = Nobody
            /\ s.collision[q] # Nobody /\ s.collision[q] = s.collision[r] => q = r
        BY DEF CollisionsArePairs
      <4>2. s.collision[q] # Nobody => s.collision[q] \in Qubits
        BY DEF AtomStateData
      <4> QED
        BY <1>0, <1>10, <2>2, <3>2, <4>1, <4>2
    <3> QED
      BY <3>1, <3>2
  <2> QED
    BY <2>1, <2>3 DEF CollisionsArePairs
<1>13. Located(t) \subseteq Located(s) /\ Located(s) \subseteq Located(t) \cup Collided(t)
  BY <1>7, <1>11
<1> QED
  BY <1>6, <1>12, <1>13 DEF t

\* A batch that may be added keeps the maps one relation.
LEMMA AddKeepsMaps ==
    ASSUME NEW s \in AtomStateData, InSync(s), NEW placed \in Batches, CanAdd(s, placed)
    PROVE  /\ WithAtoms(s, placed) \in AtomStateData
           /\ InSync(WithAtoms(s, placed)) /\ CollisionsArePairs(WithAtoms(s, placed))
           /\ Located(s) \subseteq Located(WithAtoms(s, placed))
<1> DEFINE t == WithAtoms(s, placed)
           At(l) == CHOOSE q \in DOMAIN placed : placed[q] = l
<1>0. DOMAIN placed \subseteq Qubits /\ \A q \in DOMAIN placed : placed[q] \in Locations
  BY DEF Batches
<1>1. \A l : (\E q \in DOMAIN placed : placed[q] = l) => At(l) \in DOMAIN placed /\ placed[At(l)] = l
  OBVIOUS
<1> HIDE DEF At
<1>2. t = [qubit_to_locations |-> [q \in Qubits |->
              IF q \in DOMAIN placed THEN placed[q] ELSE s.qubit_to_locations[q]],
           locations_to_qubit |-> [l \in Locations |->
              IF \E q \in DOMAIN placed : placed[q] = l THEN At(l) ELSE s.locations_to_qubit[l]],
           collision |-> NoCollision, prev_lanes |-> NoLanes, move_count |-> NoMoves]
  BY DEF WithAtoms, At
<1> HIDE DEF t
<1>3. t \in AtomStateData
  <2>1. /\ NoCollision \in [Qubits -> Qubits \cup {Nobody}]
        /\ NoLanes \in [Qubits -> Lanes \cup {Nowhere}]
        /\ NoMoves \in [Qubits -> Nat]
    BY DEF NoCollision, NoLanes, NoMoves
  <2>2. [q \in Qubits |-> IF q \in DOMAIN placed THEN placed[q] ELSE s.qubit_to_locations[q]]
          \in [Qubits -> Locations \cup {Nowhere}]
    BY <1>0 DEF AtomStateData
  <2>3. [l \in Locations |->
            IF \E q \in DOMAIN placed : placed[q] = l THEN At(l) ELSE s.locations_to_qubit[l]]
          \in [Locations -> Qubits \cup {Nobody}]
    BY <1>0, <1>1 DEF AtomStateData
  <2> QED
    BY <1>2, <2>1, <2>2, <2>3 DEF AtomStateData
<1>4. InSync(t)
  <2> SUFFICES ASSUME NEW q \in Qubits, NEW l \in Locations
               PROVE  t.qubit_to_locations[q] = l <=> t.locations_to_qubit[l] = q
    BY DEF InSync
  <2>1. s.qubit_to_locations[q] = l <=> s.locations_to_qubit[l] = q
    BY DEF InSync
  <2>2. /\ t.qubit_to_locations[q] = IF q \in DOMAIN placed THEN placed[q]
                                     ELSE s.qubit_to_locations[q]
        /\ t.locations_to_qubit[l] = IF \E r \in DOMAIN placed : placed[r] = l THEN At(l)
                                     ELSE s.locations_to_qubit[l]
    BY <1>2
  <2>3. CASE q \in DOMAIN placed
    <3>1. s.qubit_to_locations[q] = Nowhere
      BY <2>3 DEF CanAdd
    <3>2. s.locations_to_qubit[l] # q
      BY <2>1, <3>1, ArchAssumption
    <3>3. placed[q] = l => At(l) = q
      BY <1>1, <2>3 DEF CanAdd
    <3> QED
      BY <1>1, <2>2, <2>3, <3>2, <3>3
  <2>4. CASE q \notin DOMAIN placed
    <3>1. CASE \E r \in DOMAIN placed : placed[r] = l
      <4>1. s.locations_to_qubit[l] = Nobody
        BY <3>1 DEF CanAdd
      <4>2. At(l) # q
        BY <1>1, <2>4, <3>1
      <4>3. s.qubit_to_locations[q] # l
        BY <2>1, <4>1, NobodyIsNoQubit
      <4> QED
        BY <2>2, <2>4, <3>1, <4>2, <4>3
    <3>2. CASE ~ \E r \in DOMAIN placed : placed[r] = l
      BY <2>1, <2>2, <2>4, <3>2
    <3> QED
      BY <3>1, <3>2
  <2> QED
    BY <2>3, <2>4
<1>5. CollisionsArePairs(t)
  BY <1>2 DEF CollisionsArePairs, Collided, NoCollision
<1>6. Located(s) \subseteq Located(t)
  BY <1>0, <1>2, ArchAssumption DEF Located
<1> QED
  BY <1>3, <1>4, <1>5, <1>6 DEF t

----------------------------------------------------------------------------
(***************************************************************************)
(* Lanes that keep apart: whatever the lanes before it have done, a lane   *)
(* finds at its source the atom that was there before the call, or none,   *)
(* and nothing at its destination.                                         *)
(***************************************************************************)
LEMMA NextOfApart ==
    ASSUME NEW s \in AtomStateData, InSync(s), NEW t \in AtomStateData, InSync(t),
           NEW lanes \in Seq(Lanes), Apart(s, lanes), NEW k \in 1..Len(lanes),
           MovedAtOnce(s, t, lanes, k - 1)
    PROVE  /\ Endpoints[lanes[k]] # Nowhere
           /\ Mover(t, lanes[k]) = Mover(s, lanes[k])
           /\ Mover(t, lanes[k]) # Nobody => Lifted(t, lanes[k])[Destination(lanes[k])] = Nobody
<1> DEFINE src == Source(lanes[k])
           dst == Destination(lanes[k])
<1>0. k \in Nat /\ k >= 1 /\ Len(lanes) \in Nat /\ lanes[k] \in Lanes
  OBVIOUS
<1>1. Endpoints[lanes[k]] # Nowhere
  BY DEF Apart, Valid
<1>2. src \in Locations /\ dst \in Locations
  BY <1>0, <1>1, LaneEnds
<1>3. \A i \in 1..(k - 1) : /\ lanes[i] \in Lanes /\ Endpoints[lanes[i]] # Nowhere
                            /\ i \in 1..Len(lanes) /\ i # k
  BY <1>0 DEF Apart, Valid
\* An earlier lane's source holds, before the call, the atom it moved.
<1>4. ASSUME NEW q \in Qubits, NEW i \in 1..(k - 1), Source(lanes[i]) = s.qubit_to_locations[q]
      PROVE  i \in Carried(s, lanes) /\ t.qubit_to_locations[q] = Destination(lanes[i])
  <2>1. Source(lanes[i]) \in Locations
    BY <1>3, LaneEnds
  <2>2. s.locations_to_qubit[Source(lanes[i])] = q
    BY <1>4, <2>1 DEF InSync
  <2> QED
    BY <1>3, <1>4, <2>2, NobodyIsNoQubit DEF Carried, Mover, MovedAtOnce
<1>5. ASSUME NEW q \in Qubits, t.qubit_to_locations[q] = src PROVE s.qubit_to_locations[q] = src
  <2>1. CASE \E i \in 1..(k - 1) : Source(lanes[i]) = s.qubit_to_locations[q]
    <3>1. PICK i \in 1..(k - 1) : Source(lanes[i]) = s.qubit_to_locations[q]
      BY <2>1
    <3>2. i \in Carried(s, lanes) /\ src = Destination(lanes[i])
      BY <1>4, <1>5, <3>1
    <3>3. k \in (1..Len(lanes)) \ {i}
      BY <1>0, <1>3
    <3> QED
      BY <3>2, <3>3 DEF Apart
  <2>2. CASE \A i \in 1..(k - 1) : Source(lanes[i]) # s.qubit_to_locations[q]
    BY <1>5, <2>2 DEF MovedAtOnce
  <2> QED
    BY <2>1, <2>2
<1>6. ASSUME NEW q \in Qubits, s.qubit_to_locations[q] = src PROVE t.qubit_to_locations[q] = src
  <2>1. s.locations_to_qubit[src] = q
    BY <1>2, <1>6 DEF InSync
  <2>2. k \in Carried(s, lanes)
    BY <1>0, <2>1, NobodyIsNoQubit DEF Carried, Mover
  <2>3. \A i \in 1..(k - 1) : Source(lanes[i]) # src
    BY <1>3, <2>2 DEF Apart
  <2> QED
    BY <1>6, <2>3 DEF MovedAtOnce
<1>7. Mover(t, lanes[k]) = Mover(s, lanes[k])
  <2>1. \A q \in Qubits : s.locations_to_qubit[src] = q <=> t.locations_to_qubit[src] = q
    BY <1>2, <1>5, <1>6 DEF InSync
  <2>2. s.locations_to_qubit[src] \in Qubits \cup {Nobody}
        /\ t.locations_to_qubit[src] \in Qubits \cup {Nobody}
    BY <1>2 DEF AtomStateData
  <2> QED
    BY <2>1, <2>2 DEF Mover
<1>8. ASSUME Mover(t, lanes[k]) # Nobody
      PROVE  Lifted(t, lanes[k])[dst] = Nobody
  <2>1. k \in Carried(s, lanes)
    BY <1>0, <1>7, <1>8 DEF Carried
  <2>2. s.locations_to_qubit[dst] = Nobody
    BY <2>1 DEF Apart
  <2>3. ASSUME NEW q \in Qubits PROVE t.qubit_to_locations[q] # dst
    <3>1. s.qubit_to_locations[q] # dst
      BY <1>2, <2>2, NobodyIsNoQubit DEF InSync
    <3>2. CASE \E i \in 1..(k - 1) : Source(lanes[i]) = s.qubit_to_locations[q]
      <4>1. PICK i \in 1..(k - 1) : Source(lanes[i]) = s.qubit_to_locations[q]
        BY <3>2
      <4>2. i \in Carried(s, lanes) /\ t.qubit_to_locations[q] = Destination(lanes[i])
        BY <1>4, <4>1
      <4>3. i \in (1..Len(lanes)) \ {k}
        BY <1>3
      <4>4. Destination(lanes[i]) # dst
        BY <2>1, <4>2, <4>3 DEF Apart
      <4> QED
        BY <4>2, <4>4
    <3>3. CASE \A i \in 1..(k - 1) : Source(lanes[i]) # s.qubit_to_locations[q]
      BY <3>1, <3>3 DEF MovedAtOnce
    <3> QED
      BY <3>2, <3>3
  <2>4. t.locations_to_qubit[dst] = Nobody
    <3>1. t.locations_to_qubit[dst] \in Qubits \cup {Nobody}
      BY <1>2 DEF AtomStateData
    <3> QED
      BY <1>2, <2>3, <3>1 DEF InSync
  <2> QED
    BY <1>2, <2>4 DEF Lifted, AtomStateData
<1> QED
  BY <1>1, <1>7, <1>8

\* And so one more lane of the group has moved at once with the others: with an
\* atom, or without one.
LEMMA ShiftMovesAtOnce ==
    ASSUME NEW s \in AtomStateData, InSync(s), NEW t \in AtomStateData, InSync(t),
           NEW lanes \in Seq(Lanes), Apart(s, lanes), NEW k \in 1..Len(lanes),
           MovedAtOnce(s, t, lanes, k - 1), Mover(t, lanes[k]) # Nobody
    PROVE  MovedAtOnce(s, Shifted(t, lanes[k]), lanes, k)
<1> DEFINE m == Mover(s, lanes[k])
           u == Shifted(t, lanes[k])
<1>0. k \in Nat /\ k >= 1 /\ Len(lanes) \in Nat /\ lanes[k] \in Lanes
      /\ Endpoints[lanes[k]] # Nowhere /\ Mover(t, lanes[k]) = m
  BY NextOfApart
<1>1. Source(lanes[k]) \in Locations /\ m \in Qubits
  BY <1>0, LaneEnds, CountedFields
<1>2. \A q \in Qubits : s.qubit_to_locations[q] = Source(lanes[k]) <=> q = m
  BY <1>1 DEF InSync, Mover
<1>3. u.qubit_to_locations = [t.qubit_to_locations EXCEPT ![m] = Destination(lanes[k])]
      /\ u.collision = t.collision
  BY <1>0, ShiftedFields
<1>4. \A q \in Qubits : u.qubit_to_locations[q] =
          IF q = m THEN Destination(lanes[k]) ELSE t.qubit_to_locations[q]
  BY <1>3 DEF AtomStateData
<1>5. k \in Carried(s, lanes)
  BY <1>0, <1>1, NobodyIsNoQubit DEF Carried
<1>6. \A i \in 1..(k - 1) : i \in (1..Len(lanes)) \ {k}
  BY <1>0
<1>7. \A i \in 1..(k - 1) : Source(lanes[i]) # Source(lanes[k])
  BY <1>5, <1>6 DEF Apart
<1>8. \A i \in 1..k : i = k \/ i \in 1..(k - 1)
  BY <1>0
<1>9. k \in 1..k /\ \A i \in 1..(k - 1) : i \in 1..k
  BY <1>0
<1> HIDE DEF m, u
<1> SUFFICES ASSUME NEW q \in Qubits
             PROVE  /\ (\A i \in 1..k : Source(lanes[i]) # s.qubit_to_locations[q])
                          => u.qubit_to_locations[q] = s.qubit_to_locations[q]
                    /\ \A i \in 1..k : Source(lanes[i]) = s.qubit_to_locations[q]
                          => u.qubit_to_locations[q] = Destination(lanes[i])
  BY <1>3 DEF MovedAtOnce, u
<1>10. CASE q = m
  BY <1>2, <1>4, <1>7, <1>8, <1>9, <1>10
<1>11. CASE q # m
  BY <1>2, <1>4, <1>8, <1>9, <1>11 DEF MovedAtOnce
<1> QED
  BY <1>10, <1>11

LEMMA SkipMovesAtOnce ==
    ASSUME NEW s \in AtomStateData, InSync(s), NEW t \in AtomStateData, InSync(t),
           NEW lanes \in Seq(Lanes), Apart(s, lanes), NEW k \in 1..Len(lanes),
           MovedAtOnce(s, t, lanes, k - 1), Mover(t, lanes[k]) = Nobody
    PROVE  MovedAtOnce(s, t, lanes, k)
<1>0. k \in Nat /\ k >= 1 /\ lanes[k] \in Lanes /\ Endpoints[lanes[k]] # Nowhere
      /\ Mover(s, lanes[k]) = Nobody
  BY NextOfApart
<1>1. \A q \in Qubits : s.qubit_to_locations[q] # Source(lanes[k])
  BY <1>0, LaneEnds, NobodyIsNoQubit DEF InSync, Mover
<1>2. \A i \in 1..k : i = k \/ i \in 1..(k - 1)
  BY <1>0
<1>3. \A i \in 1..(k - 1) : i \in 1..k
  BY <1>0
<1> QED
  BY <1>1, <1>2, <1>3 DEF MovedAtOnce

----------------------------------------------------------------------------
(***************************************************************************)
(* The steps.                                                              *)
(***************************************************************************)
\* What a step owes NoAtomLost.
Kept == Located(result) \subseteq Located(result') \cup Collided(result')

LEMMA EmptyOK == Empty \in AtomStateData /\ InSync(Empty) /\ CollisionsArePairs(Empty)
<1>1. Empty \in AtomStateData
  BY DEF Empty, AtomStateData, NoCollision, NoLanes, NoMoves
<1>2. InSync(Empty)
  BY NobodyIsNoQubit, ArchAssumption DEF InSync, Empty
<1>3. CollisionsArePairs(Empty)
  BY DEF CollisionsArePairs, Collided, Empty, NoCollision
<1> QED
  BY <1>1, <1>2, <1>3

LEMMA InitInv == Init => IInv
BY EmptyOK DEF Init, IInv, TypeOK, MapsAgree, CollisionsDisjoint, MovedIsCounted, SoFar

LEMMA AddAtomsKeepsInv ==
    ASSUME IInv, NEW placed \in Batches, AddAtoms(placed)
    PROVE  IInv' /\ Kept
<1>1. held \in AtomStateData /\ InSync(held) /\ result = held
  BY DEF IInv, TypeOK, MapsAgree, AddAtoms
<1>2. /\ held' \in AtomStateData /\ InSync(held') /\ CollisionsArePairs(held')
      /\ Located(held) \subseteq Located(held') /\ result' = held'
  BY <1>1, AddKeepsMaps DEF AddAtoms
<1>3. TypeOK'
  BY <1>2 DEF IInv, TypeOK, AddAtoms
<1>4. (MapsAgree /\ CollisionsDisjoint)'
  BY <1>2 DEF MapsAgree, CollisionsDisjoint, InSync, CollisionsArePairs, Located, Collided
<1>5. (MovedIsCounted /\ SoFar)'
  BY DEF MovedIsCounted, SoFar, AddAtoms
<1>6. Kept
  BY <1>1, <1>2 DEF Kept
<1> QED
  BY <1>3, <1>4, <1>5, <1>6 DEF IInv

LEMMA BeginKeepsInv ==
    ASSUME IInv, NEW lanes \in Groups, Begin(lanes)
    PROVE  IInv' /\ Kept
<1>0. held \in AtomStateData /\ result = held /\ InSync(held) /\ CollisionsArePairs(held)
      /\ lanes \in Seq(Lanes) /\ Len(lanes) \in Nat
  BY ArchAssumption DEF IInv, TypeOK, MapsAgree, CollisionsDisjoint, Begin
<1>1. /\ result' \in AtomStateData
      /\ result'.locations_to_qubit = held.locations_to_qubit
      /\ result'.qubit_to_locations = held.qubit_to_locations
      /\ result'.collision = held.collision
      /\ result'.move_count = held.move_count
      /\ result'.prev_lanes = NoLanes
  <2>1. NoLanes \in [Qubits -> Lanes \cup {Nowhere}]
    BY DEF NoLanes
  <2> QED
    BY <1>0, <2>1 DEF Begin, AtomStateData
<1>2. held' = held /\ group' = lanes /\ next' = 1 /\ pc' = "moving"
  BY DEF Begin
<1>3. TypeOK'
  BY <1>0, <1>1, <1>2 DEF TypeOK
<1>4. MapsAgree'
  BY <1>0, <1>1, <1>2 DEF MapsAgree, InSync
<1>5. Located(result') = Located(held) /\ Collided(result') = Collided(held)
  BY <1>1 DEF Located, Collided
<1>6. CollisionsDisjoint'
  BY <1>0, <1>1, <1>2, <1>5 DEF CollisionsDisjoint, CollisionsArePairs, Located, Collided
<1>7. MovedIsCounted'
  BY <1>0, <1>1, <1>2 DEF MovedIsCounted, AtomStateData, NoLanes
<1>8. SoFar'
  <2>1. MovedAtOnce(held', result', lanes, 0)
    BY <1>1, <1>2 DEF MovedAtOnce
  <2>2. Located(result)' \subseteq Located(held)'
    BY <1>1, <1>2 DEF Located
  <2> QED
    BY <1>0, <1>2, <2>1, <2>2 DEF SoFar, MovedAtOnce
<1>9. Kept
  BY <1>0, <1>5 DEF Kept
<1> QED
  BY <1>3, <1>4, <1>6, <1>7, <1>8, <1>9 DEF IInv

LEMMA RefuseKeepsInv ==
    ASSUME IInv, Refuse PROVE IInv' /\ Kept
<1>1. held' = held /\ result' = held /\ pc' = "idle" /\ next' = next /\ group' = group
  BY DEF Refuse, Apply
<1>2. TypeOK'
  BY <1>1 DEF IInv, TypeOK
<1>3. (MapsAgree /\ CollisionsDisjoint)'
  BY <1>1 DEF IInv, MapsAgree, CollisionsDisjoint, InSync, CollisionsArePairs, Located, Collided
<1>4. (MovedIsCounted /\ SoFar)'
  BY <1>1 DEF MovedIsCounted, SoFar
<1>5. Kept
  BY <1>1 DEF Kept, IInv, SoFar, Refuse, Apply, Located
<1> QED
  BY <1>2, <1>3, <1>4, <1>5 DEF IInv

\* What each of the three steps over a valid lane may rely on.
LEMMA AtLane ==
    ASSUME IInv, Apply, Endpoints[Lane] # Nowhere
    PROVE  /\ next \in 1..Len(group) /\ Lane \in Lanes /\ Lane = group[next]
           /\ group \in Seq(Lanes) /\ Len(group) \in Nat /\ next \in Nat
           /\ held \in AtomStateData /\ InSync(held) /\ CollisionsArePairs(held)
           /\ result \in AtomStateData /\ InSync(result) /\ CollisionsArePairs(result)
           /\ Located(result) \subseteq Located(held)
           /\ Apart(held, group) => MovedAtOnce(held, result, group, next - 1)
           /\ pc = "moving" /\ group' = group /\ held' = held
BY DEF IInv, TypeOK, MapsAgree, CollisionsDisjoint, SoFar, Apply, Lane

LEMMA SkipEmptyKeepsInv ==
    ASSUME IInv, SkipEmpty PROVE IInv' /\ Kept
<1>0. Apply /\ Endpoints[Lane] # Nowhere /\ Mover(result, Lane) = Nobody
      /\ next' = next + 1 /\ result' = result /\ pc' = pc
  BY DEF SkipEmpty
<1>1. TypeOK'
  BY <1>0, AtLane DEF IInv, TypeOK
<1>2. (MapsAgree /\ CollisionsDisjoint /\ MovedIsCounted)'
  BY <1>0, AtLane DEF IInv, MapsAgree, CollisionsDisjoint, MovedIsCounted, InSync,
                      CollisionsArePairs, Located, Collided
<1>3. SoFar'
  <2>1. Apart(held, group) => MovedAtOnce(held, result, group, next)
    BY <1>0, AtLane, SkipMovesAtOnce
  <2> QED
    BY <1>0, <2>1, AtLane DEF SoFar, Apart, Carried, Valid, Mover, MovedAtOnce, Located
<1>4. Kept
  BY <1>0 DEF Kept
<1> QED
  BY <1>1, <1>2, <1>3, <1>4 DEF IInv

\* The qubit a lane carries is counted once more and named in prev_lanes.
LEMMA CountKeepsMovedIsCounted ==
    ASSUME IInv, Apply, Endpoints[Lane] # Nowhere, Mover(result, Lane) # Nobody,
           pc' = pc,
           result'.prev_lanes = Counted(result, Lane).prev_lanes,
           result'.move_count = Counted(result, Lane).move_count
    PROVE  MovedIsCounted'
<1> DEFINE m == Mover(result, Lane)
<1>1. m \in Qubits /\ Lane # Nowhere
  BY AtLane, CountedFields, ArchAssumption
<1>2. /\ result'.prev_lanes = [result.prev_lanes EXCEPT ![m] = Lane]
      /\ result'.move_count = [result.move_count EXCEPT ![m] = result.move_count[m] + 1]
  BY AtLane, CountedFields
<1>3. held' = held
  BY AtLane
<1> HIDE DEF m
<1> SUFFICES ASSUME NEW q \in Qubits
             PROVE  /\ held.move_count[q] <= result'.move_count[q]
                    /\ result'.prev_lanes[q] # Nowhere <=> held.move_count[q] < result'.move_count[q]
  BY <1>3 DEF MovedIsCounted
<1>4. held.move_count[q] \in Nat /\ result.move_count[q] \in Nat
  BY AtLane DEF AtomStateData
<1>5. /\ held.move_count[q] <= result.move_count[q]
      /\ result.prev_lanes[q] # Nowhere <=> held.move_count[q] < result.move_count[q]
  BY AtLane DEF IInv, MovedIsCounted
<1>6. CASE q = m
  <2>1. result'.prev_lanes[q] = Lane /\ result'.move_count[q] = result.move_count[q] + 1
    BY <1>1, <1>2, <1>6, AtLane DEF AtomStateData
  <2> QED
    BY <1>1, <1>4, <1>5, <2>1
<1>7. CASE q # m
  <2>1. /\ result'.prev_lanes[q] = result.prev_lanes[q]
        /\ result'.move_count[q] = result.move_count[q]
    BY <1>1, <1>2, <1>7, AtLane DEF AtomStateData
  <2> QED
    BY <1>5, <2>1
<1> QED
  BY <1>6, <1>7

LEMMA ShiftKeepsInv ==
    ASSUME IInv, Shift PROVE IInv' /\ Kept
<1>0. /\ Apply /\ Endpoints[Lane] # Nowhere /\ Mover(result, Lane) # Nobody
      /\ Lifted(result, Lane)[Destination(Lane)] = Nobody
      /\ next' = next + 1 /\ result' = Shifted(result, Lane) /\ pc' = pc
  BY DEF Shift
<1>1. /\ result' \in AtomStateData /\ InSync(result') /\ CollisionsArePairs(result')
      /\ result'.prev_lanes = Counted(result, Lane).prev_lanes
      /\ result'.move_count = Counted(result, Lane).move_count
      /\ result'.qubit_to_locations =
            [result.qubit_to_locations EXCEPT ![Mover(result, Lane)] = Destination(Lane)]
      /\ Mover(result, Lane) \in Qubits /\ Destination(Lane) \in Locations
  BY <1>0, AtLane, ShiftedFields, ShiftKeepsMaps, CountedFields, LaneEnds
<1>2. Located(result') = Located(result)
  <2>1. Source(Lane) \in Locations
    BY <1>0, AtLane, LaneEnds
  <2>2. result.qubit_to_locations[Mover(result, Lane)] = Source(Lane)
    BY <1>1, <2>1, AtLane, <1>0 DEF InSync, Mover
  <2>3. Source(Lane) # Nowhere /\ Destination(Lane) # Nowhere
    BY <1>1, <2>1, ArchAssumption
  <2>4. result.qubit_to_locations \in [Qubits -> Locations \cup {Nowhere}]
    BY <1>0, AtLane DEF AtomStateData
  <2> QED
    BY <1>1, <2>2, <2>3, <2>4 DEF Located
<1>3. TypeOK'
  BY <1>0, <1>1, AtLane DEF IInv, TypeOK
<1>4. (MapsAgree /\ CollisionsDisjoint)'
  BY <1>0, <1>1, AtLane DEF MapsAgree, CollisionsDisjoint, InSync, CollisionsArePairs, Located, Collided
<1>5. MovedIsCounted'
  BY <1>0, <1>1, CountKeepsMovedIsCounted
<1>6. SoFar'
  <2>1. Apart(held, group) => MovedAtOnce(held, result', group, next)
    BY <1>0, AtLane, ShiftMovesAtOnce
  <2>2. next' - 1 = next /\ next' <= Len(group) + 1 /\ held' = held /\ group' = group
    BY <1>0, AtLane
  <2>3. Apart(held, group)' = Apart(held, group)
    BY <2>2 DEF Apart, Carried, Valid, Mover
  <2>4. Located(result') \subseteq Located(held)
    BY <1>0, <1>2, AtLane
  <2> QED
    BY <2>1, <2>2, <2>3, <2>4 DEF SoFar, MovedAtOnce, Located
<1>7. Kept
  BY <1>2 DEF Kept
<1> QED
  BY <1>3, <1>4, <1>5, <1>6, <1>7 DEF IInv

LEMMA CollideKeepsInv ==
    ASSUME IInv, Collide PROVE IInv' /\ Kept
<1>0. /\ Apply /\ Endpoints[Lane] # Nowhere /\ Mover(result, Lane) # Nobody
      /\ Lifted(result, Lane)[Destination(Lane)] # Nobody
      /\ next' = next + 1 /\ result' = Crashed(result, Lane) /\ pc' = pc
  BY DEF Collide
<1>1. /\ result' \in AtomStateData /\ InSync(result') /\ CollisionsArePairs(result')
      /\ result'.prev_lanes = Counted(result, Lane).prev_lanes
      /\ result'.move_count = Counted(result, Lane).move_count
      /\ Located(result') \subseteq Located(result)
      /\ Located(result) \subseteq Located(result') \cup Collided(result')
  BY <1>0, AtLane, CrashedFields, CrashKeepsMaps
<1>2. TypeOK'
  BY <1>0, <1>1, AtLane DEF IInv, TypeOK
<1>3. (MapsAgree /\ CollisionsDisjoint)'
  BY <1>0, <1>1, AtLane DEF MapsAgree, CollisionsDisjoint, InSync, CollisionsArePairs, Located, Collided
<1>4. MovedIsCounted'
  BY <1>0, <1>1, CountKeepsMovedIsCounted
<1>5. SoFar'
  <2>1. ~ Apart(held, group)
    BY <1>0, AtLane, NextOfApart
  <2>2. next' <= Len(group) + 1 /\ held' = held /\ group' = group
    BY <1>0, AtLane
  <2>3. Apart(held, group)' = Apart(held, group)
    BY <2>2 DEF Apart, Carried, Valid, Mover
  <2>4. Located(result') \subseteq Located(held)
    BY <1>0, <1>1, AtLane
  <2> QED
    BY <2>1, <2>2, <2>3, <2>4 DEF SoFar, Located
<1>6. Kept
  BY <1>1 DEF Kept
<1> QED
  BY <1>2, <1>3, <1>4, <1>5, <1>6 DEF IInv

LEMMA FinishKeepsInv ==
    ASSUME IInv, Finish PROVE IInv' /\ Kept
<1>1. held' = result /\ result' = result /\ pc' = "idle" /\ next' = next /\ group' = group
  BY DEF Finish
<1>2. TypeOK'
  BY <1>1 DEF IInv, TypeOK
<1>3. (MapsAgree /\ CollisionsDisjoint)'
  BY <1>1 DEF IInv, MapsAgree, CollisionsDisjoint, InSync, CollisionsArePairs, Located, Collided
<1>4. (MovedIsCounted /\ SoFar)'
  BY <1>1 DEF MovedIsCounted, SoFar
<1>5. Kept
  BY <1>1 DEF Kept, Located
<1> QED
  BY <1>2, <1>3, <1>4, <1>5 DEF IInv

LEMMA NextInv == IInv /\ [Next]_vars => IInv' /\ (Kept \/ UNCHANGED vars)
<1>1. IInv /\ Next => IInv' /\ Kept
  BY AddAtomsKeepsInv, BeginKeepsInv, RefuseKeepsInv, SkipEmptyKeepsInv, ShiftKeepsInv,
     CollideKeepsInv, FinishKeepsInv DEF Next, MoveStep
<1>2. IInv /\ UNCHANGED vars => IInv'
  BY DEF IInv, TypeOK, MapsAgree, CollisionsDisjoint, MovedIsCounted, SoFar, vars, InSync,
         CollisionsArePairs, Located, Collided, Apart, Carried, Valid, Mover, MovedAtOnce
<1> QED
  BY <1>1, <1>2

LEMMA IInvImplies == IInv => MovesTogether
<1> SUFFICES ASSUME IInv, pc = "moving", next > Len(group), Apart(held, group)
             PROVE  MovedAtOnce(held, result, group, Len(group))
  BY DEF MovesTogether
<1>1. next - 1 = Len(group)
  BY DEF IInv, TypeOK, SoFar
<1> QED
  BY <1>1 DEF IInv, SoFar

----------------------------------------------------------------------------
(***************************************************************************)
(* get_qubit_pairing.  Its loop over the qubits is a recursive function    *)
(* here: PairInv is its loop invariant, and is proved by induction.        *)
(***************************************************************************)
Elements(seq) == {seq[i] : i \in 1..Len(seq)}
Injective(seq) == \A i, j \in 1..Len(seq) : seq[i] = seq[j] => i = j

LEMMA AppendFacts ==
    ASSUME NEW S, NEW seq \in Seq(S), NEW x \in S
    PROVE  /\ Append(seq, x) \in Seq(S) /\ Len(Append(seq, x)) = Len(seq) + 1 /\ Len(seq) \in Nat
           /\ \A i \in 1..Len(seq) : Append(seq, x)[i] = seq[i]
           /\ Append(seq, x)[Len(seq) + 1] = x
           /\ Elements(Append(seq, x)) = Elements(seq) \cup {x}
           /\ Injective(seq) /\ x \notin Elements(seq) => Injective(Append(seq, x))
<1> DEFINE longer == Append(seq, x)
<1>1. /\ longer \in Seq(S) /\ Len(longer) = Len(seq) + 1 /\ Len(seq) \in Nat
      /\ \A i \in 1..Len(seq) : longer[i] = seq[i]
      /\ longer[Len(seq) + 1] = x
  OBVIOUS
<1> HIDE DEF longer
<1>2. \A i \in 1..Len(longer) : i \in 1..Len(seq) \/ i = Len(seq) + 1
  BY <1>1
<1>3. \A i \in 1..Len(seq) : i \in 1..Len(longer)
  BY <1>1
<1>4. Len(seq) + 1 \in 1..Len(longer)
  BY <1>1
<1>5. Elements(longer) = Elements(seq) \cup {x}
  BY <1>1, <1>2, <1>3, <1>4 DEF Elements
<1>6. Injective(seq) /\ x \notin Elements(seq) => Injective(longer)
  BY <1>1, <1>2 DEF Elements, Injective
<1> QED
  BY <1>1, <1>5, <1>6 DEF longer

LEMMA ConcatFacts ==
    ASSUME NEW S, NEW a \in Seq(S), NEW b \in Seq(S)
    PROVE  /\ a \o b \in Seq(S)
           /\ Elements(a \o b) = Elements(a) \cup Elements(b)
           /\ Injective(a) /\ Injective(b) /\ Elements(a) \cap Elements(b) = {} => Injective(a \o b)
<1> DEFINE c == a \o b
<1>1. /\ c \in Seq(S) /\ Len(c) = Len(a) + Len(b) /\ Len(a) \in Nat /\ Len(b) \in Nat
      /\ \A i \in 1..Len(a) : c[i] = a[i]
      /\ \A i \in 1..Len(b) : c[Len(a) + i] = b[i]
  OBVIOUS
<1> HIDE DEF c
<1>2. \A i \in 1..Len(c) : i \in 1..Len(a) \/ (i - Len(a) \in 1..Len(b) /\ c[i] = b[i - Len(a)])
  <2> SUFFICES ASSUME NEW i \in 1..Len(c), i \notin 1..Len(a)
               PROVE  i - Len(a) \in 1..Len(b) /\ c[i] = b[i - Len(a)]
    OBVIOUS
  <2>1. i - Len(a) \in 1..Len(b) /\ Len(a) + (i - Len(a)) = i
    BY <1>1
  <2> QED
    BY <1>1, <2>1
<1>3. /\ \A i \in 1..Len(a) : i \in 1..Len(c)
      /\ \A i \in 1..Len(b) : Len(a) + i \in 1..Len(c)
  BY <1>1
<1>4. Elements(c) = Elements(a) \cup Elements(b)
  <2>1. Elements(c) \subseteq Elements(a) \cup Elements(b)
    BY <1>1, <1>2 DEF Elements
  <2>2. Elements(a) \subseteq Elements(c) /\ Elements(b) \subseteq Elements(c)
    BY <1>1, <1>3 DEF Elements
  <2> QED
    BY <2>1, <2>2
<1>5. ASSUME Injective(a), Injective(b), Elements(a) \cap Elements(b) = {} PROVE Injective(c)
  <2> SUFFICES ASSUME NEW i \in 1..Len(c), NEW j \in 1..Len(c), c[i] = c[j] PROVE i = j
    BY DEF Injective
  <2>1. CASE i \in 1..Len(a) /\ j \in 1..Len(a)
    BY <1>1, <1>5, <2>1 DEF Injective
  <2>2. CASE i \notin 1..Len(a) /\ j \notin 1..Len(a)
    <3>1. i - Len(a) = j - Len(a)
      BY <1>2, <1>5, <2>2 DEF Injective
    <3> QED
      BY <1>1, <3>1
  <2>3. ASSUME NEW x \in 1..Len(a), NEW y \in 1..Len(c), y \notin 1..Len(a) PROVE c[x] # c[y]
    <3>1. c[x] \in Elements(a)
      BY <1>1, <2>3 DEF Elements
    <3>2. c[y] \in Elements(b)
      BY <1>2, <2>3 DEF Elements
    <3> QED
      BY <1>5, <3>1, <3>2
  <2>4. (i \in 1..Len(a)) <=> (j \in 1..Len(a))
    BY <2>3
  <2> QED
    BY <2>1, <2>2, <2>4
<1> QED
  BY <1>1, <1>4, <1>5 DEF c

\* A qubit's location is in the zone.
InZone(s, q) == s.qubit_to_locations[q] \in Zone

PairLists == [controls : Seq(Qubits), targets : Seq(Qubits), unpaired : Seq(Qubits),
              visited : SUBSET Qubits]

\* What holds of the lists once the qubits up to k have been looked at.
PairInv(s, p, k) ==
    /\ p \in PairLists
    /\ Len(p.controls) = Len(p.targets)
    /\ \A q \in Qubits : q <= k => q \in p.visited
    /\ Elements(p.controls) \cup Elements(p.targets) \cup Elements(p.unpaired)
          = {q \in p.visited : InZone(s, q)}
    /\ \A q \in p.visited : InZone(s, q) => Opposite(s, q) \in p.visited \cup {Nobody}
    /\ Injective(p.controls) /\ Injective(p.targets) /\ Injective(p.unpaired)
    /\ Elements(p.controls) \cap Elements(p.targets) = {}
    /\ (Elements(p.controls) \cup Elements(p.targets)) \cap Elements(p.unpaired) = {}
    /\ \A i \in 1..Len(p.controls) :
          /\ p.controls[i] < p.targets[i]
          /\ Partner[s.qubit_to_locations[p.controls[i]]] = s.qubit_to_locations[p.targets[i]]
    /\ \A i \in 1..Len(p.unpaired) : Opposite(s, p.unpaired[i]) = Nobody

\* Two atoms at partner sites are opposite each other.
LEMMA OppositeIsMutual ==
    ASSUME MutualPartners, NEW s \in AtomStateData, InSync(s), NEW q \in Qubits, InZone(s, q),
           Opposite(s, q) # Nobody
    PROVE  /\ Opposite(s, q) \in Qubits \ {q} /\ InZone(s, Opposite(s, q))
           /\ Opposite(s, Opposite(s, q)) = q
           /\ Partner[s.qubit_to_locations[q]] = s.qubit_to_locations[Opposite(s, q)]
<1> DEFINE at == s.qubit_to_locations[q]
           site == Partner[at]
           r == s.locations_to_qubit[site]
<1>1. at \in Zone /\ at \in Locations /\ site \in Locations \cup {Nowhere}
  BY ArchAssumption DEF InZone
<1>2. site # Nowhere /\ Opposite(s, q) = r
  BY DEF Opposite
<1>3. site \in Zone /\ site # at /\ Partner[site] = at /\ site \in Locations
  BY <1>1, <1>2 DEF MutualPartners
<1>4. r \in Qubits
  BY <1>2, <1>3 DEF AtomStateData
<1>5. s.qubit_to_locations[r] = site /\ s.locations_to_qubit[at] = q
  BY <1>1, <1>3, <1>4 DEF InSync
<1>6. at # Nowhere
  BY <1>1, ArchAssumption
<1>7. Opposite(s, r) = q
  BY <1>3, <1>5, <1>6 DEF Opposite
<1>8. r # q
  BY <1>3, <1>5
<1> QED
  BY <1>2, <1>3, <1>4, <1>5, <1>7, <1>8 DEF InZone

LEMMA PairedKeepsInv ==
    ASSUME MutualPartners, NEW s \in AtomStateData, InSync(s), NEW q \in Qubits, NEW p,
           PairInv(s, p, q - 1)
    PROVE  PairInv(s, Paired(s, p, q), q)
<1> DEFINE r == Opposite(s, q)
<1>0. q \in Nat /\ q # Nobody /\ \A x \in Qubits : x \in Nat /\ (x <= q => x <= q - 1 \/ x = q)
  BY DEF Qubits, Nobody
<1>1. CASE q \in p.visited \/ ~ InZone(s, q)
  <2>1. Paired(s, p, q) = [p EXCEPT !.visited = p.visited \cup {q}]
    BY <1>1 DEF Paired, InZone
  <2>2. PICK t : t = Paired(s, p, q)
    OBVIOUS
  <2>3. /\ t \in PairLists /\ t.controls = p.controls /\ t.targets = p.targets
        /\ t.unpaired = p.unpaired /\ t.visited = p.visited \cup {q}
    BY <2>1, <2>2 DEF PairInv, PairLists
  <2>4. PairInv(s, t, q)
    BY <1>0, <1>1, <2>3 DEF PairInv
  <2> QED
    BY <2>2, <2>4
<1>2. CASE q \notin p.visited /\ InZone(s, q) /\ r = Nobody
  <2>1. PICK t : t = Paired(s, p, q)
    OBVIOUS
  <2>2. /\ t \in PairLists /\ t.controls = p.controls /\ t.targets = p.targets
        /\ t.unpaired = Append(p.unpaired, q) /\ t.visited = p.visited \cup {q}
    <3>1. t = [p EXCEPT !.unpaired = Append(p.unpaired, q), !.visited = p.visited \cup {q}]
      BY <1>2, <2>1 DEF Paired, InZone
    <3>2. Append(p.unpaired, q) \in Seq(Qubits)
      BY DEF PairInv, PairLists
    <3> QED
      BY <3>1, <3>2 DEF PairInv, PairLists
  <2>3. q \notin Elements(p.controls) /\ q \notin Elements(p.targets) /\ q \notin Elements(p.unpaired)
    BY <1>2 DEF PairInv
  <2>4. p.unpaired \in Seq(Qubits)
    BY DEF PairInv, PairLists
  <2> DEFINE u == t.unpaired
  <2>5. /\ Elements(u) = Elements(p.unpaired) \cup {q} /\ Injective(u)
        /\ Len(u) = Len(p.unpaired) + 1 /\ Len(p.unpaired) \in Nat
        /\ \A i \in 1..Len(p.unpaired) : u[i] = p.unpaired[i]
        /\ u[Len(p.unpaired) + 1] = q
    <3>1. Injective(p.unpaired)
      BY DEF PairInv
    <3> QED
      BY <2>2, <2>3, <2>4, <3>1, AppendFacts
  <2>6. \A i \in 1..Len(u) : Opposite(s, u[i]) = Nobody
    <3>1. \A i \in 1..Len(u) : i \in 1..Len(p.unpaired) \/ i = Len(p.unpaired) + 1
      BY <2>5
    <3> QED
      BY <1>2, <2>5, <3>1 DEF PairInv
  <2>7. PairInv(s, t, q)
    BY <1>0, <1>2, <2>2, <2>3, <2>5, <2>6 DEF PairInv
  <2> QED
    BY <2>1, <2>7
<1>3. CASE q \notin p.visited /\ InZone(s, q) /\ r # Nobody
  <2>1. PICK t : t = Paired(s, p, q)
    OBVIOUS
  <2>2. /\ r \in Qubits \ {q} /\ InZone(s, r) /\ Opposite(s, r) = q
        /\ Partner[s.qubit_to_locations[q]] = s.qubit_to_locations[r]
    BY <1>3, OppositeIsMutual
  <2>3. r \notin p.visited
    BY <1>0, <1>3, <2>2 DEF PairInv
  <2>4. q < r
    <3>1. \A x \in Qubits : x <= q - 1 => x \in p.visited
      BY DEF PairInv
    <3>2. r \in Nat /\ r # q /\ ~ (r <= q - 1) /\ q \in Nat
      BY <1>0, <2>2, <2>3, <3>1
    <3> HIDE DEF r
    <3> QED
      BY <3>2
  <2>5. /\ t \in PairLists /\ t.controls = Append(p.controls, q) /\ t.targets = Append(p.targets, r)
        /\ t.unpaired = p.unpaired /\ t.visited = p.visited \cup {q, r}
    <3>1. t = [controls |-> Append(p.controls, q), targets |-> Append(p.targets, r),
               unpaired |-> p.unpaired, visited |-> p.visited \cup {q, r}]
      BY <1>3, <2>1 DEF Paired, InZone
    <3>2. Append(p.controls, q) \in Seq(Qubits) /\ Append(p.targets, r) \in Seq(Qubits)
      BY <2>2 DEF PairInv, PairLists
    <3> QED
      BY <2>2, <3>1, <3>2 DEF PairInv, PairLists
  <2>6. /\ q \notin Elements(p.controls) /\ q \notin Elements(p.targets) /\ q \notin Elements(p.unpaired)
        /\ r \notin Elements(p.controls) /\ r \notin Elements(p.targets) /\ r \notin Elements(p.unpaired)
    BY <1>3, <2>3 DEF PairInv
  <2>7. p.controls \in Seq(Qubits) /\ p.targets \in Seq(Qubits) /\ Injective(p.controls) /\ Injective(p.targets)
        /\ Len(p.controls) = Len(p.targets)
    BY DEF PairInv, PairLists
  <2> DEFINE c == t.controls
             d == t.targets
             n == Len(p.controls)
  <2>8. /\ Elements(c) = Elements(p.controls) \cup {q} /\ Injective(c) /\ Len(c) = n + 1 /\ n \in Nat
        /\ \A i \in 1..n : c[i] = p.controls[i]
        /\ c[n + 1] = q
    BY <2>5, <2>6, <2>7, AppendFacts
  <2>9. /\ Elements(d) = Elements(p.targets) \cup {r} /\ Injective(d) /\ Len(d) = n + 1
        /\ \A i \in 1..n : d[i] = p.targets[i]
        /\ d[n + 1] = r
    BY <2>2, <2>5, <2>6, <2>7, AppendFacts
  <2>10. \A i \in 1..Len(c) : c[i] < d[i] /\ Partner[s.qubit_to_locations[c[i]]] = s.qubit_to_locations[d[i]]
    <3> SUFFICES ASSUME NEW i \in 1..Len(c)
                 PROVE  c[i] < d[i] /\ Partner[s.qubit_to_locations[c[i]]] = s.qubit_to_locations[d[i]]
      OBVIOUS
    <3> HIDE DEF c, d, n, r
    <3>1. i \in 1..n \/ i = n + 1
      BY <2>8
    <3>2. CASE i = n + 1
      BY <2>2, <2>4, <2>8, <2>9, <3>2
    <3>3. CASE i \in 1..n
      <4>1. c[i] = p.controls[i] /\ d[i] = p.targets[i]
        BY <2>8, <2>9, <3>3
      <4>2. p.controls[i] < p.targets[i]
            /\ Partner[s.qubit_to_locations[p.controls[i]]] = s.qubit_to_locations[p.targets[i]]
        BY <3>3 DEF PairInv, n
      <4> QED
        BY <4>1, <4>2
    <3> QED
      BY <3>1, <3>2, <3>3
  <2>11. Elements(c) \cup Elements(d) \cup Elements(t.unpaired) = {x \in t.visited : InZone(s, x)}
    BY <1>3, <2>2, <2>5, <2>8, <2>9 DEF PairInv
  <2>12. /\ Elements(c) \cap Elements(d) = {}
         /\ (Elements(c) \cup Elements(d)) \cap Elements(t.unpaired) = {}
    BY <2>2, <2>5, <2>6, <2>8, <2>9 DEF PairInv
  <2>13. \A x \in Qubits : x <= q => x \in t.visited
    BY <1>0, <2>5 DEF PairInv
  <2>14. \A x \in t.visited : InZone(s, x) => Opposite(s, x) \in t.visited \cup {Nobody}
    BY <2>2, <2>5 DEF PairInv
  <2>15. PairInv(s, t, q)
    BY <2>5, <2>8, <2>9, <2>10, <2>11, <2>12, <2>13, <2>14 DEF PairInv
  <2> QED
    BY <2>1, <2>15
<1> QED
  BY <1>1, <1>2, <1>3

\* The lists get_qubit_pairing returns.
LEMMA PairingInv ==
    ASSUME MutualPartners, NEW s \in AtomStateData, InSync(s)
    PROVE  PairInv(s, Pairing(s), N)
<1> DEFINE none == [controls |-> << >>, targets |-> << >>, unpaired |-> << >>, visited |-> {}]
           Solves(f, m) == f = [q \in 0..m |-> IF q = 0 THEN none ELSE Paired(s, f[q - 1], q)]
           U == CHOOSE f : Solves(f, N)
<1>0. N \in Nat
  BY ArchAssumption
<1>1. \A m \in Nat : \E f : Solves(f, m)
  <2> DEFINE S == {m \in Nat : \E f : Solves(f, m)}
  <2>1. 0 \in S
    <3>1. Solves([k \in 0..0 |-> none], 0)
      OBVIOUS
    <3> QED BY <3>1
  <2>2. ASSUME NEW m \in Nat, m \in S PROVE m + 1 \in S
    <3>1. PICK f : Solves(f, m)
      BY <2>2
    <3> DEFINE g == [k \in 0..(m + 1) |-> IF k = m + 1 THEN Paired(s, f[m], k) ELSE f[k]]
    <3>2. ASSUME NEW k \in 0..(m + 1)
          PROVE  g[k] = IF k = 0 THEN none ELSE Paired(s, g[k - 1], k)
      <4>1. CASE k = m + 1
        <5>1. k - 1 = m /\ m # m + 1 /\ k # 0 /\ m \in 0..(m + 1)
          BY <4>1
        <5>2. g[k] = Paired(s, f[m], k) /\ g[m] = f[m]
          BY <5>1, <4>1
        <5> HIDE DEF g, none
        <5> QED BY <5>1, <5>2
      <4>2. CASE k \in 0..m /\ k # 0
        <5>1. k - 1 \in 0..m /\ k # m + 1 /\ k - 1 # m + 1 /\ k - 1 \in 0..(m + 1)
          BY <4>2
        <5>2. g[k] = f[k] /\ g[k - 1] = f[k - 1]
          BY <5>1, <4>2
        <5>3. f[k] = Paired(s, f[k - 1], k)
          BY <3>1, <4>2
        <5> HIDE DEF g, none
        <5> QED BY <5>1, <5>2, <5>3, <4>2
      <4>3. CASE k = 0
        <5>1. f[0] = none /\ 0 # m + 1
          BY <3>1
        <5> QED BY <5>1, <4>3
      <4> QED BY <4>1, <4>2, <4>3
    <3>3. Solves(g, m + 1)
      <4> HIDE DEF none
      <4> QED BY <3>2
    <3> HIDE DEF g
    <3> QED BY <3>3
  <2> HIDE DEF S
  <2>3. Nat \subseteq S
    BY <2>1, <2>2, Induction
  <2> QED BY <2>3 DEF S
<1>2. Solves(U, N)
  <2>1. PICK f : Solves(f, N)
    BY <1>0, <1>1
  <2> HIDE DEF Solves
  <2> QED BY <2>1
<1>3. Pairing(s) = U[N]
  BY DEF Pairing
<1> HIDE DEF U
<1> DEFINE S == {k \in Nat : k <= N => PairInv(s, U[k], k)}
<1>4. 0 \in S
  <2>1. U[0] = none
    BY <1>0, <1>2
  <2>2. /\ none \in PairLists /\ none.controls = << >> /\ none.targets = << >>
        /\ none.unpaired = << >> /\ none.visited = {}
    BY DEF PairLists
  <2>3. Elements(<< >>) = {} /\ Injective(<< >>) /\ \A i : i \notin 1..Len(<< >>)
    BY DEF Elements, Injective
  <2>4. \A q \in Qubits : ~ (q <= 0)
    BY DEF Qubits
  <2> HIDE DEF none
  <2>5. PairInv(s, none, 0)
    BY <2>2, <2>3, <2>4 DEF PairInv
  <2> QED BY <2>1, <2>5
<1>5. ASSUME NEW k \in Nat, k \in S PROVE k + 1 \in S
  <2> SUFFICES ASSUME k + 1 <= N PROVE PairInv(s, U[k + 1], k + 1)
    OBVIOUS
  <2>1. PairInv(s, U[k], k) /\ k + 1 \in Qubits /\ (k + 1) - 1 = k
    BY <1>0, <1>5 DEF Qubits
  <2>2. U[k + 1] = Paired(s, U[k], k + 1)
    <3>1. k + 1 \in 0..N /\ k + 1 # 0
      BY <1>0
    <3> HIDE DEF none
    <3> QED BY <1>2, <2>1, <3>1
  <2> QED BY <2>1, <2>2, PairedKeepsInv
<1> HIDE DEF S
<1>6. Nat \subseteq S
  BY <1>4, <1>5, Induction
<1>7. PairInv(s, U[N], N)
  <2>1. N \in S
    BY <1>0, <1>6
  <2> QED BY <1>0, <2>1 DEF S
<1> QED BY <1>3, <1>7

LEMMA PairingIsExact ==
    ASSUME MutualPartners, IInv
    PROVE  PairingExact
<1> DEFINE p == Pairing(held)
           pairs == p.controls \o p.targets
           listed == pairs \o p.unpaired
<1>1. PairInv(held, p, N)
  BY PairingInv DEF IInv, TypeOK, MapsAgree
<1> HIDE DEF p
<1>2. p.controls \in Seq(Qubits) /\ p.targets \in Seq(Qubits) /\ p.unpaired \in Seq(Qubits)
      /\ p.visited = Qubits
  <2>1. \A q \in Qubits : q <= N
    BY ArchAssumption DEF Qubits
  <2> QED
    BY <1>1, <2>1 DEF PairInv, PairLists
<1>3. /\ pairs \in Seq(Qubits) /\ Elements(pairs) = Elements(p.controls) \cup Elements(p.targets)
      /\ Injective(pairs)
  BY <1>1, <1>2, ConcatFacts DEF PairInv
<1> HIDE DEF pairs
<1>4. /\ Elements(listed) = Elements(pairs) \cup Elements(p.unpaired)
      /\ Injective(listed)
  BY <1>1, <1>2, <1>3, ConcatFacts DEF PairInv
<1>5. Elements(listed) = {q \in Qubits : held.qubit_to_locations[q] \in Zone}
  BY <1>1, <1>2, <1>3, <1>4 DEF PairInv, InZone
<1> HIDE DEF listed
<1>6. /\ Len(p.controls) = Len(p.targets)
      /\ {listed[i] : i \in 1..Len(listed)} = {q \in Qubits : held.qubit_to_locations[q] \in Zone}
      /\ \A i, j \in 1..Len(listed) : listed[i] = listed[j] => i = j
      /\ \A i \in 1..Len(p.controls) :
             /\ p.controls[i] < p.targets[i]
             /\ Partner[held.qubit_to_locations[p.controls[i]]] = held.qubit_to_locations[p.targets[i]]
      /\ \A i \in 1..Len(p.unpaired) : Opposite(held, p.unpaired[i]) = Nobody
  BY <1>1, <1>4, <1>5 DEF PairInv, Elements, Injective
<1> QED
  BY <1>6 DEF PairingExact, p, pairs, listed

----------------------------------------------------------------------------
LEMMA Inductive == Spec => []IInv
<1>1. Init => IInv
  BY InitInv
<1>2. IInv /\ [Next]_vars => IInv'
  BY NextInv
<1> QED
  BY <1>1, <1>2, PTL DEF Spec

\* AtomStateData keeps its type, and a call that is refused or has ended leaves
\* the caller with one whole state.
THEOREM TypeCorrect == Spec => []TypeOK
<1>1. IInv => TypeOK
  BY DEF IInv
<1> QED
  BY <1>1, Inductive, PTL

\* The forward and the reverse index are one relation after any sequence of
\* batches, moves, chains and collisions, during every call included.
THEOREM MapsAlwaysAgree == Spec => []MapsAgree
<1>1. IInv => MapsAgree
  BY DEF IInv
<1> QED
  BY <1>1, Inductive, PTL

\* A collided atom is in one collision and nowhere else.
THEOREM CollisionsStayDisjoint == Spec => []CollisionsDisjoint
<1>1. IInv => CollisionsDisjoint
  BY DEF IInv
<1> QED
  BY <1>1, Inductive, PTL

\* No step loses track of an atom.
THEOREM AtomsAreKept == Spec => NoAtomLost
<1>1. IInv /\ [Next]_vars => [Located(result) \subseteq Located(result') \cup Collided(result')]_vars
  BY NextInv DEF Kept
<1> QED
  BY <1>1, Inductive, PTL DEF Spec, NoAtomLost

\* Lanes that keep apart end, in any order, where the search's simultaneous
\* move puts them, for every architecture and however many lanes there are.
THEOREM ApartMovesTogether == Spec => []MovesTogether
<1>1. IInv => MovesTogether
  BY IInvImplies
<1> QED
  BY <1>1, Inductive, PTL

\* During a call prev_lanes names exactly the qubits whose count has grown in it.
THEOREM MovesAreCounted == Spec => []MovedIsCounted
<1>1. IInv => MovedIsCounted
  BY DEF IInv
<1> QED
  BY <1>1, Inductive, PTL

\* Where partnership is mutual, the pairing of a zone lists each of its atoms
\* once, in a pair of partner sites or unpaired, in every state of the caller
\* (get_qubit_pairing).
THEOREM PairingTheorem ==
    ASSUME MutualPartners
    PROVE  Spec => []PairingExact
<1>1. IInv => PairingExact
  BY PairingIsExact
<1> QED
  BY <1>1, Inductive, PTL
=============================================================================
