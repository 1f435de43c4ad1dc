---------------------------- MODULE AtomAnalysis ----------------------------
(***************************************************************************)
(* The abstract interpretation that follows the atoms through a program    *)
(* (AtomInterpreter and the move.* methods in                              *)
(* python/bloqade/lanes/analysis/atom): Fill and Move applied to the       *)
(* AtomStateData of AtomState, with the atoms of a new collision put back  *)
(* where they were.                                                        *)
(*                                                                         *)
(* `held` is the current state of the program; "bottom" is the lattice's   *)
(* bottom, from which no statement leads back.  The gates and measurements *)
(* pass the state on unchanged.                                            *)
(***************************************************************************)
EXTENDS AtomState

\* The movers a call has added to the record of collisions; a mover that
\* collided before is not among them.
NewMovers(pre, post) ==
    {q \in Qubits : post.collision[q] # Nobody /\ pre.collision[q] = Nobody}

CollisionCount(s) == Cardinality({q \in Qubits : s.collision[q] # Nobody})

\* _restore_collisions_to_pre_move: both atoms of every new collision go back to
\* their positions in `pre`, over whatever `post` says of those positions.
Restored(pre, post) ==
    LET back == {q \in Qubits : \E m \in NewMovers(pre, post) : q \in {m, post.collision[m]}}
                \cap Located(pre)
    IN  [post EXCEPT
            !.qubit_to_locations = [q \in Qubits |->
                IF q \in back THEN pre.qubit_to_locations[q] ELSE post.qubit_to_locations[q]],
            !.locations_to_qubit = [l \in Locations |->
                IF \E q \in back : pre.qubit_to_locations[q] = l
                THEN CHOOSE q \in back : pre.qubit_to_locations[q] = l ELSE post.locations_to_qubit[l]]]

\* move_impl, once apply_moves has returned a state.
Settled(pre, post) ==
    IF CollisionCount(post) > CollisionCount(pre) THEN Restored(pre, post) ELSE post

----------------------------------------------------------------------------
\* fill_impl; the addresses of the statement are those of the qubits 1, 2, ...
Fill(k, placed) ==
    /\ pc = "idle" /\ DOMAIN placed = 1..k
    /\ AddAtoms(placed)

Settle ==
    /\ pc = "moving" /\ next > Len(group)
    /\ pc' = "idle"
    /\ held' = Settled(held, result)
    /\ result' = held'
    /\ UNCHANGED <<group, next>>

\* apply_moves returned None.
Bottom ==
    /\ Apply /\ Endpoints[Lane] = Nowhere
    /\ pc' = "bottom"
    /\ UNCHANGED <<result, next>>

AnalysisNext ==
    \/ \E k \in Qubits : \E placed \in [1..k -> Locations] : Fill(k, placed)
    \/ \E lanes \in Groups : Begin(lanes)
    \/ SkipEmpty \/ Shift \/ Collide \/ Settle \/ Bottom

AnalysisSpec == Init /\ [][AnalysisNext]_vars

----------------------------------------------------------------------------
\* What the documentation says of collisions: "the atoms must remain trackable",
\* so that later CZ and return moves find them (impl.py).  A mover that collides
\* a second time violates it: its record does not grow, and nothing is restored.
CollidedStayTrackable == pc = "idle" => Collided(held) \subseteq Located(held)
=============================================================================
