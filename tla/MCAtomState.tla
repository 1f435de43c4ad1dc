---------------------------- MODULE MCAtomState ----------------------------
(***************************************************************************)
(* Three atoms, a zone of two words with two sites each, whose words are   *)
(* CZ partners site by site, and a site of another zone.  The lanes form   *)
(* chains and a cycle, and one is refused by lane_endpoints.               *)
(***************************************************************************)
EXTENDS AtomState

CONSTANTS a1, a2, b1, b2, c2

MCLocations == {a1, a2, b1, b2, c2}
MCZone == {a1, a2, b1, b2}

MCLanes == {"site a", "site a back", "word 2", "zone back", "refused"}

MCEndpoints ==
    [lane \in MCLanes |->
        CASE lane = "site a"      -> <<a1, a2>>
          [] lane = "site a back" -> <<a2, a1>>
          [] lane = "word 2"      -> <<a2, b2>>
          [] lane = "zone back"   -> <<c2, b2>>
          [] lane = "refused"     -> Nowhere]

MCPartner ==
    [l \in MCLocations |->
        CASE l = a1 -> b1 [] l = b1 -> a1 [] l = a2 -> b2 [] l = b2 -> a2 [] l = c2 -> Nowhere]

\* Every list of up to three lanes without repetition.
MCGroups ==
    UNION {{g \in [1..k -> MCLanes] : \A i, j \in 1..k : g[i] = g[j] => i = j} : k \in 0..3}
=============================================================================
