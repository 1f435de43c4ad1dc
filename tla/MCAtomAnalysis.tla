-------------------------- MODULE MCAtomAnalysis --------------------------
(***************************************************************************)
(* Two atoms on a line of three sites, with the lanes between them.        *)
(***************************************************************************)
EXTENDS AtomAnalysis

CONSTANTS a1, a2, b2

MCLocations == {a1, a2, b2}
MCLanes == {"site a", "site a back", "word 2"}
MCEndpoints == [lane \in MCLanes |-> CASE lane = "site a"      -> <<a1, a2>>
                                       [] lane = "site a back" -> <<a2, a1>>
                                       [] lane = "word 2"      -> <<a2, b2>>]
MCPartner == [l \in MCLocations |-> CASE l = a1 -> Nowhere [] l = a2 -> b2 [] l = b2 -> a2]
MCGroups == {<<lane>> : lane \in MCLanes}
=============================================================================
