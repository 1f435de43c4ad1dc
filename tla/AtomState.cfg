SPECIFICATION Spec
CONSTANTS
    a1 = a1
    a2 = a2
    b1 = b1
    b2 = b2
    c2 = c2
    Nowhere = Nowhere
    N = 3
    MaxMoves = 2
    Locations <- MCLocations
    Lanes <- MCLanes
    Endpoints <- MCEndpoints
    Partner <- MCPartner
    Zone <- MCZone
    Groups <- MCGroups
INVARIANTS
    MapsAgree
    MovesTogether
    PairingExact
PROPERTIES
    NoAtomLost
