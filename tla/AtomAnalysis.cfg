SPECIFICATION AnalysisSpec
CONSTANTS
    a1 = a1
    a2 = a2
    b2 = b2
    Nowhere = Nowhere
    N = 2
    MaxMoves = 3
    Locations <- MCLocations
    Lanes <- MCLanes
    Endpoints <- MCEndpoints
    Partner <- MCPartner
    Zone <- MCLocations
    Groups <- MCGroups
INVARIANTS
    CollidedStayTrackable
CHECK_DEADLOCK FALSE
