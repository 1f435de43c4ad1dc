SPECIFICATION ArchGridsSpec
CONSTANTS
    Locations <- MCLocations
    Calls <- MCCalls
    Jobs <- MCJobs
INVARIANTS
    GridsSafe
    MoversCovered
    NothingToMerge
    LeadsAsBuilt
    LanesResolve
    PartnersAreNeighbours
    PathsClear
    OwnGridsPass
CHECK_DEADLOCK FALSE
