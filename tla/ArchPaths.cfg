SPECIFICATION ArchGridsSpec
CONSTANTS
    Locations <- MCLocations
    Calls <- NoCalls
    Jobs <- Uneven
INVARIANTS
    PathsFollowLanes
CHECK_DEADLOCK FALSE
