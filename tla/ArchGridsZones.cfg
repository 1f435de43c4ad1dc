SPECIFICATION ArchGridsSpec
CONSTANTS
    Locations <- MCLocations
    Calls <- NoCalls
    Jobs <- TwoZonesTogether
INVARIANTS
    GridsPassCheckLanes
CHECK_DEADLOCK FALSE
