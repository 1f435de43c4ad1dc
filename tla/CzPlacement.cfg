SPECIFICATION FairPlacementSpec
CONSTANTS
    q1 = q1
    q2 = q2
    Nowhere = Nowhere
    Qubits <- MCQubits
    Configs <- MCConfigs
    MoveSets <- MCMoveSets
    Costs <- MCCosts
    Problems = {}
    Requests <- MCRequests
    Assignments <- MCAssignments
    Replay <- MCReplay
    Trajectories <- MCTrajectories
    PartnerOf <- MCPartnerOf
    WordOf <- MCWordOf
    HomeWords <- MCHomeWords
    Placements <- MCPlacements
    Toward <- MCToward
INVARIANTS
    AnswerIsBest
    CascadeBounded
    OutcomeExecutable
    StatusIsTrue
PROPERTIES
    PlacementReturns
CHECK_DEADLOCK FALSE
