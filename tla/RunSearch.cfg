SPECIFICATION FairSpec
CONSTANTS
    q1 = q1
    q2 = q2
    Qubits <- MCQubits
    Configs <- MCConfigs
    MoveSets <- MCMoveSets
    Costs <- MCCosts
    Problems <- MCProblems
INVARIANTS
    UnsolvableIsProved
    PathReplays
    AStarBounded
    BfsFewestMoves
    DepthLimitComplete
PROPERTIES
    GraphSpec
    Terminates
CHECK_DEADLOCK FALSE
