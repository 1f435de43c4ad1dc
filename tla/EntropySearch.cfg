SPECIFICATION Spec
CONSTANTS
    q1 = q1
    q2 = q2
    Qubits <- MCQubits
    Locations <- MCLocations
    Lanes <- MCLanes
    LanesOf <- MCLanesOf
    Configs <- MCConfigs
    MoveSets <- MCMoveSets
    Costs <- MCCosts
    Problems <- MCProblems
INVARIANTS
    NoShallowerGoal
    ResumeSound
    SolutionReplays
CHECK_DEADLOCK FALSE
