SPECIFICATION TargetsSpec
CONSTANTS
    Inf = 100000
    Big = 1000
    Archs <- AllArchs
    Tasks <- MCTasks
    Returns <- MCReturns
INVARIANTS
    AssignmentOptimal
    PairsGetSlots
    TargetsMeetGoal
    RepairSeparates
    EstimateIsLow
    ReturnsReachHome
CHECK_DEADLOCK FALSE
