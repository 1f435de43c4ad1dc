SPECIFICATION EntanglingSpec
CONSTANTS
    Inf = 100000
    Big = 1000
    Archs <- MCArchs
    Tasks <- MCDense
INVARIANTS
    FallbackReturns
CHECK_DEADLOCK FALSE
