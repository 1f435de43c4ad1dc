SPECIFICATION KernelSpec
CONSTANTS
    NoValue = NoValue
    Immediates = {}
    Instructions = {}
    Sites = 2
    Kernels <- TwoRecords
INVARIANTS
    RecordsKept
CHECK_DEADLOCK FALSE
