SPECIFICATION PipelineSpec
CONSTANTS
    NoValue = NoValue
    off = off
    Sites = 2
    Kernels <- Linear
    Immediates <- AllImmediates
    Instructions <- AllInstructions
    Alphabets <- MCAlphabets
    KnownTypes = {"word"}
    Width = 65536
    RefusedAddresses = {off}
    RefusedGroups = {{"a", "b", off}}
    FeedForward = FALSE
    AtomReloading = TRUE
    MaxLength = 6
    MaxErrors = 1
INVARIANTS
    FailsWhereReported
    AcceptedOperandsTyped
    ComesBackMirrored
    KernelsAccepted
    RoundTrip
PROPERTIES
    ValidatorRuns
    DecoderRuns
CHECK_DEADLOCK FALSE
