\* Ordinary and hostile callers, with a sibling thread that takes signals.
SPECIFICATION Spec
CONSTANTS
    Callers <- AnyCaller
    Siblings = TRUE
    MaxSignals = 2
CHECK_DEADLOCK FALSE
INVARIANTS
    CallerStateRestored
    CleanupAlwaysAttempted
    ResultMeansCleanExit
    CancellationHonoured
PROPERTIES
    UnwrapEnds
