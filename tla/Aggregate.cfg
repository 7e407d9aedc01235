SPECIFICATION Spec
CONSTANTS
    MaxProbes = 2
    MaxSignals = 2
INVARIANTS
    PassedMeansAdmitted
    CancellationReachesHelper
    LeavesNothingUnexplained
PROPERTIES
    RemovalOnlyAfterProof
    AggregateEnds
CHECK_DEADLOCK FALSE
