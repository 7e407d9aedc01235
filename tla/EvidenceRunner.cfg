SPECIFICATION Spec
CONSTANTS
    MaxTools = 2
    MaxTerms = 2
INVARIANTS
    ReceiptMeansClean
    SuccessMeansFinalized
    FinalizedUnlessUnproven
PROPERTIES
    MaterialOutlivesTool
    RunnerEnds
CHECK_DEADLOCK FALSE
