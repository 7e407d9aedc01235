\* SIGTERM, SIGINT as for a helper started by hand, the marker, a selected
\* process that may be reaped elsewhere: three signals at any moment.
SPECIFICATION Spec
CONSTANTS
    Keyboard = TRUE
    ExternalReaper = TRUE
    MaxSignals = 3
CHECK_DEADLOCK FALSE
INVARIANTS
    ReceiptMeansAbsent
    StatusMeansReceipt
    InterruptedRunCleansUp
    NeverKilledOverGroup
    CleanupIsCertifiedWithinLimits
PROPERTIES
    HelperEnds
    KeepsPromise
