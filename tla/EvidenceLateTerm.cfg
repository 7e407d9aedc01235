\* One SIGTERM, at any moment of a run that may already be failing.
SPECIFICATION Spec
CONSTANTS
    Keyboard = FALSE
    ExternalReaper = FALSE
    MaxSignals = 1
CHECK_DEADLOCK FALSE
INVARIANTS
    CleanupNotAbandoned
