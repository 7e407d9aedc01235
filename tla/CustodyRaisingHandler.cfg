\* One thread and handlers that raise, like Python's own for SIGINT.
SPECIFICATION Spec
CONSTANTS
    Callers <- RaisingCaller
    Siblings = FALSE
    MaxSignals = 1
CHECK_DEADLOCK FALSE
INVARIANTS
    CallerStateAlwaysRestored
