SPECIFICATION Spec
CONSTANTS
    MaxTools = 2
    MaxTerms = 1
INVARIANTS
    TerminationFinalizes
CHECK_DEADLOCK FALSE
