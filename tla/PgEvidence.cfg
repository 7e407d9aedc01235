\* The evidence helper's TERM and KILL steps; one member refuses signals, the
\* kernel answers for zombies in every known way, odd errnos happen.
SPECIFICATION Spec
CONSTANTS
    leader = leader
    child = child
    setuid = setuid
    Procs <- AllProcs
    Leader = leader
    Protected = {setuid}
    ZombieAnswers = {"ok", "eperm", "esrch"}
    OddErrors = TRUE
    ExternalReaper = FALSE
    Steps <- EvidenceSteps
CHECK_DEADLOCK FALSE
INVARIANTS
    TypeOK
    ForeignUntouched
    KillCoversGroup
    AbandonedLeaderIsDoomed
PROPERTIES
    Terminates
    KeepsPromise
