\* The custody adapter's single SIGKILL on XNU, where a group of zombies answers
\* EPERM, for a leader that itself may refuse signals and that another thread of
\* the caller may collect at any moment.
SPECIFICATION Spec
CONSTANTS
    leader = leader
    child = child
    setuid = setuid
    Procs <- AllProcs
    Leader = leader
    Protected = {leader, setuid}
    ZombieAnswers = {"eperm"}
    OddErrors = FALSE
    ExternalReaper = TRUE
    Steps <- CustodySteps
CHECK_DEADLOCK FALSE
INVARIANTS
    SuccessMeansAbsent
