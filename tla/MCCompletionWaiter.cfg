SPECIFICATION WaiterSpec
CONSTANTS
    j1 = j1
    j2 = j2
    NoJob = NoJob
    Jobs <- TwoJobs
    Stoppable <- NoJobs
    Kinds <- AllKinds
    RetireAttempts = 2
    WaitFaults = TRUE
INVARIANTS
    WaiterSafe
PROPERTIES
    ImplementsContract
    WaiterProgress
    WaiterIndependent
CHECK_DEADLOCK FALSE
