SPECIFICATION Spec
CONSTANTS
    Plans <- ParallelPlans
    Presenting <- Both
    Timelines <- Both
    RetireAttempts = 2
    Faults = TRUE
INVARIANTS
    FailureReported
CHECK_DEADLOCK FALSE
