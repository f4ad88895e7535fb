SPECIFICATION ProgressSpec
CONSTANTS
    Plans <- AllPlans
    Presenting <- Both
    Timelines <- Both
    RetireAttempts = 3
    Faults = TRUE
    Clients = {"c1", "c2"}
    Tasks = {"t1", "t2", "t3"}
    Contexts = {"A", "B"}
    Jobs = {"j1", "j2", "j3"}
    ThreadOf <- MCThreadOf
    HandlesOf <- MCHandlesOf
    MaxFrames = 3
    MaxDraws = 3
    Callers = {"u", "v"}
INVARIANTS
    ObjectsHeld
    OutcomeTrue
    DeletionSafe
    FrameDataIdle
    DrawsTellTruth
    WaitsSound
PROPERTIES
    EventuallyCompletes
    AgentProgress
    ImplementsContract
    ContextsRetire
    FramesFlow
    DrawsComplete
    CallersReturn
CHECK_DEADLOCK FALSE
