SPECIFICATION GraphsSpec
CONSTANTS
    Compute = Compute
    Graphics = Graphics
    Focuses = {"plan", "record", "sets", "heap", "transfer"}
    StepKinds = {"custom", "complete", "partial", "silent", "bind"}
    Objects = {"a", "b"}
    MaxPasses = 3
    Queues <- TwoQueues
    DefaultQueue = Compute
    PresentQueue = Graphics
    MaxSteps = 4
    MaxHazards = 1
    MaxNesting = 3
    Slots = {0, 1}
    Accesses = {"readonly", "readwrite"}
    SetIds = {"s1"}
    MaxBindings = 2
    Devices <- MCDevices
    HeapSlots = 2
    MaxEntries = 2
    MaxTransfers = 4
    MaxGraphs = 2
INVARIANTS
    PlanOrdered
    SyncMatches
    RefusedForCause
    BranchesFree
    RecordingFaithful
    RetiredOnce
    MetadataTruthful
    HeapFaithful
    TransfersRight
CHECK_DEADLOCK FALSE
