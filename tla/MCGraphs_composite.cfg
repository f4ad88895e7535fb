SPECIFICATION GraphsSpec
CONSTANTS
    Compute = Compute
    Graphics = Graphics
    Focuses = {"plan"}
    StepKinds = {"custom", "complete", "partial", "silent", "bind"}
    Objects = {"a", "b"}
    MaxPasses = 3
    Queues <- TwoQueues
    DefaultQueue = Compute
    PresentQueue = Graphics
    MaxSteps = 4
    MaxHazards = 0
    MaxNesting = 2
    Slots = {0, 1}
    Accesses = {"readonly", "readwrite"}
    SetIds = {"s1"}
    MaxBindings = 2
    Devices <- MCDevices
    HeapSlots = 2
    MaxEntries = 2
    MaxTransfers = 1
    MaxGraphs = 1
INVARIANTS
    CompositeUnsplit
CHECK_DEADLOCK FALSE
