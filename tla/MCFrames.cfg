SPECIFICATION FramesSpec
CONSTANTS
    k_frames = 2
    ImageCount = 2
    Extents = {"small", "large"}
    Faults <- FaultNames
    RingSlots = 2
    ImageCounts = {2, 3}
    MaxValue = 4
INVARIANTS
    FramesIdle
    SignalsUnsignalled
    RecoversCleanly
    RingSafe
PROPERTIES
    CompletesAfterItsWork
    RecoveryReturns
CHECK_DEADLOCK FALSE
