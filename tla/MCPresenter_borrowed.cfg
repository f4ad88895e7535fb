SPECIFICATION FairSpec
CONSTANTS
    k_frames = 2
    ImageCount = 2
    Extents = {"small"}
    Faults = {}
PROPERTIES
    DrawnFrameCompletes
