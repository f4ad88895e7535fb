SPECIFICATION Spec
CONSTANTS
    k_frames = 2
    ImageCount = 2
    Extents = {"small", "large"}
    Faults = {"rebuild"}
INVARIANTS
    ResizeRecreates
