SPECIFICATION Spec
CONSTANTS
    Resources = {"image", "buffer"}
    Images = {"image"}
    Queues = {"compute", "graphics"}
    FamilyOf <- MCFamilyOf
    Declared <- MCDeclared
    MaxSteps = 4
    Top = 3
    Throws = FALSE
INVARIANT BufferReadersAwaited
