SPECIFICATION Spec
CONSTANTS
    Resources = {"image", "buffer"}
    Images = {"image"}
    Queues = {"compute", "graphics"}
    FamilyOf <- MCFamilyOf
    Declared <- MCDeclared
    MaxSteps = 3
    Top = 3
    Throws = TRUE
INVARIANT ReadersGuarded
