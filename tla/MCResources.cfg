SPECIFICATION ResourcesSpec
CONSTANTS
    Resources = {"image", "buffer"}
    Images = {"image"}
    Queues = {"compute", "graphics", "second"}
    FamilyOf <- MCFamilyOf
    Declared <- MCDeclared
    MaxSteps = 4
    Top = 3
    Throws = TRUE
    Ops = {o1, o2}
    Kinds = {"fence", "wait", "manual"}
    ScopeFamily <- MCScopeFamily
    Pools = {"p1", "p2"}
    Sets = {"s1", "s2"}
    Bindings = {x, y}
    NoPool = "null"
    MaxBinds = 2
    Faults <- FaultNames
    Captures = {"c1", "c2"}
    Graphs = {"g"}
    RecorderFamily <- MCRecorderFamily
    Pages = {1, 2, 3}
    PairsPerPage = 1
    MaxInFlight = 3
    MaxCompleted = 2
    MaxRegions = 2
    MaxMade = 3
    PromotedIn <- MCPromotedIn
    MinimumApi = 0
    MaxApi = 3
    Holders = {"h1", "h2", "h3"}
    Targets = {"f1", "f2", "f3", "f4"}
    Small = {"f1", "f2"}
SYMMETRY Symmetry
INVARIANTS
    TrackerSound
    ScopesSafe
    NobodyStuck
    QueriesAccounted
    OwnershipKept
    CreationHonest
    CallablesOwned
PROPERTIES
    FailureChangesNothing
CHECK_DEADLOCK FALSE
