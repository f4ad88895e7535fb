SPECIFICATION TransferSpec
CONSTANTS
    MaxTransfers = 4
    MaxGraphs = 2
INVARIANTS
    CopiesArrive
CHECK_DEADLOCK FALSE
