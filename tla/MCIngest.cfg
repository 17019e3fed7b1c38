SPECIFICATION Spec
CONSTANTS
    Replicas = {r1, r2}
    MaxRows = 2
    MaxCursor = 2
    MaxBoundary = 2
    MaxSnapshots = 1
    MaxEvents <- MCMaxEvents
    None = None
INVARIANTS RowsLandOnce NothingSkipped
PROPERTY EventuallyIngested
CHECK_DEADLOCK FALSE
