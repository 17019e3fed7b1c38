SPECIFICATION Spec
CONSTANTS
    Ids = {1}
    Parents = {p}
    Markings = {m1, m2}
    Mixed = {m2}
    Values = {1}
    PageSize = 1
    Factor = 1
    MinBatch = 1
    MaxBatches = 2
    Ttl = 0
    MaxNodes = 3
    None = None
    MaxChanges = 2
    MaxReads = 1
    MaxTicks = 1
INVARIANTS
    CountsWhatIsRead
CHECK_DEADLOCK FALSE
