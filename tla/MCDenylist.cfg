SPECIFICATION FairSpec
CONSTANTS
    Principals = {p1}
    Tokens = {t1}
    FreshGroup = FALSE
    CommitMayFail = TRUE
    MaxEvents = 2
    MaxCopies = 2
    MaxRestarts = 1
INVARIANTS
    CaughtUpAgrees
PROPERTIES
    ReplaceDropsNothing
    EventuallyAgrees
