SPECIFICATION MCFairSpec
CHECK_DEADLOCK FALSE
CONSTANTS
    Approvals = {a1, a2}
    MaxCopies = 1
    MaxRestarts = 2
    Faults <- AllFaults
INVARIANTS
    NoWriteWithoutApproval
    CompletedIsWritten
    FailedIsRecorded
PROPERTIES
    SettlesUnlessAbandoned
