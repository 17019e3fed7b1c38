SPECIFICATION FairSpec
CONSTANTS
    Requests = {r1, r2}
    Branches = {b1}
    Defs <- MCDefs
    None = None
    MaxVersion = 3
    MaxRequests = 4
INVARIANTS LiveIsPublished EventChain MergedWasReviewed ProjectLinkSettles
PROPERTY EventuallyFresh
CHECK_DEADLOCK FALSE
