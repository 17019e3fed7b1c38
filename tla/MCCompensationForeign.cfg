SPECIFICATION MCSpec
CONSTANTS
    Approvals = {a1, a2}
    Actions = {close, tag}
    Instances = {i1}
    Props = {p1}
    Users = {u1}
    Workers = {w1}
    Definitions <- Fixed
    InitDef <- TwoActions
    None = None
    MaxInvocations = 2
    MaxFew = 2
    close = close
    tag = tag
    p1 = p1
    p2 = p2
SYMMETRY Symmetry
PROPERTIES
    CompensationDeletesOwnRows
