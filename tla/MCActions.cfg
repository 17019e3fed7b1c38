SPECIFICATION MCSpec
CONSTANTS
    Approvals = {a1, a2}
    Actions = {close, tag}
    Instances = {i1}
    Props = {p1, p2}
    Users = {u1}
    Workers = {w1, w2}
    Definitions <- Redefined
    InitDef <- WideActions
    None = None
    MaxInvocations = 4
    MaxFew = 3
    close = close
    tag = tag
    p1 = p1
    p2 = p2
SYMMETRY Symmetry
INVARIANTS
    CapturedIsCurrent
    SerialReplay
    SerialCompensation
PROPERTIES
    ImplementsLifecycle
