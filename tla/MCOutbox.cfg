SPECIFICATION RelayFairSpec
CONSTANTS
    Events = {e1, e2, e3}
    Poison = {e3}
    Relays = {r1, r2}
    Limit = 2
INVARIANTS
    OnlyCommittedOnTopic
    StampedIsOnTopic
    CausalOrder
PROPERTIES
    EventuallyRelayed
