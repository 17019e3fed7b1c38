SPECIFICATION Spec
CONSTANTS
  Clients = {c1, c2}
  None = None
  Interfaces = {i1, i2, i3}
  Base = i1
  Derived = i2
  Payloads = {"x", "y"}
  Projects = {"p"}
  Drafts <- ThreeDrafts
  Ids = {1, 2}
  Vals = {"x"}
  Tables <- TwoTables
  Refreshers = {w1}
  Columns = {a, b}
  Consumer = consumer
  MaxRequests = 3
  MaxSyncs = 2
  MaxReindexes = 1
  MaxActions = 1
  MaxChanges = 1
  MaxWrites = 1
  MaxCommits = 2
  MaxPlans = 2
  MaxFaults = 1
SYMMETRY Symmetry
INVARIANTS InterfacesSound TypesGoverned SearchFollowsStore LinksFaithful ExecutionSound
CHECK_DEADLOCK FALSE
