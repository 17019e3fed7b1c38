SPECIFICATION Spec
CONSTANTS
  Clients = {c1, c2}
  Plugins = {x1, x2}
  Versions = {v1, v2}
  Projects = {p1}
  Instances = {i1, i2}
  Workspaces = {w1, w2}
  None = None
  Tokens = {1, 2}
  MaxUses = 1
  Budget <- SmallBudget
  Quota = 3
  Rpm = 3
  Limit = 2
  Requested = {0, 1, 2, 3}
  SourceKinds = {"sql", "rest"}
  MaxTurns = 3
  MaxRestarts = 1
  MaxEvents = 5
  MaxRequests = 3
  MaxCrashes = 1
  MaxRegistrations = 3
  MaxOthers = 2
  MaxVersions = 2
  MaxEdits = 4
  MaxSubmissions = 2
  MaxChanges = 1
  MaxFaults = 1
SYMMETRY Symmetry
INVARIANTS AgentsAccounted RegistrationsSound SourcesSound SubmissionsSound
CHECK_DEADLOCK FALSE
