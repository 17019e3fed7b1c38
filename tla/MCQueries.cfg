SPECIFICATION Spec
CONSTANTS
  Clients = {c1, c2}
  Callers = {k1}
  Permissions = {"approve"}
  Claims <- TwoLogins
  Markings = {m1, m2, m3}
  Clearance = m1
  Parents = {p}
  None = None
SYMMETRY Symmetry
INVARIANTS AccessSound ReadsGoverned
CHECK_DEADLOCK FALSE
