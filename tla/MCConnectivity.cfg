SPECIFICATION MCSpec
CONSTANTS
  Replicas = {r1, r2}
  Callers = {d1, d2, d3}
  Nobody = Nobody
  Topic <- ThreeMessages
  NoKey = "-"
  MaxFaults = 1
  MaxRequests = 1
  MaxLog = 3
  MaxRestarts = 2
  EventAttempts = 2
  DlqMayFail = TRUE
  CommitMayFail = TRUE
INVARIANTS StreamNotLost CommittedIsSettled
PROPERTIES StreamCatchesUp NoStarvation BreakerRecovers EventuallyCommitted
CHECK_DEADLOCK FALSE
