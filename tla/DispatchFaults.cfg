SPECIFICATION FairSpec
CONSTANTS
  Actions = {a1, a2}
  None = None
  DispatchTimeout = 1
  ActionRetention = 2
  RetryAttempts = 2
  MaxTime = 4
  MaxDispatch = 1
  Faults = TRUE
INVARIANTS AuditTruthful TimeoutIsDue
PROPERTIES AuditConverges ImplementsAuditLog
CHECK_DEADLOCK FALSE
