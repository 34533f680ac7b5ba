SPECIFICATION Spec
CONSTANTS
  r1 = r1
  r2 = r2
  p1 = p1
  p2 = p2
  Nodes = {n1}
  Rules = {r1, r2}
  Playbooks = {p1, p2}
  PlaybookFor <- TwoPlaybooks
  None = None
  Workers = {w1}
  AlertIds = {i1, i2}
  ActionIds = {a1, a2}
  Times <- SparseTimes
  Verdicts <- PlainVerdicts
  EscalationAfter = 0
  RemediationAfter = 0
  Cooldown = 3
  Hour = 1
  MaxPerHour = 1
  Serial = TRUE
  CommitsFail = TRUE
SYMMETRY RuleSymmetry
INVARIANTS TypeOK OneOpenAlert CooldownRespected RateLimitRespected OneSentPerAlert EscalatedFirst SentIsSettled
PROPERTIES ResolvedIsFinal AcknowledgedIsLeftAlone ImplementsStages
CHECK_DEADLOCK FALSE
