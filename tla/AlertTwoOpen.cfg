SPECIFICATION Spec
CONSTANTS
  r1 = r1
  r2 = r2
  p1 = p1
  p2 = p2
  Nodes = {n1}
  Rules = {r1}
  Playbooks = {p1, p2}
  PlaybookFor <- OnePlaybook
  None = None
  Workers = {w1, w2}
  AlertIds = {i1, i2}
  ActionIds = {a1, a2}
  Times <- MCTimes
  Verdicts <- AllVerdicts
  EscalationAfter = 1
  RemediationAfter = 2
  Cooldown = 2
  Hour = 1
  MaxPerHour = 1
  Serial = FALSE
  CommitsFail = FALSE
SYMMETRY Symmetry
INVARIANTS OneOpenAlert
CHECK_DEADLOCK FALSE
