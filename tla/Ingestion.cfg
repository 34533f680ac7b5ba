SPECIFICATION Spec
CONSTANTS
  Times = {0, 1, 3}
  Values = {0, 1}
  Comparison = "gt"
  Threshold = 0
  MaxDelta = 0
  Window = 2
  MaxCopies = 2
  MaxInFlight = 2
  None = None
INVARIANTS SamplesHaveNode AckedIsPersisted
PROPERTIES VerdictIsTrue
CHECK_DEADLOCK FALSE
