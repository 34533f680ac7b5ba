SPECIFICATION FairSpec
CONSTANTS
  AlertIds = {i1}
  ActionIds = {a1, a2}
  SampleIds = {s1}
  AlertRetention = 1
  ActionRetention = 2
  SampleRetention = 1
  BatchSize = 1
  Cooldown = 2
  MaxTime = 3
INVARIANTS NoDanglingAction SweepPrunes
PROPERTIES OnlyExpiredGoes ExpiredIsPruned CooldownSurvivesPruning
