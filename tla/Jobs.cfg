SPECIFICATION FairSpec
CONSTANTS
  retention = retention
  staleness = staleness
  Jobs = {retention, staleness}
  None = None
  Interval <- MCInterval
  Threads = {t1, t2}
INVARIANTS LoopsExclusive
PROPERTIES NoStarvation StopTakesEffect
CHECK_DEADLOCK FALSE
