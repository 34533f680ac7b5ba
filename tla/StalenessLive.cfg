SPECIFICATION FairSpec
CONSTANTS
  Nodes = {n1}
  StaleAfter = 2
  MaxTime = 4
  MaxRestarts = 1
  MaxFailures = 1
INVARIANTS OneStalenessAlert AlertHasCause
PROPERTIES SilenceIsReported RecoveryIsNoticed
CHECK_DEADLOCK FALSE
