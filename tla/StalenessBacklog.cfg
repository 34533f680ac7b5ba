SPECIFICATION Spec
CONSTANTS
  Nodes = {n1, n2}
  StaleAfter = 2
  MaxTime = 5
  MaxRestarts = 1
  MaxFailures = 1
PROPERTIES AlarmMeansSilence
CHECK_DEADLOCK FALSE
