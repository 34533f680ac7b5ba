SPECIFICATION Spec
CONSTANTS
  MaxEntries = 3
  DrainBatch = 2
  MaxPayloads = 3
  Crashes = FALSE
  MaxDiskFailures = 0
PROPERTIES BatchKept
