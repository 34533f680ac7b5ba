SPECIFICATION FairSpec
CONSTANTS
  MaxEntries = 3
  DrainBatch = 2
  MaxPayloads = 4
  Crashes = TRUE
  MaxDiskFailures = 1
INVARIANTS TypeOK NoSilentLoss HeldOnce
PROPERTIES FileSurvives BufferDrains CycleCompletes
