SPECIFICATION SpecMemory
CONSTANTS
  N = 2
  MaxFrames = 4
  Sync = TRUE
  Sources <- MCSources
INVARIANTS OwnData RefsCounted BuffersFreed
CHECK_DEADLOCK FALSE
