SPECIFICATION FairSpec
CONSTANTS
  N = 2
  MaxFrames = 3
  Sync = FALSE
PROPERTIES FlushAnswered
CHECK_DEADLOCK FALSE
