SPECIFICATION FairSpec
CONSTANTS
  N = 3
  MaxFrames = 2
  Sync = TRUE
INVARIANTS IndInv PortExclusive FlushDrains SyncBacklog WithinProcess
PROPERTIES KeepsContract InOrder AnsweredUnlessHung
CHECK_DEADLOCK FALSE
