SPECIFICATION FairSpec
CONSTANTS
  N = 3
  MaxFrames = 2
INVARIANTS LentFrame Alone MissedOnlyFirst
PROPERTIES KeepsContract AnsweredUnlessStuck
CHECK_DEADLOCK FALSE
