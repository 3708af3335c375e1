SPECIFICATION Spec
CONSTANTS
  Terms <- MCTerms
  MaxFrames = 2
INVARIANTS GraphIsTerm InfoReaches AttributesReach FlushLast
CHECK_DEADLOCK FALSE
