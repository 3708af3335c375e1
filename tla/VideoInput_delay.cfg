SPECIFICATION Spec
CONSTANTS
  Stream <- MCStream
  CapDelay = TRUE
INVARIANTS InfoKept OwnInfo NoLeak
CHECK_DEADLOCK FALSE
