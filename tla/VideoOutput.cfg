SPECIFICATION Spec
CONSTANTS
  Frames <- MCFrames
  BaseNum = 3
  BaseDen = 2
  UnitNum = 15
  UnitDen = 4
INVARIANTS InfoKept OwnInfo TimestampKept FlushComplete
CHECK_DEADLOCK FALSE
