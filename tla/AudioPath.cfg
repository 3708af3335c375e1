SPECIFICATION PathSpec
CONSTANTS
  FrameSize = 4
  Rate = 4
  Clock = 9
  Lengths <- MCLengths
  Longest = 9
  MaxSamples = 19
  Delay = 1
  Libfdk = TRUE
  PacketSizes <- MCPacketSizes
  MaxPackets = 3
  MaxCalls = 3
  Losses <- MCLosses
INVARIANTS PathInv Contiguous SizeBound TimestampKept InfoNear FlushLoss
CHECK_DEADLOCK FALSE
