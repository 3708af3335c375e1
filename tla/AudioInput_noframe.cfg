SPECIFICATION Spec
CONSTANTS
  PacketSizes <- MCPacketSizes
  Samples <- MCSamples
  Rate = 4
  Clock = 9
  MaxPackets = 2
  MaxCalls = 5
INVARIANTS FeedsNextChunk
CHECK_DEADLOCK FALSE
