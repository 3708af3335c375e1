SPECIFICATION Spec
CONSTANTS
  Pixels = 2025
  DarkCounts <- MCDarkCounts
  IntWord = 262144
  Percentage = 98
  BlackMillis = 2250
  NonBlackMillis = 1025
  RateNum = 2
  RateDen = 1
  AudioFrames <- MCAudioFrames
  SampleWord = 65536
  NoiseThreshold = 33
  SilenceMillis = 40
  NoiseMillis = 25
  SampleRate = 8000
  Channels = 2
INVARIANTS MeansPercentage
CHECK_DEADLOCK FALSE
