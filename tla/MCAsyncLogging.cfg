SPECIFICATION LoggingFairSpec
CONSTANTS
  Size = 2
  MaxToWrite = 2
  MaxLines = 4
  Null = Null
  RollSize = 1
  CheckEveryN = 2
  FlushInterval = 0
  RollPerSeconds = 1
  MaxTime = 2
INVARIANTS EnoughToRecycle NoLineLost
PROPERTIES LineIsWritten
