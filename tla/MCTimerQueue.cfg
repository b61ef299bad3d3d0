SPECIFICATION FairSpec
CONSTANTS
  Addr = {a1, a2}
  Intervals = {2}
  MaxDelay = 1
  MsPerUs = 2
  MaxNow = 2
  MaxSeq = 3
  MaxPending = 2
CHECK_DEADLOCK FALSE
INVARIANTS NoDanglingTimer TimerfdCoversEarliest
PROPERTIES DueTimerFires CancelIsExact
