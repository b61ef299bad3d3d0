SPECIFICATION Spec
CONSTANTS
  Usages <- ForceCloseAcrossThreads
  PeerResets = FALSE
  MsgLen = 2
  HighWaterMark = 3
  MaxUnits = 4
  MaxIn = 1
  MaxFunctors = 2
  MaxBase = 2
CHECK_DEADLOCK FALSE
INVARIANT RemovedOnce
