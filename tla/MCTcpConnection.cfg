SPECIFICATION FairSpec
CONSTANTS
  Usages <- AllUsages
  PeerResets = TRUE
  MsgLen = 2
  HighWaterMark = 3
  MaxUnits = 4
  MaxIn = 1
  MaxFunctors = 2
  MaxBase = 2
CHECK_DEADLOCK FALSE
INVARIANTS StreamOrder WritesWhileOutput NoAssertFails
PROPERTIES ImplementsByteStream ShutdownCompletes CloseReleases
