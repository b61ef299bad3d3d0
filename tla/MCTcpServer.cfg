SPECIFICATION FairSpec
CONSTANTS
  MaxThreads = 2
  MaxConns = 3
  MaxFds = 2
CHECK_DEADLOCK FALSE
INVARIANTS ConnectionsAgree DeletedIsDown Balanced
PROPERTIES ClosedIsReleased ClientIsServed
