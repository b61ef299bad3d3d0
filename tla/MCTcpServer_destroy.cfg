SPECIFICATION Spec
CONSTANTS
  MaxThreads = 1
  MaxConns = 1
  MaxFds = 1
CHECK_DEADLOCK FALSE
INVARIANT ConnectionIsDownWhenDeleted
