SPECIFICATION Spec
CONSTANTS
  kCheapPrepend = 1
  kInitialSize = 4
  ExtraSize = 2
  MaxBytes = 6
  MaxReserve = 2
CHECK_DEADLOCK FALSE
INVARIANT BoundedGrowth
PROPERTIES ImplementsByteQueue
