SPECIFICATION FairSpec
CONSTANTS
  Calls = {c1, c2}
  Sizes = {255, 256}
  ErrorCodes = {"kInvalidLength", "kCheckSumError"}
  MaxBad = 1
CHECK_DEADLOCK FALSE
INVARIANTS Routed NoCallLost
PROPERTIES NothingAfterError CallIsAnswered
