SPECIFICATION FairSpec
CONSTANTS
  DestroyAnyTime = FALSE
  kInitRetryDelayMs = 500
  kMaxRetryDelayMs = 30000
  MaxConnects = 2
  MaxFunctors = 2
CHECK_DEADLOCK FALSE
INVARIANTS NoSocketLeak OneAttempt
PROPERTIES StopSettles ConnectSucceeds
