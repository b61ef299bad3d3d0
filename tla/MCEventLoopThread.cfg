SPECIFICATION ThreadSpec
CONSTANTS
  Threads = {own, th1}
  Tasks = {t1, t2, t3}
  OutsideTasks = {t1}
  owner = own
  UserQuits = TRUE
CHECK_DEADLOCK FALSE
INVARIANTS NoLostWakeup ReturnedLoopIsLive
PROPERTIES ImplementsTaskQueue QueuedFunctorRuns QuitLeavesLoop StartLoopReturns DestroyWhileLoopingJoins
