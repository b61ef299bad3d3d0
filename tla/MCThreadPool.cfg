SPECIFICATION FairSpec
CONSTANTS
  Workers = {w1,w2}
  Enqueuers = {e1,w1,w2}
  Tasks = {1, 2, 3, 4, 5}
  InitSizes = {0, 1}
  Sizes = {0, 1, 2}
  None = None
INVARIANTS NoLostNotification
PROPERTIES QueueBounded ImplementsTaskQueue AcceptedTaskRuns CallsReturn
