SPECIFICATION FairSpec
CONSTANTS
  w1 = w1
  w2 = w2
  t1 = t1
  t2 = t2
  Worker <- MCOneWorker
  Task <- MCTasks
  Concurrency <- MCOneConcurrency
  BatchSize <- MCOneBatchSize
  MaxAttempts = 2
  Scenarios <- MCWindow
  MaxRetries = 1
  Null = Null
INVARIANTS
  WindowBounded
  RunsEndBeforeLoop
PROPERTIES
  EveryTaskEnds
  StopEnds
