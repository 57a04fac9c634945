SPECIFICATION Spec
CONSTANTS
  w1 = w1
  w2 = w2
  t1 = t1
  t2 = t2
  Worker <- MCWorkers
  Task <- MCTasks
  Concurrency <- MCConcurrency
  BatchSize <- MCBatchSize
  MaxAttempts = 2
  Scenarios <- MCFleet
  MaxRetries = 0
  Null = Null
INVARIANTS
  RunDeliveredOnce
  StopStrandsNothing
  AnnouncedFailureIsFinal
PROPERTIES
  QueueKeepsLifecycle
