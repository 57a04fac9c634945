SPECIFICATION FairSpec
CONSTANTS
  Process <- MCProcess
  Drains <- MCDrains
  Concurrency <- MCConcurrency
  Task <- MCTask
  Async <- MCAsync
  Steps = 2
  MaxAttempts = 2
  Scenarios <- MCScenarios
INVARIANTS
  CompletedAsRecorded
  RecordedWorkIsNotRedone
  DrainReportsTheRun
PROPERTIES
  RuntimeEnds
CHECK_DEADLOCK FALSE
